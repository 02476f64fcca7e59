--------------------------- MODULE ExplorerProofs ---------------------------
(***************************************************************************)
(* ExplorerInv is an invariant of the commands and of the explorer's tab,  *)
(* for any number of commands and uploads; FeedInv, in the second part, of *)
(* the feed by which the explorer finds what was uploaded, for any number  *)
(* of levels, seconds, updates and readers.                                *)
(***************************************************************************)
EXTENDS Explorer, EpochFeed, SequenceTheorems, WellFoundedInduction, TLAPS

USE RefsStateAssumption

-----------------------------------------------------------------------------
(* The commands (RefsState).                                               *)

LEMMA Refs ==
  /\ Nothing \in LatestRefs
  /\ \A patch, old \in LatestRefs : Over(patch, old) \in LatestRefs
  /\ RefsTypeOK => LoadLatestRefs \in LatestRefs
  /\ Idle \in CommandState /\ Idle.at = "off"
<1>1. Nothing \in LatestRefs
  BY DEF Nothing, LatestRefs, NoRef
<1>2. ASSUME NEW patch \in LatestRefs, NEW old \in LatestRefs
      PROVE  Over(patch, old) \in LatestRefs
  BY DEF Over, LatestRefs, NoRef
<1>3. RefsTypeOK => LoadLatestRefs \in LatestRefs
  BY <1>1 DEF RefsTypeOK, LoadLatestRefs
<1>4. <<>> \in Seq(Kinds \X (1..MaxUploads))
  BY EmptySeq
<1>5. Idle \in CommandState /\ Idle.at = "off"
  BY <1>1, <1>4 DEF Idle, Run, CommandState
<1> QED
  BY <1>1, <1>2, <1>3, <1>5

\* What a command begins with.
LEMMA RunType ==
  ASSUME NEW does \in {"none", "manifest", "upload", "site", "refs"},
         NEW todo \in Seq(Kinds \X (1..MaxUploads)), NEW patch \in LatestRefs
  PROVE  Run(does, todo, patch) \in CommandState /\ Run(does, todo, patch).at = "publish"
BY Refs DEF Run, CommandState

\* A step of a command that does not save, and does not begin to.
LEMMA NoSave ==
  ASSUME RefsTypeOK, SavesKept, NEW c \in Command, ~Saving(c), UNCHANGED <<refs, last, smooth>>,
         \A d \in Command \ {c} : command'[d] = command[d],
         command'[c].at \in {"off", "publish", "load"}
  PROVE  SavesKept'
<1>1. \A d \in Command : (Saving(d)' <=> Saving(d)) /\ (Writing(d)' <=> Writing(d))
  BY DEF Saving, Writing
<1>2. \A d \in Command : command'[d].at # "mixing" \/ command[d].at = "mixing"
  OBVIOUS
<1>3. \A d \in Command : Saving(d)' => command'[d] = command[d]
  BY DEF Saving, Writing
<1> QED
  BY <1>1, <1>2, <1>3 DEF SavesKept

LEMMA BeginKeeps ==
  ASSUME RefsTypeOK, SavesKept, NEW c \in Command, NEW run \in CommandState, run.at = "publish",
         Begin(c, run), UNCHANGED <<refs, feed, last, smooth>>, made' \in [Kinds -> 0..MaxUploads]
  PROVE  RefsTypeOK' /\ SavesKept'
<1>1. /\ command' = [command EXCEPT ![c] = run] /\ command \in [Command -> CommandState]
      /\ command[c] = Idle /\ begun' \in 0..MaxCommands
  BY DEF Begin, RefsTypeOK
<1>2. RefsTypeOK'
  BY <1>1 DEF RefsTypeOK
<1>3. ~Saving(c)
  BY <1>1, Refs DEF Saving, Writing
<1>4. SavesKept'
  BY <1>1, <1>3, NoSave
<1> QED
  BY <1>2, <1>4

LEMMA UploadKeeps ==
  ASSUME RefsTypeOK, SavesKept, NEW c \in Command, NEW k \in Kinds, Upload(c, k)
  PROVE  RefsTypeOK' /\ SavesKept'
<1>1. made' = [made EXCEPT ![k] = @ + 1] /\ made[k] < MaxUploads /\ made \in [Kinds -> 0..MaxUploads]
  BY DEF Upload, RefsTypeOK
<1>2. made' \in [Kinds -> 0..MaxUploads] /\ made'[k] \in 1..MaxUploads
  BY <1>1
<1> DEFINE todo == <<<<k, made'[k]>>>>
           patch == IF k = "manifest" THEN Nothing ELSE [Nothing EXCEPT ![k] = made'[k]]
           does == IF k = "manifest" THEN "manifest" ELSE "upload"
<1>3. todo \in Seq(Kinds \X (1..MaxUploads))
  BY <1>2
<1>4. patch \in LatestRefs
  BY <1>2, Refs DEF LatestRefs, Keys
<1>5. does \in {"none", "manifest", "upload", "site", "refs"}
  OBVIOUS
<1>6. Begin(c, Run(does, todo, patch)) /\ UNCHANGED <<refs, feed, last, smooth>>
  BY DEF Upload
<1> HIDE DEF todo, patch, does
<1> QED
  BY <1>2, <1>3, <1>4, <1>5, <1>6, RunType, BeginKeeps

LEMMA PublishSiteKeeps ==
  ASSUME RefsTypeOK, SavesKept, NEW c \in Command, PublishSite(c)
  PROVE  RefsTypeOK' /\ SavesKept'
<1>1. PICK signer \in {NoRef, 1} : Begin(c, Run("site", <<>>, [Nothing EXCEPT !["publisher"] = signer]))
  BY DEF PublishSite
<1>2. [Nothing EXCEPT !["publisher"] = signer] \in LatestRefs
  <2>1. signer \in 0..MaxUploads
    BY DEF NoRef
  <2> QED
    BY <2>1, Refs DEF LatestRefs
<1>3. <<>> \in Seq(Kinds \X (1..MaxUploads))
  BY EmptySeq
<1>4. UNCHANGED <<refs, feed, made, last, smooth>> /\ made \in [Kinds -> 0..MaxUploads]
  BY DEF PublishSite, RefsTypeOK
<1>5. Run("site", <<>>, [Nothing EXCEPT !["publisher"] = signer]) \in CommandState
      /\ Run("site", <<>>, [Nothing EXCEPT !["publisher"] = signer]).at = "publish"
  BY <1>2, <1>3, RunType
<1> QED
  BY <1>1, <1>4, <1>5, BeginKeeps

LEMMA TodoType ==
  ASSUME NEW all \in LatestRefs
  PROVE  Todo(all) \in Seq(Kinds \X (1..MaxUploads))
<1> DEFINE with(k) == IF all[k] = NoRef THEN <<>> ELSE <<<<k, all[k]>>>>
           S == Kinds \X (1..MaxUploads)
<1>1. ASSUME NEW k \in Kinds PROVE with(k) \in Seq(S)
  <2>1. CASE all[k] = NoRef
    BY <2>1, EmptySeq
  <2>2. CASE all[k] # NoRef
    <3>1. all[k] \in 1..MaxUploads
      BY <2>2 DEF LatestRefs, Keys, NoRef
    <3> QED
      BY <2>2, <3>1
  <2> QED
    BY <2>1, <2>2
<1>2. with("manifest") \in Seq(S) /\ with("pot") \in Seq(S) /\ with("sqlite") \in Seq(S)
  BY <1>1 DEF Kinds
<1> HIDE DEF with, S
<1>3. with("manifest") \o with("pot") \o with("sqlite") \in Seq(S)
  BY <1>2, ConcatProperties
<1> QED
  BY <1>3 DEF Todo, with, S

LEMMA PublishRefsKeeps ==
  ASSUME RefsTypeOK, SavesKept, NEW c \in Command, PublishRefs(c)
  PROVE  RefsTypeOK' /\ SavesKept'
<1>1. PICK given \in Given :
        Begin(c, [Run("refs", Todo(Over(given, LoadLatestRefs)), given) EXCEPT !.saw = LoadLatestRefs])
  BY DEF PublishRefs
<1>2. given \in LatestRefs
  <2>1. ASSUME NEW k \in Kinds, NEW v \in 1..MaxUploads
        PROVE  [Nothing EXCEPT ![k] = v] \in LatestRefs
    <3>1. v \in 0..MaxUploads
      OBVIOUS
    <3> QED
      BY <3>1, Refs DEF LatestRefs
  <2> QED
    BY <2>1, Refs DEF Given
<1>3. Todo(Over(given, LoadLatestRefs)) \in Seq(Kinds \X (1..MaxUploads))
  BY <1>2, Refs, TodoType
<1>4. UNCHANGED <<refs, feed, made, last, smooth>> /\ made \in [Kinds -> 0..MaxUploads]
  BY DEF PublishRefs, RefsTypeOK
<1> DEFINE todo == Todo(Over(given, LoadLatestRefs))
           start == Run("refs", todo, given)
           run == [start EXCEPT !.saw = LoadLatestRefs]
<1>5. start \in CommandState /\ start.at = "publish"
  BY <1>2, <1>3, RunType
<1>6. Begin(c, run)
  BY <1>1
<1> HIDE DEF start
<1>7. run \in CommandState /\ run.at = "publish"
  BY <1>5, Refs DEF CommandState
<1> HIDE DEF run
<1> QED
  BY <1>4, <1>6, <1>7, BeginKeeps

\* The state of one command, field by field.
LEMMA OfCommand ==
  ASSUME RefsTypeOK, NEW c \in Command
  PROVE  /\ command[c] \in CommandState /\ command[c].todo \in Seq(Kinds \X (1..MaxUploads))
         /\ command[c].patch \in LatestRefs /\ command[c].saw \in LatestRefs
BY DEF RefsTypeOK, CommandState

LEMMA PublishFeedKeeps ==
  ASSUME RefsTypeOK, SavesKept, NEW c \in Command, PublishFeed(c)
  PROVE  RefsTypeOK' /\ SavesKept'
<1> DEFINE r == command[c]
           next == Head(r.todo)
<1>1. r.at = "publish" /\ r.todo # <<>> /\ UNCHANGED <<refs, made, begun, last, smooth>>
  BY DEF PublishFeed
<1>2. PICK ok, written \in BOOLEAN :
        /\ feed' = IF written THEN [feed EXCEPT ![next[1]] = next[2]] ELSE feed
        /\ command' = [command EXCEPT ![c].todo = Tail(@), ![c].patch["publisher"] = IF ok THEN 1 ELSE @]
  BY DEF PublishFeed
<1>3. next \in Kinds \X (1..MaxUploads) /\ Tail(r.todo) \in Seq(Kinds \X (1..MaxUploads))
  BY <1>1, OfCommand, HeadTailProperties
<1>4. feed' \in [Kinds -> 0..MaxUploads]
  <2>1. next[1] \in Kinds /\ next[2] \in 0..MaxUploads
    BY <1>3
  <2> DEFINE k == next[1]
             v == next[2]
  <2>2. feed' = feed \/ feed' = [feed EXCEPT ![k] = v]
    BY <1>2
  <2>3. k \in Kinds /\ v \in 0..MaxUploads /\ feed \in [Kinds -> 0..MaxUploads]
    BY <2>1 DEF RefsTypeOK
  <2> HIDE DEF k, v
  <2> QED
    BY <2>2, <2>3
<1> DEFINE patch == [r.patch EXCEPT !["publisher"] = IF ok THEN 1 ELSE @]
           new == [r EXCEPT !.todo = Tail(@), !.patch = patch]
<1>5. patch \in LatestRefs
  <2>1. r.patch \in LatestRefs
    BY OfCommand
  <2> DEFINE old == r.patch
  <2> HIDE DEF old
  <2>2. old \in [Keys -> 0..MaxUploads] /\ "publisher" \in Keys
    BY <2>1 DEF LatestRefs, Keys, old
  <2>3. 1 \in 0..MaxUploads
    OBVIOUS
  <2>4. [old EXCEPT !["publisher"] = IF ok THEN 1 ELSE @] \in [Keys -> 0..MaxUploads]
    BY <2>2, <2>3
  <2> QED
    BY <2>4 DEF LatestRefs, old
<1>6. command' = [command EXCEPT ![c] = new]
  BY <1>2, OfCommand DEF RefsTypeOK, CommandState
<1>7. new \in CommandState /\ new.at = "publish"
  <2> HIDE DEF patch, next
  <2> QED
    BY <1>1, <1>3, <1>5, OfCommand DEF CommandState
<1> HIDE DEF new, next, patch
<1>8. RefsTypeOK'
  BY <1>1, <1>4, <1>6, <1>7 DEF RefsTypeOK
<1>9. SavesKept'
  <2>1. ~Saving(c)
    BY <1>1 DEF Saving, Writing
  <2> QED
    BY <1>1, <1>6, <1>7, <2>1, NoSave DEF RefsTypeOK
<1> QED
  BY <1>8, <1>9

\* A command is over, or goes on to the file.
LEMMA PublishedKeeps ==
  ASSUME RefsTypeOK, SavesKept, NEW c \in Command, Published(c)
  PROVE  RefsTypeOK' /\ SavesKept'
<1>1. PICK new \in {[command[c] EXCEPT !.at = "load"], Idle} : command' = [command EXCEPT ![c] = new]
  BY DEF Published
<1>2. command[c].at = "publish" /\ UNCHANGED <<refs, feed, made, begun, last, smooth>>
  BY DEF Published
<1>3. new \in CommandState /\ new.at \in {"off", "load"}
  BY OfCommand, Refs DEF CommandState
<1>4. RefsTypeOK'
  BY <1>1, <1>2, <1>3 DEF RefsTypeOK
<1>5. ~Saving(c)
  BY <1>2 DEF Saving, Writing
<1> QED
  BY <1>1, <1>2, <1>3, <1>4, <1>5, NoSave DEF RefsTypeOK

\* Where nobody else saves, what a command reads is what was saved last.
LEMMA LoadKeeps ==
  ASSUME RefsTypeOK, SavesKept, NEW c \in Command, Load(c)
  PROVE  RefsTypeOK' /\ SavesKept'
<1> DEFINE new == [command[c] EXCEPT !.at = "write", !.saw = LoadLatestRefs]
<1>1. /\ command[c].at = "load" /\ UNCHANGED <<refs, feed, made, begun, last>>
      /\ smooth' = (smooth /\ \A d \in Command \ {c} : ~Saving(d))
  BY DEF Load
<1>2. command' = [command EXCEPT ![c] = new]
  BY OfCommand DEF Load, RefsTypeOK, CommandState
<1>3. new \in CommandState /\ new.at = "write" /\ new.saw = LoadLatestRefs
  BY OfCommand, Refs DEF CommandState
<1> HIDE DEF new
<1>4. RefsTypeOK'
  BY <1>1, <1>2, <1>3 DEF RefsTypeOK
<1>5. ASSUME smooth' PROVE SavesKept'
  <2>1. \A d \in Command : ~Saving(d) /\ command[d].at # "mixing"
    BY <1>1, <1>5 DEF Saving, Writing
  <2>2. refs = [whole |-> TRUE, holds |-> last]
    BY <1>1, <1>5, <2>1 DEF SavesKept, Saving
  <2>3. LoadLatestRefs = last
    BY <2>2 DEF LoadLatestRefs
  <2>4. /\ \A d \in Command \ {c} : command'[d] = command[d]
        /\ command'[c].at = "write" /\ command'[c].saw = last
    BY <1>2, <1>3, <2>3 DEF RefsTypeOK
  <2> QED
    BY <1>1, <2>1, <2>2, <2>4 DEF SavesKept, Saving, Writing
<1>6. SavesKept'
  BY <1>5 DEF SavesKept
<1> QED
  BY <1>4, <1>6

\* Where nobody else saves, nobody else writes.
LEMMA StartWriteKeeps ==
  ASSUME RefsTypeOK, SavesKept, NEW c \in Command, StartWrite(c)
  PROVE  RefsTypeOK' /\ SavesKept'
<1> DEFINE writers == {d \in Command : d = c \/ Writing(d)}
           at == IF writers = {c} THEN "writing" ELSE "mixing"
<1>1. /\ command[c].at = "write" /\ UNCHANGED <<feed, made, begun, last, smooth>>
      /\ refs' = [refs EXCEPT !.whole = FALSE]
      /\ command' = [d \in Command |-> IF d \notin writers THEN command[d]
                                       ELSE [command[d] EXCEPT !.at = at]]
  BY DEF StartWrite
<1>2. at \in {"writing", "mixing"}
  OBVIOUS
<1>3. RefsTypeOK'
  <2> HIDE DEF at, writers
  <2>1. \A d \in Command : [command[d] EXCEPT !.at = at] \in CommandState
    BY <1>2, OfCommand DEF CommandState
  <2>2. command' \in [Command -> CommandState]
    BY <1>1, <2>1 DEF RefsTypeOK
  <2> QED
    BY <1>1, <2>2 DEF RefsTypeOK
<1>4. ASSUME smooth PROVE SavesKept'
  <2>1. Saving(c) /\ \A d \in Command \ {c} : ~Saving(d)
    BY <1>1, <1>4 DEF SavesKept, Saving
  <2>2. writers = {c} /\ at = "writing"
    BY <2>1 DEF Saving
  <2>3. /\ \A d \in Command \ {c} : command'[d] = command[d]
        /\ command'[c].at = "writing" /\ command'[c].saw = command[c].saw
    BY <1>1, <2>2, OfCommand DEF CommandState
  <2>4. Writing(c)' /\ \A d \in Command \ {c} : ~Saving(d)'
    BY <2>1, <2>3 DEF Saving, Writing
  <2>5. \A d \in Command : command'[d].at # "mixing"
    BY <2>3, <1>4 DEF SavesKept
  <2> QED
    BY <1>1, <1>4, <2>1, <2>3, <2>4, <2>5 DEF SavesKept
<1>5. SavesKept'
  BY <1>1, <1>4 DEF SavesKept
<1> QED
  BY <1>3, <1>5

\* What a command saves is over what was saved last.
LEMMA EndWriteKeeps ==
  ASSUME RefsTypeOK, SavesKept, NEW c \in Command, EndWrite(c)
  PROVE  RefsTypeOK' /\ SavesKept'
<1> DEFINE holds == Over(command[c].patch, command[c].saw)
<1>1. /\ Writing(c) /\ command' = [command EXCEPT ![c] = Idle]
      /\ last' = Over(command[c].patch, last) /\ UNCHANGED <<feed, made, begun, smooth>>
  BY DEF EndWrite
<1>2. PICK whole \in {TRUE, command[c].at = "writing"} : refs' = [whole |-> whole, holds |-> holds]
  BY DEF EndWrite
<1>3. holds \in LatestRefs /\ last' \in LatestRefs
  BY <1>1, OfCommand, Refs DEF RefsTypeOK
<1>4. RefsTypeOK'
  <2> HIDE DEF holds
  <2>1. refs' \in [whole : BOOLEAN, holds : LatestRefs]
    BY <1>2, <1>3
  <2>2. command' \in [Command -> CommandState]
    BY <1>1, Refs DEF RefsTypeOK
  <2> QED
    BY <1>1, <1>3, <2>1, <2>2 DEF RefsTypeOK
<1>5. ASSUME smooth PROVE SavesKept'
  <2>1. Saving(c) /\ (\A d \in Command \ {c} : ~Saving(d)) /\ command[c].saw = last
    BY <1>1, <1>5 DEF SavesKept, Saving
  <2>2. command[c].at = "writing"
    BY <1>1, <1>5 DEF SavesKept, Writing
  <2>3. refs' = [whole |-> TRUE, holds |-> last']
    BY <1>1, <1>2, <2>1, <2>2
  <2>4. \A d \in Command : ~Saving(d)' /\ command'[d].at # "mixing"
    BY <1>1, <2>1, Refs DEF Saving, Writing, RefsTypeOK
  <2> QED
    BY <2>3, <2>4 DEF SavesKept
<1>6. SavesKept'
  BY <1>1, <1>5 DEF SavesKept
<1> QED
  BY <1>4, <1>6

LEMMA DieKeeps ==
  ASSUME RefsTypeOK, SavesKept, NEW c \in Command, Die(c)
  PROVE  RefsTypeOK' /\ SavesKept'
<1>1. /\ command' = [command EXCEPT ![c] = Idle] /\ UNCHANGED <<refs, feed, made, begun, last>>
      /\ smooth' = (smooth /\ ~Writing(c))
  BY DEF Die
<1>2. RefsTypeOK'
  BY <1>1, Refs DEF RefsTypeOK
<1>3. /\ \A d \in Command \ {c} : command'[d] = command[d]
      /\ command'[c].at = "off"
  BY <1>1, Refs DEF RefsTypeOK
<1>4. \A d \in Command : Saving(d)' => Saving(d) /\ command'[d] = command[d]
  BY <1>3 DEF Saving, Writing
<1>5. ASSUME smooth' PROVE (\A d \in Command : ~Writing(d)') => (\A d \in Command : ~Writing(d))
  BY <1>1, <1>3, <1>5 DEF Writing
<1>6. \A d \in Command : command'[d].at # "mixing" \/ command[d].at = "mixing"
  BY <1>3
<1>7. SavesKept'
  BY <1>1, <1>4, <1>5, <1>6 DEF SavesKept
<1> QED
  BY <1>2, <1>7

LEMMA CommandKeeps ==
  ASSUME RefsTypeOK, SavesKept, CommandNext
  PROVE  RefsTypeOK' /\ SavesKept'
<1>1. PICK c \in Command :
        \/ \E k \in Kinds : Upload(c, k)
        \/ PublishSite(c) \/ PublishRefs(c) \/ PublishFeed(c) \/ Published(c)
        \/ Load(c) \/ StartWrite(c) \/ EndWrite(c) \/ Die(c)
  BY DEF CommandNext
<1> QED
  BY <1>1, UploadKeeps, PublishSiteKeeps, PublishRefsKeeps, PublishFeedKeeps, PublishedKeeps,
     LoadKeeps, StartWriteKeeps, EndWriteKeeps, DieKeeps

-----------------------------------------------------------------------------
(* Settings, lookups and requests.                                         *)

USE ExplorerAssumption

Whole(st)  == DOMAIN st = SavedKeys /\ \A k \in SavedKeys : st[k] \in Saved(k)
Partly(st) == DOMAIN st \subseteq SavedKeys /\ \A k \in DOMAIN st : st[k] \in Saved(k)

\* The references of the trie are of one upload, or there are none.
Together(st) == st["byHash"] # NoRef => \E v \in Key : \A f \in PotFields : st[f] = Envelope(v)[f]

LEMMA Numbers ==
  /\ NoRef \in Reference /\ FirstManifest \in Reference
  /\ \A n \in 0..MaxUploads : n \in Reference /\ EnvelopeRef(n) \in Reference
BY DEF NoRef, FirstManifest, Reference, EnvelopeRef

LEMMA SavedUnder ==
  /\ Saved("useFeed") = BOOLEAN /\ Saved("source") = Kinds /\ Saved("publisher") = 0..MaxUploads
  /\ Saved("manifest") = Reference /\ Saved("sqlite") = Reference
  /\ \A f \in PotFields : Saved(f) = Reference /\ f \notin {"useFeed", "source", "publisher", "manifest", "sqlite"}
BY DEF Saved, PotFields

LEMMA DefaultType ==
  ASSUME NEW b \in LatestRefs
  PROVE  Whole(Default(b)) /\ Default(b)["byHash"] = NoRef
<1>1. \A k \in Keys : b[k] \in 0..MaxUploads /\ b[k] \in Reference /\ EnvelopeRef(b[k]) \in Reference
  BY Numbers DEF LatestRefs
<1>2. ASSUME NEW k \in SavedKeys PROVE Default(b)[k] \in Saved(k)
  BY <1>1, Numbers DEF Default, Saved, SavedKeys, PotFields, Keys, Kinds
<1> QED
  BY <1>2 DEF Whole, Default, SavedKeys, PotFields

LEMMA WithType ==
  ASSUME NEW new, NEW old, Partly(new)
  PROVE  /\ Whole(old) => Whole(With(new, old))
         /\ Partly(old) => Partly(With(new, old))
         /\ DOMAIN With(new, old) = DOMAIN new \cup DOMAIN old
         /\ \A k \in DOMAIN new : With(new, old)[k] = new[k]
         /\ \A k \in DOMAIN old \ DOMAIN new : With(new, old)[k] = old[k]
BY DEF With, Whole, Partly

LEMMA RefForType ==
  ASSUME NEW st, Whole(st), NEW index \in {"number", "hash", "tx", "address", "meta"}
  PROVE  RefFor(st, index) \in Reference
BY SavedUnder DEF RefFor, Whole, SavedKeys, PotFields, Kinds

LEMMA EnvelopeType ==
  ASSUME NEW v \in Key
  PROVE  Partly(Envelope(v)) /\ DOMAIN Envelope(v) = PotFields
BY SavedUnder, Numbers DEF Envelope, Partly, SavedKeys, Key, NoRef

\* What was found is an upload.
Sound(l) == (l.at = "feed" => l.source \in Kinds) /\ (l.at = "envelope" => l.ref \in Key)
Lookups(ls) == ls \in [Slot -> LookupState] /\ \A s \in Slot : Sound(ls[s])

LEMMA PutFacts ==
  ASSUME NEW S, NEW slots \in [Slot -> S], NEW new \in S
  PROVE  Put(slots, new) \in [Slot -> S] /\ \A s \in Slot : Put(slots, new)[s] \in {slots[s], new}
BY DEF Put

LEMMA LookupType ==
  ASSUME NEW st, Whole(st), NEW by \in {"none", "effect", "submit", "hydrate"}
  PROVE  Lookup(st, by) \in LookupState /\ Sound(Lookup(st, by))
<1>1. st["source"] \in Kinds
  BY SavedUnder DEF Whole, SavedKeys
<1> QED
  BY <1>1 DEF Lookup, LookupState, Sound, From, NoRef

LEMMA PutLoad ==
  ASSUME NEW slots \in [Slot -> LoadState], NEW q \in LoadState, NEW new, new \in {slots, Put(slots, q)}
  PROVE  new \in [Slot -> LoadState] /\ \A s \in Slot : new[s] \in {slots[s], q}
<1>1. Put(slots, q) \in [Slot -> LoadState] /\ \A s \in Slot : Put(slots, q)[s] \in {slots[s], q}
  BY PutFacts
<1> QED
  BY <1>1

LEMMA PutLookup ==
  ASSUME NEW ls, Lookups(ls), NEW l \in LookupState, Sound(l)
  PROVE  Lookups(Put(ls, l))
<1>1. Put(ls, l) \in [Slot -> LookupState] /\ \A s \in Slot : Put(ls, l)[s] \in {ls[s], l}
  BY PutFacts DEF Lookups
<1> QED
  BY <1>1 DEF Lookups

LEMMA FollowFeedType ==
  ASSUME NEW st, Whole(st), NEW ls, Lookups(ls)
  PROVE  Lookups(FollowFeed(st, ls))
BY LookupType, PutLookup DEF FollowFeed

LEMMA RequestType ==
  ASSUME NEW st, Whole(st), NEW r \in Locations, NEW at \in {"meta", "item", "probe"},
         NEW index \in {"number", "hash", "tx", "address", "meta"}
  PROVE  LET q == Request(st, r, at, index)
         IN  /\ q \in LoadState
             /\ q.at = at /\ q.route = r /\ q.source = st["source"] /\ q.ref = RefFor(st, index) /\ ~q.cancelled
<1>1. st["source"] \in From
  BY SavedUnder DEF Whole, SavedKeys, From
<1>2. RefFor(st, index) \in Reference /\ RefFor(st, "tx") \in Reference
  BY RefForType
<1> QED
  BY <1>1, <1>2 DEF Request, LoadState

-----------------------------------------------------------------------------
(* What loads.                                                             *)

View == [meta : Seen, item : Seen, error : BOOLEAN, loading : BOOLEAN]

\* The requests of `slots` that may still change the page `r`, before it loads.
Alive(l) == l.at # "off" /\ ~l.cancelled
Belongs(l, r) ==
  /\ r.page # "home" /\ l.route.page = r.page /\ l.at # "meta"
  /\ l.at = "item" => r.page # "lookup"
  /\ l.at = "probe" => r.page = "lookup"

LEMMA NewViewType == NewView \in View /\ NewView.meta = Unread /\ NewView.item = Unread
BY Numbers DEF NewView, View, Unread, Seen, From, NoRef

\* Whatever a page was waiting for, once it loads anew it shows the settings.
LEMMA LoadPageFresh ==
  ASSUME NEW st, Whole(st), NEW r \in Locations, NEW slots \in [Slot -> LoadState], NEW shown \in View,
         LoadPage(st, r, slots, shown), settings' = st, route' = r,
         \A s \in Slot : Alive(slots[s]) => Belongs(slots[s], r) /\ ~calm'
  PROVE  /\ loads' \in [Slot -> LoadState] /\ view' \in View
         /\ LoadsKept' /\ PagesFresh'
<1>1. r.index \in {"number", "hash", "tx", "address"} /\ r.key \in 0..MaxUploads
  BY DEF Locations
<1>2. CASE r.page = "home"
  <2> DEFINE q == Request(st, r, "meta", "meta")
  <2>1. /\ view' = [NewView EXCEPT !.loading = shown.loading]
        /\ loads' = slots \/ loads' = Put(slots, q)
    BY <1>2 DEF LoadPage, LoadHome
  <2>2. /\ q \in LoadState /\ q.at = "meta" /\ q.route = r /\ ~q.cancelled
        /\ q.source = st["source"] /\ q.ref = RefFor(st, "meta")
    BY RequestType
  <2> HIDE DEF q
  <2>3. loads' \in [Slot -> LoadState] /\ \A s \in Slot : loads'[s] \in {slots[s], q}
    BY <2>1, <2>2, PutLoad
  <2>4. view' \in View /\ view'.meta = Unread /\ view'.item = Unread
    BY <2>1, NewViewType DEF View
  <2>5. \A s \in Slot : Live(s)' => loads'[s] = q
    BY <1>2, <2>3 DEF Live, Alive, Belongs
  <2>6. LoadsKept'
    BY <1>2, <2>2, <2>5 DEF LoadsKept, Read, Shown
  <2>7. PagesFresh'
    BY <1>2, <2>4 DEF PagesFresh, HomeFresh, ItemFresh
  <2> QED
    BY <2>3, <2>4, <2>6, <2>7
<1>3. CASE r.page = "lookup"
  <2> DEFINE q == Request(st, r, "probe", "hash")
  <2>1. /\ view' = [shown EXCEPT !.error = ~HasSource(st)]
        /\ loads' = slots \/ loads' = Put(slots, q)
    BY <1>3 DEF LoadPage, LoadLookup
  <2>2. q \in LoadState /\ q.at = "probe" /\ q.route = r
    BY RequestType
  <2> HIDE DEF q
  <2>3. loads' \in [Slot -> LoadState] /\ \A s \in Slot : loads'[s] \in {slots[s], q}
    BY <2>1, <2>2, PutLoad
  <2>4. view' \in View
    BY <2>1 DEF View
  <2>5. \A s \in Slot : Live(s)' => loads'[s] = q \/ (loads'[s] = slots[s] /\ Belongs(slots[s], r))
    BY <2>3 DEF Live, Alive
  <2>6. LoadsKept'
    BY <1>3, <2>2, <2>5 DEF LoadsKept, Belongs
  <2>7. PagesFresh'
    BY <1>3 DEF PagesFresh, HomeFresh, ItemFresh
  <2> QED
    BY <2>3, <2>4, <2>6, <2>7
<1>4. CASE r.page \notin {"home", "lookup"}
  <2> DEFINE q == Request(st, r, "item", r.index)
  <2>1. \/ view' = [NewView EXCEPT !.loading = TRUE] /\ loads' = Put(slots, q)
        \/ view' = [shown EXCEPT !.error = TRUE] /\ loads' = slots
    BY <1>4 DEF LoadPage, LoadItem
  <2>2. /\ q \in LoadState /\ q.at = "item" /\ q.route = r /\ ~q.cancelled
        /\ q.source = st["source"] /\ q.ref = RefFor(st, r.index)
    BY <1>1, RequestType
  <2> HIDE DEF q
  <2>3. loads' \in [Slot -> LoadState] /\ \A s \in Slot : loads'[s] \in {slots[s], q}
    BY <2>1, <2>2, PutLoad
  <2>4. view' \in View /\ (view'.loading \/ view'.error)
    BY <2>1, NewViewType DEF View
  <2>5. \A s \in Slot : Live(s)' =>
          loads'[s] = q \/ (loads'[s] = slots[s] /\ Belongs(slots[s], r) /\ ~calm')
    BY <2>3 DEF Live, Alive
  <2>6. LoadsKept'
    BY <1>4, <2>2, <2>5 DEF LoadsKept, Belongs, Read, Shown
  <2>7. PagesFresh'
    BY <1>4, <2>4 DEF PagesFresh, HomeFresh, ItemFresh
  <2> QED
    BY <2>3, <2>4, <2>6, <2>7
<1> QED
  BY <1>2, <1>3, <1>4

\* What the page reads of the settings decides what it would load.
LEMMA ReadsDecide ==
  ASSUME NEW st, Whole(st), Whole(settings), \A k \in PageReads : st[k] = settings[k]
  PROVE  /\ st["source"] = settings["source"]
         /\ \A index \in {"number", "hash", "tx", "address"} : RefFor(st, index) = RefFor(settings, index)
         /\ route.page = "home" => RefFor(st, "meta") = RefFor(settings, "meta")
<1>1. "source" \in PageReads
  BY DEF PageReads
<1>2. settings["source"] = "pot" => {"byNumber", "byHash", "byTx", "byAddress"} \subseteq PageReads
  BY DEF PageReads, PotFields
<1>3. settings["source"] # "pot" => settings["source"] \in PageReads
  BY DEF PageReads
<1>4. route.page = "home" => "meta" \in PageReads
  BY DEF PageReads
<1>5. settings["source"] \in {"manifest", "sqlite", "pot"}
  BY SavedUnder DEF Whole, SavedKeys, Kinds
<1>6. st["source"] = settings["source"]
  BY <1>1
<1>7. CASE settings["source"] \in {"manifest", "sqlite"}
  <2>1. st[settings["source"]] = settings[settings["source"]]
    BY <1>3, <1>7
  <2> QED
    BY <1>6, <1>7, <2>1 DEF RefFor
<1>8. CASE settings["source"] = "pot"
  <2>1. /\ st["byNumber"] = settings["byNumber"] /\ st["byHash"] = settings["byHash"]
        /\ st["byTx"] = settings["byTx"] /\ st["byAddress"] = settings["byAddress"]
        /\ route.page = "home" => st["meta"] = settings["meta"]
    BY <1>2, <1>4, <1>8
  <2> QED
    BY <1>6, <1>8, <2>1 DEF RefFor
<1> QED
  BY <1>5, <1>7, <1>8

\* Nothing is stale after the settings changed.
LEMMA ChangeFresh ==
  ASSUME TabTypeOK, LoadsKept, PagesFresh, NEW st, Whole(st), NEW ls, Lookups(ls),
         Change(st, ls), route' = route
  PROVE  /\ settings' = st /\ Lookups(resolves')
         /\ loads' \in [Slot -> LoadState] /\ view' \in View /\ calm' \in BOOLEAN
         /\ LoadsKept' /\ PagesFresh'
<1>1. settings' = st /\ Lookups(resolves')
  BY FollowFeedType DEF Change
<1>2. /\ loads \in [Slot -> LoadState] /\ view \in View /\ calm \in BOOLEAN /\ route \in Locations
      /\ Whole(settings)
  BY DEF TabTypeOK, View, Whole
<1>3. CASE \E k \in PageReads : st[k] # settings[k]
  <2> DEFINE slots == Stale(loads, TRUE)
  <2>1. /\ LoadPage(st, route, slots, view)
        /\ calm' = (calm /\ (Pending(loads) => route.page = "home"))
    BY <1>3 DEF Change
  <2>2. slots \in [Slot -> LoadState]
    BY <1>2 DEF Stale, LoadState
  <2>3. \A s \in Slot : Alive(slots[s]) => route.page # "home" /\ slots[s] = loads[s] /\ Live(s)
    BY <1>2 DEF Stale, Alive, Live, LoadState
  <2>4. \A s \in Slot : Alive(slots[s]) => Belongs(slots[s], route)
    BY <2>3 DEF LoadsKept, Belongs
  <2>5. \A s \in Slot : Alive(slots[s]) => ~calm'
    BY <2>1, <2>3 DEF Pending, Live
  <2> HIDE DEF slots
  <2>6. loads' \in [Slot -> LoadState] /\ view' \in View /\ LoadsKept' /\ PagesFresh'
    BY <1>1, <1>2, <2>1, <2>2, <2>4, <2>5, LoadPageFresh
  <2> QED
    BY <1>1, <1>2, <2>1, <2>6
<1>4. CASE ~\E k \in PageReads : st[k] # settings[k]
  <2>1. UNCHANGED <<loads, view, calm>>
    BY <1>4 DEF Change
  <2>2. /\ st["source"] = settings["source"]
        /\ \A index \in {"number", "hash", "tx", "address"} : RefFor(st, index) = RefFor(settings, index)
        /\ route.page = "home" => RefFor(st, "meta") = RefFor(settings, "meta")
    BY <1>2, <1>4, ReadsDecide
  <2>3. /\ \A index \in {"number", "hash", "tx", "address"} : Shown(index)' = Shown(index)
        /\ route.page = "home" => Shown("meta")' = Shown("meta")
    BY <1>1, <2>2 DEF Shown
  <2>4. route.index \in {"number", "hash", "tx", "address"}
    BY <1>2 DEF Locations
  <2>5. LoadsKept'
    BY <2>1, <2>3, <2>4 DEF LoadsKept, Live, Read
  <2>6. PagesFresh'
    BY <2>1, <2>3, <2>4 DEF PagesFresh, HomeFresh, ItemFresh
  <2> QED
    BY <1>1, <1>2, <2>1, <2>5, <2>6
<1> QED
  BY <1>3, <1>4

\* Nothing is stale after the user went on, from requests that are those of the
\* page that is left.
LEMMA GoFresh ==
  ASSUME TabTypeOK, LoadsKept, PagesFresh, NEW r \in Locations, NEW rest \in [Slot -> LoadState],
         \A s \in Slot : Alive(rest[s]) => rest[s] = loads[s], Go(r, rest), settings' = settings
  PROVE  /\ route' = r /\ loads' \in [Slot -> LoadState] /\ view' \in View /\ calm' \in BOOLEAN
         /\ LoadsKept' /\ PagesFresh'
<1> DEFINE stays == r.page = route.page
           slots == Stale(rest, stays)
           shown == IF stays THEN view ELSE NewView
<1>1. /\ route' = r /\ LoadPage(settings, r, slots, shown)
      /\ calm' = (stays => calm /\ (Pending(rest) => r.page = "home"))
  BY DEF Go
<1>2. Whole(settings) /\ view \in View /\ calm \in BOOLEAN
  BY DEF TabTypeOK, View, Whole
<1>3. slots \in [Slot -> LoadState] /\ shown \in View
  BY <1>2, NewViewType DEF Stale, LoadState
<1>4. \A s \in Slot : Alive(slots[s]) =>
        /\ stays /\ route.page # "home" /\ slots[s] = rest[s] /\ Alive(rest[s])
        /\ rest[s] = loads[s] /\ Live(s)
  BY <1>3 DEF Stale, Alive, Live, LoadState
<1>5. \A s \in Slot : Alive(slots[s]) => Belongs(slots[s], r)
  BY <1>4 DEF LoadsKept, Belongs
<1>6. \A s \in Slot : Alive(slots[s]) => ~calm'
  BY <1>1, <1>4 DEF Pending, Alive
<1> HIDE DEF slots, shown
<1>7. loads' \in [Slot -> LoadState] /\ view' \in View /\ LoadsKept' /\ PagesFresh'
  BY <1>1, <1>2, <1>3, <1>5, <1>6, LoadPageFresh
<1> QED
  BY <1>1, <1>2, <1>7

\* A site that is shown anew has no requests of before.
LEMMA ShowFresh ==
  ASSUME NEW b \in LatestRefs, NEW known, Partly(known), NEW r \in Locations, Show(b, known, r)
  PROVE  /\ settings' = With(known, Default(b)) /\ Whole(settings') /\ route' = r /\ calm' = TRUE
         /\ Lookups(resolves') /\ loads' \in [Slot -> LoadState] /\ view' \in View
         /\ LoadsKept' /\ PagesFresh'
<1> DEFINE st == With(known, Default(b))
           none == [s \in Slot |-> NoLookup]
           slots == [s \in Slot |-> NoLoad]
<1>1. /\ settings' = st /\ route' = r /\ calm' = TRUE /\ LoadPage(st, r, slots, NewView)
      /\ resolves' = IF Follows(st) THEN Put(none, Lookup(st, "effect")) ELSE none
  BY DEF Show
<1>2. Whole(st)
  BY DefaultType, WithType
<1>3. Lookups(none)
  BY DEF Lookups, Sound, NoLookup, LookupState, From, NoRef
<1>4. Lookups(resolves')
  BY <1>1, <1>2, <1>3, LookupType, PutLookup
<1>5. slots \in [Slot -> LoadState] /\ \A s \in Slot : ~Alive(slots[s])
  BY Numbers DEF NoLoad, NoRoute, At, LoadState, Locations, From, Alive, NoRef
<1> HIDE DEF st, none, slots
<1>6. loads' \in [Slot -> LoadState] /\ view' \in View /\ LoadsKept' /\ PagesFresh'
  BY <1>1, <1>2, <1>5, NewViewType, LoadPageFresh
<1> QED
  BY <1>1, <1>2, <1>4, <1>6 DEF st

-----------------------------------------------------------------------------
(* The steps of the tab.                                                   *)

\* The parts of TypeOK.
LEMMA Types ==
  ASSUME TypeOK
  PROVE  /\ RefsTypeOK /\ TabTypeOK /\ Whole(settings) /\ Partly(storage)
         /\ feed \in [Kinds -> 0..MaxUploads] /\ made \in [Kinds -> 0..MaxUploads]
         /\ refs.holds \in LatestRefs /\ build \in LatestRefs /\ route \in Locations
         /\ resolves \in [Slot -> LookupState] /\ loads \in [Slot -> LoadState]
         /\ open \in BOOLEAN /\ actions \in 0..MaxActions
BY DEF TypeOK, RefsTypeOK, TabTypeOK, Whole, Partly

\* What has to be shown of a step that leaves the commands alone.
LEMMA TabKeeps ==
  ASSUME ExplorerInv, UNCHANGED refsVars,
         open' \in BOOLEAN, calm' \in BOOLEAN, actions' \in 0..MaxActions, build' \in LatestRefs,
         route' \in Locations, Whole(settings'), Partly(storage'), Lookups(resolves'),
         loads' \in [Slot -> LoadState], view' \in View,
         LoadsKept', PagesFresh', PotTogether'
  PROVE  ExplorerInv'
<1>1. RefsTypeOK' /\ SavesKept'
  BY Types DEF ExplorerInv, refsVars, RefsTypeOK, SavesKept, Saving, Writing
<1>2. TabTypeOK'
  BY DEF TabTypeOK, Whole, Partly, Lookups, View
<1>3. LookupsKept'
  BY DEF Lookups, LookupsKept, Sound
<1> QED
  BY <1>1, <1>2, <1>3 DEF ExplorerInv, TypeOK

LEMMA Lookedup ==
  ASSUME ExplorerInv
  PROVE  Lookups(resolves)
BY Types DEF ExplorerInv, LookupsKept, Lookups, Sound

\* PotTogether, of the settings and of what is stored.
LEMMA PotParts ==
  PotTogether <=> (open => Together(settings) /\ Together(With(storage, Default(build))))
BY DEF PotTogether, Together

LEMMA CommandStep ==
  ASSUME ExplorerInv, CommandNext, UNCHANGED tab
  PROVE  ExplorerInv'
<1>1. RefsTypeOK' /\ SavesKept'
  BY CommandKeeps DEF ExplorerInv, TypeOK
<1>2. TabTypeOK' /\ LookupsKept'
  BY Types DEF ExplorerInv, tab, TabTypeOK, LookupsKept
<1>3. LoadsKept' /\ PagesFresh'
  BY DEF ExplorerInv, tab, LoadsKept, Live, Read, Shown, PagesFresh, HomeFresh, ItemFresh
<1>4. PotTogether'
  BY DEF ExplorerInv, tab, PotTogether
<1> QED
  BY <1>1, <1>2, <1>3, <1>4 DEF ExplorerInv, TypeOK

LEMMA RouteType == Route \subseteq Locations
BY DEF Route, At, Locations, Key

\* Of a trie's references the site's own defaults know the first alone.
LEMMA DefaultsTogether ==
  ASSUME NEW b \in LatestRefs, NEW known, Partly(known), "byHash" \notin DOMAIN known
  PROVE  Together(With(known, Default(b)))
<1>1. With(known, Default(b))["byHash"] = NoRef
  <2>1. DOMAIN Default(b) = SavedKeys /\ Default(b)["byHash"] = NoRef
    BY DefaultType DEF Whole
  <2>2. "byHash" \in DOMAIN Default(b) \ DOMAIN known
    BY <2>1 DEF SavedKeys, PotFields
  <2>3. With(known, Default(b))["byHash"] = Default(b)["byHash"]
    BY <2>2 DEF With
  <2> QED
    BY <2>1, <2>3
<1> QED
  BY <1>1 DEF Together

LEMMA OpenTabKeeps ==
  ASSUME ExplorerInv, OpenTab
  PROVE  ExplorerInv'
<1>1. /\ open' = TRUE /\ build' = refs.holds /\ storage' = [k \in {} |-> NoRef]
      /\ begun' = MaxCommands /\ last' = Nothing /\ smooth' = FALSE
      /\ UNCHANGED <<refs, feed, made, command, actions>>
  BY DEF OpenTab
<1>2. PICK r \in Route : Show(build', storage', r)
  BY DEF OpenTab
<1>3. build' \in LatestRefs /\ r \in Locations
  BY <1>1, Types, RouteType DEF ExplorerInv
<1>4. Partly(storage') /\ "byHash" \notin DOMAIN storage'
  BY <1>1 DEF Partly
<1>5. /\ settings' = With(storage', Default(build')) /\ Whole(settings') /\ route' = r /\ calm' = TRUE
      /\ Lookups(resolves') /\ loads' \in [Slot -> LoadState] /\ view' \in View
      /\ LoadsKept' /\ PagesFresh'
  BY <1>2, <1>3, <1>4, ShowFresh
<1>6. Together(settings')
  BY <1>3, <1>4, <1>5, DefaultsTogether
<1>7. PotTogether'
  BY <1>5, <1>6 DEF PotTogether, Together
<1>8. RefsTypeOK' /\ SavesKept'
  <2>1. RefsTypeOK
    BY Types DEF ExplorerInv
  <2>2. MaxCommands \in 0..MaxCommands
    OBVIOUS
  <2>3. RefsTypeOK'
    BY <1>1, <2>1, <2>2, Refs DEF RefsTypeOK
  <2>4. SavesKept'
    BY <1>1 DEF SavesKept
  <2> QED
    BY <2>3, <2>4
<1>9. TabTypeOK'
  BY <1>1, <1>3, <1>4, <1>5, Types DEF ExplorerInv, TabTypeOK, Whole, Partly, Lookups, View
<1>10. LookupsKept'
  BY <1>5 DEF Lookups, LookupsKept, Sound
<1> QED
  BY <1>5, <1>7, <1>8, <1>9, <1>10 DEF ExplorerInv, TypeOK

LEMMA ActType ==
  ASSUME TypeOK, Act
  PROVE  actions' \in 0..MaxActions /\ open = TRUE
BY Types DEF Act

LEMMA ReloadKeeps ==
  ASSUME ExplorerInv, Reload
  PROVE  ExplorerInv'
<1>1. Show(build, storage, route) /\ UNCHANGED <<refsVars, open, build, storage>> /\ Act
  BY DEF Reload
<1>2. TypeOK
  BY DEF ExplorerInv
<1>3. /\ settings' = With(storage, Default(build)) /\ Whole(settings') /\ route' = route /\ calm' = TRUE
      /\ Lookups(resolves') /\ loads' \in [Slot -> LoadState] /\ view' \in View
      /\ LoadsKept' /\ PagesFresh'
  BY <1>1, <1>2, Types, ShowFresh
<1>4. PotTogether'
  BY <1>1, <1>3 DEF ExplorerInv, PotTogether
<1> QED
  BY <1>1, <1>2, <1>3, <1>4, Types, ActType, TabKeeps

LEMMA NavigateKeeps ==
  ASSUME ExplorerInv, Navigate
  PROVE  ExplorerInv'
<1>1. Act /\ UNCHANGED <<refsVars, open, build, settings, storage, resolves>>
  BY DEF Navigate
<1>2. PICK r \in Route : Go(r, loads)
  BY DEF Navigate
<1>3. TypeOK /\ LoadsKept /\ PagesFresh
  BY DEF ExplorerInv
<1>4. /\ route' = r /\ r \in Locations /\ loads' \in [Slot -> LoadState] /\ view' \in View /\ calm' \in BOOLEAN
      /\ LoadsKept' /\ PagesFresh'
  BY <1>1, <1>2, <1>3, Types, RouteType, GoFresh
<1>5. PotTogether'
  BY <1>1 DEF ExplorerInv, PotTogether
<1> QED
  BY <1>1, <1>3, <1>4, <1>5, Types, ActType, Lookedup, TabKeeps

\* Whatever the user chooses, the trie's references stay as they were.
LEMMA SubmitKeeps ==
  ASSUME ExplorerInv, Submit
  PROVE  ExplorerInv'
<1>1. Act /\ UNCHANGED <<refsVars, open, build, route>>
  BY DEF Submit
<1>2. PICK source \in Source, follow \in BOOLEAN, publisher \in {settings["publisher"], 1},
           manifest \in {settings["manifest"], made["manifest"]} :
        LET st == Chosen(source, follow, publisher, manifest)
        IN  /\ storage' = st
            /\ Change(st, IF Follows(st) THEN Put(resolves, Lookup(st, "submit")) ELSE resolves)
  BY DEF Submit
<1> DEFINE st == Chosen(source, follow, publisher, manifest)
           ls == IF Follows(st) THEN Put(resolves, Lookup(st, "submit")) ELSE resolves
<1>3. TypeOK /\ TabTypeOK /\ LoadsKept /\ PagesFresh
  BY Types DEF ExplorerInv
<1>4. Whole(st)
  <2>1. /\ source \in Saved("source") /\ follow \in Saved("useFeed")
        /\ publisher \in Saved("publisher") /\ manifest \in Saved("manifest")
    BY <1>3, Types, SavedUnder, Numbers DEF Whole, SavedKeys, Kinds
  <2> QED
    BY <1>3, <2>1, Types DEF Chosen, Whole, SavedKeys
<1>5. \A f \in PotFields : st[f] = settings[f] /\ f \in SavedKeys
  BY <1>3, Types DEF Chosen, Whole, SavedKeys, PotFields
<1> HIDE DEF st
<1>6. Lookups(ls)
  BY <1>4, Lookedup, LookupType, PutLookup
<1>7. storage' = st /\ Change(st, ls)
  BY <1>2 DEF st
<1> HIDE DEF ls
<1>8. /\ settings' = st /\ Lookups(resolves')
      /\ loads' \in [Slot -> LoadState] /\ view' \in View /\ calm' \in BOOLEAN
      /\ LoadsKept' /\ PagesFresh'
  BY <1>1, <1>3, <1>4, <1>6, <1>7, ChangeFresh
<1>9. PotTogether'
  <2>1. Together(settings) /\ open
    BY <1>1, <1>3, PotParts, ActType DEF ExplorerInv
  <2>2. Together(st)
    BY <1>5, <2>1 DEF Together, PotFields
  <2>3. Partly(st)
    BY <1>4 DEF Whole, Partly
  <2>4. \A f \in PotFields : With(st, Default(build))[f] = st[f]
    <3>1. DOMAIN st = SavedKeys
      BY <1>4 DEF Whole
    <3>2. \A k \in DOMAIN st : With(st, Default(build))[k] = st[k]
      BY <2>3, WithType
    <3> QED
      BY <1>5, <3>1, <3>2
  <2>5. Together(With(st, Default(build)))
    BY <2>2, <2>4 DEF Together, PotFields
  <2> QED
    BY <1>1, <1>7, <1>8, <2>2, <2>5 DEF PotTogether, Together
<1>10. Whole(settings') /\ Partly(storage')
  BY <1>4, <1>7, <1>8 DEF Whole, Partly
<1> QED
  BY <1>1, <1>3, <1>8, <1>9, <1>10, Types, ActType, TabKeeps

LEMMA HydrateKeeps ==
  ASSUME ExplorerInv, Hydrate
  PROVE  ExplorerInv'
<1>1. Act /\ UNCHANGED <<refsVars, open, build, settings, storage, route, view, loads, calm>>
  BY DEF Hydrate
<1>2. PICK v \in 1..made["pot"] : resolves' = Put(resolves,
        [at |-> "envelope", source |-> "pot", ref |-> v, by |-> "hydrate"])
  BY DEF Hydrate
<1> DEFINE l == [at |-> "envelope", source |-> "pot", ref |-> v, by |-> "hydrate"]
<1>3. TypeOK /\ TabTypeOK /\ LoadsKept /\ PagesFresh
  BY Types DEF ExplorerInv
<1>4. v \in Key /\ v \in 0..MaxUploads
  BY <1>2, <1>3, Types DEF Kinds, Key
<1>5. l \in LookupState /\ Sound(l)
  BY <1>4 DEF LookupState, Sound, From, Kinds
<1> HIDE DEF l
<1>6. Lookups(resolves')
  BY <1>2, <1>5, Lookedup, PutLookup DEF l
<1>7. PotTogether' /\ LoadsKept' /\ PagesFresh'
  BY <1>1 DEF ExplorerInv, PotTogether, LoadsKept, Live, Read, Shown, PagesFresh, HomeFresh, ItemFresh
<1>8. view \in View /\ calm \in BOOLEAN
  BY <1>3 DEF TabTypeOK, View
<1> QED
  BY <1>1, <1>3, <1>6, <1>7, <1>8, Types, ActType, TabKeeps

LEMMA AnnounceKeeps ==
  ASSUME ExplorerInv, Announce
  PROVE  ExplorerInv'
<1>1. UNCHANGED <<refs, command, begun, last, smooth, tab>>
  BY DEF Announce
<1>2. PICK k \in Source : /\ made[k] < MaxUploads /\ made' = [made EXCEPT ![k] = @ + 1]
                          /\ feed' = [feed EXCEPT ![k] = made'[k]]
  BY DEF Announce
<1>3. TypeOK
  BY DEF ExplorerInv
<1>4. made' \in [Kinds -> 0..MaxUploads]
  BY <1>2, <1>3, Types
<1>5. feed' \in [Kinds -> 0..MaxUploads]
  BY <1>2, <1>3, <1>4, Types
<1>6. RefsTypeOK'
  BY <1>1, <1>3, <1>4, <1>5 DEF TypeOK, RefsTypeOK
<1>7. TabTypeOK' /\ LookupsKept'
  BY <1>1, <1>3, Types DEF ExplorerInv, tab, TabTypeOK, LookupsKept
<1>8. SavesKept'
  BY <1>1 DEF ExplorerInv, SavesKept, Saving, Writing
<1>9. PotTogether' /\ LoadsKept' /\ PagesFresh'
  BY <1>1 DEF ExplorerInv, tab, PotTogether, LoadsKept, Live, Read, Shown, PagesFresh, HomeFresh, ItemFresh
<1> QED
  BY <1>6, <1>7, <1>8, <1>9 DEF ExplorerInv, TypeOK

LEMMA NoLookupType == NoLookup \in LookupState /\ Sound(NoLookup)
BY DEF NoLookup, LookupState, Sound, From, NoRef

LEMMA LookupEnds ==
  ASSUME ExplorerInv, NEW s \in Slot, NEW l \in LookupState, Sound(l)
  PROVE  Lookups([resolves EXCEPT ![s] = l])
BY Lookedup DEF Lookups

LEMMA LookupFailsKeeps ==
  ASSUME ExplorerInv, NEW s \in Slot, LookupFails(s)
  PROVE  ExplorerInv'
<1>1. /\ resolves' = [resolves EXCEPT ![s] = NoLookup]
      /\ UNCHANGED <<refsVars, open, build, settings, storage, route, view, loads, actions, calm>>
  BY DEF LookupFails
<1>2. Lookups(resolves')
  BY <1>1, NoLookupType, LookupEnds
<1>3. PotTogether' /\ LoadsKept' /\ PagesFresh'
  BY <1>1 DEF ExplorerInv, PotTogether, LoadsKept, Live, Read, Shown, PagesFresh, HomeFresh, ItemFresh
<1>4. TypeOK /\ view \in View /\ calm \in BOOLEAN
  BY DEF ExplorerInv, TypeOK, TabTypeOK, View
<1> QED
  BY <1>1, <1>2, <1>3, <1>4, Types, TabKeeps

\* What a lookup found goes into the settings and into what is stored of them.
LEMMA FoundKeeps ==
  ASSUME ExplorerInv, NEW s \in Slot, NEW found, Partly(found),
         Change(With(found, settings), [resolves EXCEPT ![s] = NoLookup]),
         storage' = With(found, storage), UNCHANGED <<refsVars, open, build, route, actions>>,
         Together(settings) => Together(With(found, settings)),
         Together(With(storage, Default(build))) => Together(With(With(found, storage), Default(build)))
  PROVE  ExplorerInv'
<1> DEFINE st == With(found, settings)
           ls == [resolves EXCEPT ![s] = NoLookup]
<1>1. TypeOK /\ TabTypeOK /\ LoadsKept /\ PagesFresh
  BY Types DEF ExplorerInv
<1>2. Whole(st) /\ Partly(storage')
  BY <1>1, Types, WithType
<1>3. Lookups(ls)
  BY NoLookupType, LookupEnds
<1> HIDE DEF st, ls
<1>4. Change(st, ls) /\ route' = route
  BY DEF st, ls
<1>5. /\ settings' = st /\ Lookups(resolves')
      /\ loads' \in [Slot -> LoadState] /\ view' \in View /\ calm' \in BOOLEAN
      /\ LoadsKept' /\ PagesFresh'
  BY <1>1, <1>2, <1>3, <1>4, ChangeFresh
<1>6. ASSUME open PROVE Together(settings') /\ Together(With(storage', Default(build)))
  BY <1>5, <1>6, PotParts DEF ExplorerInv, st
<1>7. PotTogether'
  BY <1>6 DEF PotTogether, Together
<1> QED
  BY <1>1, <1>2, <1>5, <1>7, Types, TabKeeps

\* An answer names a field that is no index of the trie, or is an upload for which
\* the envelope is asked.
LEMMA FeedAnswerKeeps ==
  ASSUME ExplorerInv, NEW s \in Slot, FeedAnswer(s)
  PROVE  ExplorerInv'
<1> DEFINE k == resolves[s].source
<1>1. /\ resolves[s].at = "feed" /\ feed[k] # NoRef
      /\ UNCHANGED <<refsVars, open, build, route, actions>>
  BY DEF FeedAnswer
<1>2. TypeOK /\ TabTypeOK
  BY Types DEF ExplorerInv
<1>3. k \in Kinds /\ feed[k] \in Key /\ feed[k] \in 0..MaxUploads
  <2>1. k \in Kinds
    BY <1>1 DEF ExplorerInv, LookupsKept
  <2> HIDE DEF k
  <2>2. feed[k] \in 0..MaxUploads
    BY <1>2, <2>1, Types
  <2> QED
    BY <1>1, <2>1, <2>2 DEF Key, NoRef
<1>4. CASE k = "pot"
  <2> DEFINE l == [resolves[s] EXCEPT !.at = "envelope", !.ref = feed[k]]
  <2>1. /\ resolves' = [resolves EXCEPT ![s] = l]
        /\ UNCHANGED <<settings, storage, view, loads, calm>>
    BY <1>2, <1>4, Types DEF FeedAnswer, LookupState
  <2>2. l \in LookupState /\ Sound(l)
    BY <1>2, <1>3, Types DEF LookupState, Sound
  <2> HIDE DEF l
  <2>3. Lookups(resolves')
    BY <2>1, <2>2, LookupEnds
  <2>4. PotTogether' /\ LoadsKept' /\ PagesFresh'
    BY <1>1, <2>1 DEF ExplorerInv, PotTogether, LoadsKept, Live, Read, Shown, PagesFresh, HomeFresh, ItemFresh
  <2>5. view \in View /\ calm \in BOOLEAN
    BY <1>2 DEF TabTypeOK, View
  <2> QED
    BY <1>1, <1>2, <2>1, <2>3, <2>4, <2>5, Types, TabKeeps
<1>5. CASE k # "pot"
  <2> DEFINE found == [f \in {k} |-> feed[k]]
  <2>1. /\ Change(With(found, settings), [resolves EXCEPT ![s] = NoLookup])
        /\ storage' = With(found, storage)
    BY <1>5 DEF FeedAnswer
  <2>2. DOMAIN found = {k} /\ k \in {"manifest", "sqlite"} /\ found[k] \in Saved(k)
    BY <1>3, <1>5, SavedUnder, Numbers DEF Kinds
  <2>3. Partly(found)
    BY <2>2 DEF Partly, SavedKeys
  <2>4. \A f \in PotFields : f \notin DOMAIN found
    BY <2>2 DEF PotFields
  <2> HIDE DEF found, k
  <2>5. \A f \in PotFields : f \in DOMAIN settings /\ f \in DOMAIN Default(build)
    BY <1>2, Types, DefaultType DEF Whole, SavedKeys
  <2>6. \A f \in PotFields :
          /\ With(found, settings)[f] = settings[f]
          /\ With(With(found, storage), Default(build))[f] = With(storage, Default(build))[f]
    BY <2>4, <2>5 DEF With
  <2>7. /\ Together(settings) => Together(With(found, settings))
        /\ Together(With(storage, Default(build))) => Together(With(With(found, storage), Default(build)))
    BY <2>6 DEF Together, PotFields
  <2> QED
    BY <1>1, <2>1, <2>3, <2>7, FoundKeeps
<1> QED
  BY <1>4, <1>5

\* An envelope names all the fields of the trie.
LEMMA EnvelopeAnswerKeeps ==
  ASSUME ExplorerInv, NEW s \in Slot, EnvelopeAnswer(s)
  PROVE  ExplorerInv'
<1> DEFINE v == resolves[s].ref
           found == Envelope(v)
<1>1. /\ resolves[s].at = "envelope" /\ UNCHANGED <<refsVars, open, build, route, actions>>
      /\ Change(With(found, settings), [resolves EXCEPT ![s] = NoLookup])
      /\ storage' = With(found, storage)
  BY DEF EnvelopeAnswer
<1>2. v \in Key
  BY <1>1 DEF ExplorerInv, LookupsKept
<1> HIDE DEF v
<1>3. Partly(found) /\ DOMAIN found = PotFields
  BY <1>2, EnvelopeType
<1> HIDE DEF found
<1>4. \A f \in PotFields :
        With(found, settings)[f] = found[f] /\ With(With(found, storage), Default(build))[f] = found[f]
  BY <1>3 DEF With
<1>5. Together(With(found, settings)) /\ Together(With(With(found, storage), Default(build)))
  BY <1>2, <1>4 DEF Together, found
<1> QED
  BY <1>1, <1>3, <1>5, FoundKeeps

\* A page that took an answer, with nothing else changed.
LEMMA AnswerKeeps ==
  ASSUME ExplorerInv, UNCHANGED <<refsVars, open, build, settings, storage, resolves, actions>>,
         route' \in Locations, calm' \in BOOLEAN,
         loads' \in [Slot -> LoadState], view' \in View, LoadsKept', PagesFresh'
  PROVE  ExplorerInv'
<1>1. PotTogether'
  BY DEF ExplorerInv, PotTogether
<1>2. TypeOK
  BY DEF ExplorerInv
<1> QED
  BY <1>1, <1>2, Types, Lookedup, TabKeeps

\* What is read is what was asked for.
LEMMA ReadType ==
  ASSUME NEW l \in LoadState
  PROVE  Read(l) \in Seen /\ l.route \in Locations
BY DEF Read, LoadState, Locations, Seen

\* The summary decides which blocks are asked for, from the settings by then.
LEMMA MetaAnswerKeeps ==
  ASSUME ExplorerInv, NEW s \in Slot, MetaAnswer(s)
  PROVE  ExplorerInv'
<1>1. /\ loads[s].at = "meta"
      /\ UNCHANGED <<refsVars, open, build, settings, storage, resolves, route, actions, calm>>
  BY DEF MetaAnswer
<1>2. /\ TypeOK /\ Whole(settings) /\ loads \in [Slot -> LoadState] /\ route \in Locations
      /\ view \in View /\ calm \in BOOLEAN /\ loads[s] \in LoadState
  BY Types DEF ExplorerInv, TypeOK, TabTypeOK, View
<1>3. LoadsKept /\ PagesFresh
  BY DEF ExplorerInv
<1>4. CASE loads[s].cancelled
  <2>1. loads' = [loads EXCEPT ![s] = NoLoad] /\ view' = view
    BY <1>4 DEF MetaAnswer
  <2>2. NoLoad \in LoadState /\ NoLoad.at = "off"
    BY Numbers DEF NoLoad, NoRoute, At, LoadState, Locations, From, NoRef
  <2>3. loads' \in [Slot -> LoadState] /\ \A t \in Slot : Live(t)' => loads'[t] = loads[t] /\ Live(t)
    BY <1>2, <2>1, <2>2 DEF Live
  <2>4. LoadsKept'
    BY <1>1, <1>3, <2>3 DEF LoadsKept, Read, Shown
  <2>5. PagesFresh'
    BY <1>1, <1>3, <2>1 DEF PagesFresh, HomeFresh, ItemFresh, Shown
  <2> QED
    BY <1>1, <1>2, <2>1, <2>3, <2>4, <2>5, AnswerKeeps
<1>5. CASE ~loads[s].cancelled
  <2> DEFINE l == loads[s]
             m == [l EXCEPT !.at = "item", !.source = settings["source"], !.ref = RefFor(settings, "number")]
  <2>1. route.page = "home" /\ Read(l) = Shown("meta")
    BY <1>1, <1>3, <1>5 DEF LoadsKept, Live
  <2>2. view' = [view EXCEPT !.meta = Read(l), !.loading = TRUE] /\ loads' = [loads EXCEPT ![s] = m]
    BY <1>2, <1>5 DEF MetaAnswer, LoadState
  <2>3. settings["source"] \in From /\ RefFor(settings, "number") \in Reference
    BY <1>2, RefForType, SavedUnder DEF Whole, SavedKeys, From
  <2>4. /\ m \in LoadState /\ m.at = "item" /\ m.route = l.route /\ m.cancelled = l.cancelled
        /\ m.source = settings["source"] /\ m.ref = RefFor(settings, "number")
    BY <1>2, <2>3 DEF LoadState
  <2>5. l.route.key = route.key /\ l.route.page = "home"
    BY <1>1, <1>3, <1>5, <2>1 DEF Read, Shown, LoadsKept, Live
  <2> HIDE DEF m
  <2>6. Read(m) = Shown("number")
    BY <2>4, <2>5 DEF Read, Shown
  <2>7. loads' \in [Slot -> LoadState] /\ \A t \in Slot : loads'[t] = IF t = s THEN m ELSE loads[t]
    BY <1>2, <2>2, <2>4
  <2>8. /\ view' \in View /\ view'.meta = Read(l) /\ view'.item = view.item
    BY <1>2, <2>2, ReadType DEF View
  <2>9. LoadsKept'
    <3> SUFFICES ASSUME NEW t \in Slot, Live(t)'
                 PROVE  /\ loads'[t].route.page = route'.page
                        /\ loads'[t].at = "meta" => route'.page = "home" /\ Read(loads[t])' = Shown("meta")'
                        /\ loads'[t].at = "item" =>
                             /\ route'.page # "lookup"
                             /\ route'.page = "home" => Read(loads[t])' = Shown("number")'
                             /\ route'.page # "home" /\ calm' => Read(loads[t])' = Shown(route.index)'
                        /\ loads'[t].at = "probe" => route'.page = "lookup"
      BY DEF LoadsKept
    <3>1. CASE t = s
      BY <1>1, <2>1, <2>4, <2>5, <2>6, <2>7, <3>1 DEF Read, Shown
    <3>2. CASE t # s
      BY <1>1, <1>3, <2>7, <3>2 DEF LoadsKept, Live, Read, Shown
    <3> QED
      BY <3>1, <3>2
  <2>10. PagesFresh'
    BY <1>1, <1>3, <2>1, <2>8 DEF PagesFresh, HomeFresh, ItemFresh, Shown
  <2> QED
    BY <1>1, <1>2, <2>7, <2>8, <2>9, <2>10, AnswerKeeps
<1> QED
  BY <1>4, <1>5

LEMMA NoLoadType == NoLoad \in LoadState /\ NoLoad.at = "off"
BY Numbers DEF NoLoad, NoRoute, At, LoadState, Locations, From, NoRef

LEMMA ItemAnswerKeeps ==
  ASSUME ExplorerInv, NEW s \in Slot, ItemAnswer(s)
  PROVE  ExplorerInv'
<1> DEFINE l == loads[s]
<1>1. /\ l.at = "item" /\ loads' = [loads EXCEPT ![s] = NoLoad]
      /\ UNCHANGED <<refsVars, open, build, settings, storage, resolves, route, actions, calm>>
  BY DEF ItemAnswer
<1>2. /\ TypeOK /\ loads \in [Slot -> LoadState] /\ route \in Locations
      /\ view \in View /\ calm \in BOOLEAN /\ l \in LoadState
  BY Types DEF ExplorerInv, TypeOK, TabTypeOK, View
<1>3. LoadsKept /\ PagesFresh
  BY DEF ExplorerInv
<1>4. loads' \in [Slot -> LoadState] /\ \A t \in Slot : Live(t)' => loads'[t] = loads[t] /\ Live(t)
  BY <1>1, <1>2, NoLoadType DEF Live
<1>5. LoadsKept'
  BY <1>1, <1>3, <1>4 DEF LoadsKept, Read, Shown
<1>6. CASE l.cancelled
  <2>1. view' = view
    BY <1>6 DEF ItemAnswer
  <2>2. PagesFresh'
    BY <1>1, <1>3, <2>1 DEF PagesFresh, HomeFresh, ItemFresh, Shown
  <2> QED
    BY <1>1, <1>2, <1>4, <1>5, <2>1, <2>2, AnswerKeeps
<1>7. CASE ~l.cancelled
  <2>1. PICK ok \in BOOLEAN : view' = [view EXCEPT !.loading = FALSE, !.error = @ \/ ~ok,
                                                   !.item = IF ok THEN Read(l) ELSE @]
    BY <1>7 DEF ItemAnswer
  <2>2. /\ route.page # "lookup"
        /\ route.page = "home" => Read(l) = Shown("number")
        /\ route.page # "home" /\ calm => Read(l) = Shown(route.index)
    BY <1>1, <1>3, <1>7 DEF LoadsKept, Live
  <2>3. Read(l) \in Seen
    BY <1>2, ReadType
  <2> HIDE DEF l
  <2>4. /\ view' \in View /\ view'.meta = view.meta
        /\ view'.item = (IF ok THEN Read(l) ELSE view.item)
        /\ (~ok => view'.error)
    BY <1>2, <2>1, <2>3 DEF View
  <2>5. PagesFresh'
    <3>1. CASE route.page = "home"
      BY <1>1, <1>3, <2>2, <2>4, <3>1 DEF PagesFresh, HomeFresh, ItemFresh, Shown
    <3>2. CASE route.page # "home"
      BY <1>1, <1>3, <2>2, <2>4, <3>2 DEF PagesFresh, HomeFresh, ItemFresh, Shown
    <3> QED
      BY <3>1, <3>2
  <2> QED
    BY <1>1, <1>2, <1>4, <1>5, <2>4, <2>5, AnswerKeeps
<1> QED
  BY <1>6, <1>7

\* The lookup page goes on; whoever left it is brought back to where it goes.
LEMMA ProbeAnswerKeeps ==
  ASSUME ExplorerInv, NEW s \in Slot, ProbeAnswer(s)
  PROVE  ExplorerInv'
<1> DEFINE l == loads[s]
           rest == [loads EXCEPT ![s] = NoLoad]
<1>1. l.at = "probe" /\ UNCHANGED <<refsVars, open, build, settings, storage, resolves, actions>>
  BY DEF ProbeAnswer
<1>2. /\ TypeOK /\ TabTypeOK /\ loads \in [Slot -> LoadState] /\ route \in Locations
      /\ view \in View /\ calm \in BOOLEAN /\ l \in LoadState
  BY Types DEF ExplorerInv, TypeOK, TabTypeOK, View
<1>3. LoadsKept /\ PagesFresh
  BY DEF ExplorerInv
<1>4. rest \in [Slot -> LoadState] /\ \A t \in Slot : Alive(rest[t]) => rest[t] = loads[t]
  BY <1>2, NoLoadType DEF Alive
<1>5. l.route \in Locations
  BY <1>2, ReadType
<1>6. \/ \E page \in {"block", "tx"} :
           LET r == At(page, IF page = "block" THEN "hash" ELSE "tx",
                       IF l.cancelled THEN l.route.key ELSE route.key)
           IN  IF r = route THEN loads' = rest /\ UNCHANGED <<route, view, calm>> ELSE Go(r, rest)
      \/ /\ loads' = rest /\ UNCHANGED <<route, calm>>
         /\ view' = IF l.cancelled THEN view ELSE [view EXCEPT !.error = TRUE]
  BY DEF ProbeAnswer
<1> HIDE DEF rest, l
<1>7. CASE loads' = rest /\ UNCHANGED <<route, calm>> /\ view' \in {view, [view EXCEPT !.error = TRUE]}
  <2>1. \A t \in Slot : Live(t)' => loads'[t] = loads[t] /\ Live(t)
    BY <1>4, <1>7 DEF Live, Alive
  <2>2. LoadsKept'
    BY <1>1, <1>3, <1>7, <2>1 DEF LoadsKept, Read, Shown
  <2>3. /\ view' \in View /\ view'.meta = view.meta /\ view'.item = view.item
        /\ view'.loading = view.loading /\ (view.error => view'.error)
    BY <1>2, <1>7 DEF View
  <2>4. PagesFresh'
    BY <1>1, <1>3, <1>7, <2>3 DEF PagesFresh, HomeFresh, ItemFresh, Shown
  <2> QED
    BY <1>1, <1>2, <1>4, <1>7, <2>2, <2>3, <2>4, AnswerKeeps
<1>8. CASE \E r \in Locations : Go(r, rest)
  <2>1. PICK r \in Locations : Go(r, rest)
    BY <1>8
  <2>2. /\ route' = r /\ loads' \in [Slot -> LoadState] /\ view' \in View /\ calm' \in BOOLEAN
        /\ LoadsKept' /\ PagesFresh'
    BY <1>1, <1>2, <1>3, <1>4, <2>1, GoFresh
  <2> QED
    BY <1>1, <2>2, AnswerKeeps
<1>9. \A page \in {"block", "tx"} :
        At(page, IF page = "block" THEN "hash" ELSE "tx", IF l.cancelled THEN l.route.key ELSE route.key)
          \in Locations
  BY <1>2, <1>5 DEF At, Locations
<1> QED
  BY <1>6, <1>7, <1>8, <1>9

LEMMA InitExplorerInv == Init => ExplorerInv
<1> SUFFICES ASSUME Init PROVE ExplorerInv
  OBVIOUS
<1>1. RefsTypeOK
  BY Refs DEF Init, RefsInit, RefsTypeOK, NoRef, LatestRefs
<1>2. SavesKept
  BY Refs DEF Init, RefsInit, SavesKept, Saving, Writing
<1>3. Whole(settings)
  BY Refs, DefaultType DEF Init
<1>4. TabTypeOK
  <2>1. NoRoute \in Locations
    BY DEF NoRoute, At, Locations
  <2>2. /\ resolves \in [Slot -> LookupState] /\ loads \in [Slot -> LoadState] /\ view \in View
    BY NoLookupType, NoLoadType, NewViewType DEF Init
  <2>3. DOMAIN storage = {} /\ build \in LatestRefs
    BY Refs DEF Init
  <2>4. open \in BOOLEAN /\ calm \in BOOLEAN /\ actions \in 0..MaxActions /\ route \in Locations
    <3>1. open = FALSE /\ calm = TRUE /\ actions = 0 /\ route = NoRoute
      BY DEF Init
    <3>2. 0 \in 0..MaxActions
      OBVIOUS
    <3> QED
      BY <2>1, <3>1, <3>2
  <2>5. DOMAIN settings = SavedKeys /\ \A k \in SavedKeys : settings[k] \in Saved(k)
    BY <1>3 DEF Whole
  <2> QED
    BY <2>2, <2>3, <2>4, <2>5 DEF TabTypeOK, View
<1>5. LookupsKept
  BY DEF Init, LookupsKept, NoLookup
<1>6. LoadsKept
  BY NoLoadType DEF Init, LoadsKept, Live
<1>7. PotTogether /\ PagesFresh
  BY DEF Init, PotTogether, PagesFresh, HomeFresh, ItemFresh, NoRoute, At
<1> QED
  BY <1>1, <1>2, <1>4, <1>5, <1>6, <1>7 DEF ExplorerInv, TypeOK

LEMMA ExplorerInvKept == ExplorerInv /\ [Next]_vars => ExplorerInv'
<1> SUFFICES ASSUME ExplorerInv, [Next]_vars PROVE ExplorerInv'
  OBVIOUS
<1>1. CASE CommandNext /\ UNCHANGED tab
  BY <1>1, CommandStep
<1>2. CASE OpenTab
  BY <1>2, OpenTabKeeps
<1>3. CASE UserNext
  BY <1>3, ReloadKeeps, NavigateKeeps, SubmitKeeps, HydrateKeeps DEF UserNext
<1>4. CASE Announce
  BY <1>4, AnnounceKeeps
<1>5. CASE AnswerNext
  BY <1>5, LookupFailsKeeps, FeedAnswerKeeps, EnvelopeAnswerKeeps, MetaAnswerKeeps, ItemAnswerKeeps,
     ProbeAnswerKeeps DEF AnswerNext
<1>6. CASE UNCHANGED vars
  <2>1. /\ UNCHANGED <<refs, feed, made, command, begun, last, smooth>>
        /\ UNCHANGED tab
    BY <1>6 DEF vars, refsVars
  <2>2. TypeOK' /\ SavesKept'
    <3>1. RefsTypeOK' /\ SavesKept'
      BY <2>1 DEF ExplorerInv, TypeOK, RefsTypeOK, SavesKept, Saving, Writing
    <3>2. TabTypeOK'
      BY <2>1 DEF ExplorerInv, TypeOK, tab, TabTypeOK
    <3> QED
      BY <3>1, <3>2 DEF TypeOK
  <2>3. LookupsKept' /\ LoadsKept' /\ PotTogether' /\ PagesFresh'
    BY <2>1 DEF ExplorerInv, tab, LookupsKept, LoadsKept, Live, Read, Shown, PotTogether, PagesFresh,
                HomeFresh, ItemFresh
  <2> QED
    BY <2>2, <2>3 DEF ExplorerInv
<1> QED
  BY <1>1, <1>2, <1>3, <1>4, <1>5, <1>6 DEF Next

-----------------------------------------------------------------------------
(* The theorems.                                                           *)

\* ExplorerInv holds throughout.
THEOREM ExplorerInvariant == Spec => []ExplorerInv
BY InitExplorerInv, ExplorerInvKept, PTL DEF Spec

\* However many commands run at once, in whatever order they begin, publish and
\* end: while no two of their saves overlapped and none was cut short, the file
\* holds under every key what was saved there last (refs-state.ts:31-40).
THEOREM RefsAreKept == Spec => []RefsKept
<1>1. ExplorerInv => RefsKept
  BY DEF ExplorerInv, SavesKept, RefsKept
<1> QED
  BY <1>1, ExplorerInvariant, PTL

\* Whichever lookups and envelopes land, in whatever order, the references of the
\* trie's indexes are those of one upload, across reloads (settings.svelte.ts:136-188).
THEOREM PotStaysTogether == Spec => []PotTogether
<1>1. ExplorerInv => PotTogether
  BY DEF ExplorerInv
<1> QED
  BY <1>1, ExplorerInvariant, PTL

\* No page shows what an answer for earlier settings, or for an earlier page,
\* brought: always on the home page, and on the others unless a load began before
\* the one before it ended (the $effects of routes/).  Settings, lookups, requests
\* and pages are of their types.
THEOREM PagesStayFresh == Spec => []PagesSound
<1>1. ExplorerInv => PagesSound
  BY DEF ExplorerInv, PagesSound
<1> QED
  BY <1>1, ExplorerInvariant, PTL

-----------------------------------------------------------------------------
(***************************************************************************)
(* The feed.                                                               *)
(***************************************************************************)

(* Induction, as a statement about sets, from the order of the naturals.   *)

LEMMA LeastIs ==
  ASSUME NEW S, S \subseteq Nat, S # {}
  PROVE  \E n \in S : \A m \in S : n <= m
<1> DEFINE R == OpToRel(<, Nat)
<1>1. IsWellFoundedOn(R, Nat)
  BY NatLessThanWellFounded
<1>2. \A x, y \in Nat : x < y => <<x, y>> \in R
  BY DEF OpToRel
<1> HIDE DEF R
<1>3. PICK n \in S : \A m \in S : ~ (<<m, n>> \in R)
  BY <1>1, WFMin
<1>4. \A m \in S : n <= m
  <2> TAKE m \in S
  <2>1. m \in Nat /\ n \in Nat /\ ~ (m < n)
    BY <1>2, <1>3
  <2> QED
    BY <2>1
<1> QED
  BY <1>4

LEMMA AllNats ==
  ASSUME NEW S, 0 \in S, \A n \in Nat : n \in S => n + 1 \in S
  PROVE  Nat \subseteq S
<1> SUFFICES ASSUME Nat \ S # {} PROVE FALSE
  OBVIOUS
<1>1. PICK n \in Nat \ S : \A m \in Nat \ S : n <= m
  BY LeastIs
<1>2. n # 0 /\ n - 1 \in Nat
  BY <1>1
<1>3. n - 1 \in S
  BY <1>1, <1>2
<1> QED
  BY <1>1, <1>2, <1>3

(* Powers of two: the recursive function exists, and is what it says.      *)

\* The first n powers.
Doubles(g, n) == g = [k \in 0..n |-> IF k = 0 THEN 1 ELSE 2 * g[k - 1]]

LEMMA DoublesUpTo == \A n \in Nat : \E g : Doubles(g, n) /\ \A k \in 0..n : g[k] \in Nat
<1> DEFINE S == {n \in Nat : \E g : Doubles(g, n) /\ \A k \in 0..n : g[k] \in Nat}
<1>1. 0 \in S
  <2> DEFINE g == [k \in 0..0 |-> 1]
  <2>1. Doubles(g, 0) /\ \A k \in 0..0 : g[k] \in Nat
    BY DEF Doubles
  <2> QED BY <2>1
<1>2. ASSUME NEW n \in Nat, n \in S PROVE n + 1 \in S
  <2>1. PICK g : Doubles(g, n) /\ \A k \in 0..n : g[k] \in Nat
    BY <1>2
  <2> DEFINE h == [k \in 0..(n + 1) |-> IF k = n + 1 THEN 2 * g[n] ELSE g[k]]
  <2>2. \A k \in 0..n : g[k] = IF k = 0 THEN 1 ELSE 2 * g[k - 1]
    BY <2>1 DEF Doubles
  <2>3. \A k \in 0..(n + 1) : h[k] = IF k = 0 THEN 1 ELSE 2 * h[k - 1]
    BY <2>2
  <2>4. Doubles(h, n + 1)
    BY <2>3 DEF Doubles
  <2>5. \A k \in 0..(n + 1) : h[k] \in Nat
    BY <2>1
  <2> QED BY <2>4, <2>5
<1> HIDE DEF S
<1>3. Nat \subseteq S
  BY <1>1, <1>2, AllNats
<1> QED BY <1>3 DEF S

LEMMA DoublesAgree ==
  ASSUME NEW g, NEW h, NEW m \in Nat, NEW n \in Nat, Doubles(g, m), Doubles(h, n), m <= n
  PROVE  \A k \in 0..m : g[k] = h[k]
<1> DEFINE S == {k \in Nat : k <= m => g[k] = h[k]}
<1>1. 0 \in S
  BY DEF Doubles
<1>2. ASSUME NEW k \in Nat, k \in S PROVE k + 1 \in S
  <2> SUFFICES ASSUME k + 1 <= m PROVE g[k + 1] = h[k + 1]
    OBVIOUS
  <2>1. g[k + 1] = 2 * g[k] /\ h[k + 1] = 2 * h[k]
    BY DEF Doubles
  <2> QED BY <1>2, <2>1
<1> HIDE DEF S
<1>3. Nat \subseteq S
  BY <1>1, <1>2, AllNats
<1> QED BY <1>3 DEF S

LEMMA ShiftedIs == Shifted = [l \in Nat |-> IF l = 0 THEN 1 ELSE 2 * Shifted[l - 1]]
<1> DEFINE G(n) == CHOOSE g : Doubles(g, n)
           F == [n \in Nat |-> G(n)[n]]
<1>1. \A n \in Nat : Doubles(G(n), n)
  BY DoublesUpTo, Zenon
<1> HIDE DEF G
<1>2. \A n \in Nat : F[n] = IF n = 0 THEN 1 ELSE 2 * F[n - 1]
  <2> TAKE n \in Nat
  <2>0. Doubles(G(n), n)
    BY <1>1
  <2>1. CASE n = 0
    BY <2>0, <2>1 DEF Doubles
  <2>2. CASE n # 0
    <3>1. n - 1 \in Nat
      BY <2>2
    <3>2. G(n)[n] = 2 * G(n)[n - 1]
      BY <2>0, <2>2 DEF Doubles
    <3>3. G(n)[n - 1] = G(n - 1)[n - 1]
      BY <1>1, <3>1, DoublesAgree
    <3> QED BY <2>2, <3>1, <3>2, <3>3
  <2> QED BY <2>1, <2>2
<1>3. F = [n \in Nat |-> IF n = 0 THEN 1 ELSE 2 * F[n - 1]]
  <2> DEFINE H == [n \in Nat |-> IF n = 0 THEN 1 ELSE 2 * F[n - 1]]
  <2>1. \A n \in Nat : F[n] = H[n]
    BY <1>2
  <2> QED BY <2>1
<1> HIDE DEF F
<1>4. \E f : f = [n \in Nat |-> IF n = 0 THEN 1 ELSE 2 * f[n - 1]]
  BY <1>3
<1> QED BY <1>4, Zenon DEF Shifted

LEMMA ShiftedStep ==
  /\ Shifted[0] = 1
  /\ \A l \in Nat : Shifted[l + 1] = 2 * Shifted[l]
<1>1. \A l \in Nat : Shifted[l] = IF l = 0 THEN 1 ELSE 2 * Shifted[l - 1]
  <2> DEFINE H == [l \in Nat |-> IF l = 0 THEN 1 ELSE 2 * Shifted[l - 1]]
  <2>1. Shifted = H
    BY ShiftedIs
  <2>2. \A l \in Nat : H[l] = IF l = 0 THEN 1 ELSE 2 * Shifted[l - 1]
    OBVIOUS
  <2> QED
    BY <2>1, <2>2
<1>2. \A l \in Nat : Shifted[l + 1] = IF l + 1 = 0 THEN 1 ELSE 2 * Shifted[(l + 1) - 1]
  BY <1>1
<1> QED
  BY <1>1, <1>2

LEMMA ShiftedType == \A l \in Nat : Shifted[l] \in Nat \ {0}
<1> DEFINE S == {l \in Nat : Shifted[l] \in Nat \ {0}}
<1>1. 0 \in S
  BY ShiftedStep
<1>2. ASSUME NEW n \in Nat, n \in S PROVE n + 1 \in S
  BY <1>2, ShiftedStep
<1> HIDE DEF S
<1>3. Nat \subseteq S
  BY <1>1, <1>2, AllNats
<1> QED
  BY <1>3 DEF S

LEMMA ShiftedSum ==
  ASSUME NEW k \in Nat, NEW l \in Nat
  PROVE  Shifted[k + l] = Shifted[k] * Shifted[l]
<1> DEFINE S == {n \in Nat : Shifted[k + n] = Shifted[k] * Shifted[n]}
<1>1. 0 \in S
  BY ShiftedStep, ShiftedType
<1>2. ASSUME NEW n \in Nat, n \in S PROVE n + 1 \in S
  <2>1. Shifted[k + (n + 1)] = 2 * Shifted[k + n]
    <3>1. k + n \in Nat /\ k + (n + 1) = (k + n) + 1
      OBVIOUS
    <3> QED
      BY <3>1, ShiftedStep
  <2>2. Shifted[n + 1] = 2 * Shifted[n] /\ Shifted[k + n] = Shifted[k] * Shifted[n]
    BY <1>2, ShiftedStep
  <2>3. Shifted[k] \in Nat /\ Shifted[n] \in Nat
    BY ShiftedType
  <2>4. 2 * (Shifted[k] * Shifted[n]) = Shifted[k] * (2 * Shifted[n])
    BY <2>3
  <2> QED
    BY <2>1, <2>2, <2>4
<1> HIDE DEF S
<1>3. Nat \subseteq S
  BY <1>1, <1>2, AllNats
<1> QED
  BY <1>3 DEF S

(* Epochs are aligned intervals.                                           *)

LEMMA DivIs ==
  ASSUME NEW i \in Nat, NEW b \in Nat \ {0}, NEW a \in Nat, i * b <= a, a < i * b + b
  PROVE  a \div b = i
OBVIOUS

LEMMA DivOf ==
  ASSUME NEW a \in Nat, NEW b \in Nat \ {0}
  PROVE  a \div b \in Nat /\ (a \div b) * b <= a /\ a < (a \div b) * b + b
OBVIOUS

LEMMA TwiceIs ==
  ASSUME NEW i \in Nat, NEW b \in Nat
  PROVE  (2 * i) * b = i * (2 * b) /\ (2 * i + 1) * b = i * (2 * b) + b
OBVIOUS

LEMMA Consts == MaxLevel \in Nat /\ MaxLevel > 0 /\ MaxTime \in Nat /\ MaxTime > 0 /\ MaxTime < Shifted[MaxLevel] /\ MaxUpdates \in Nat
<1>1. Shifted[MaxLevel] \in Nat
  BY FeedAssumption, ShiftedType
<1> QED
  BY <1>1, FeedAssumption

\* An epoch is the i-th one of its level.
LEMMA EpochIs ==
  ASSUME NEW e
  PROVE  e \in Epoch <=>
           \E l \in 0..MaxLevel : \E i \in 0..(Shifted[MaxLevel - l] - 1) : e = [start |-> i * Shifted[l], level |-> l]
BY DEF Epoch

LEMMA EpochType ==
  ASSUME NEW e \in Epoch
  PROVE  /\ e.level \in 0..MaxLevel /\ e.start \in Nat /\ Length(e) \in Nat \ {0}
         /\ e = [start |-> e.start, level |-> e.level]
         /\ \E i \in 0..(Shifted[MaxLevel - e.level] - 1) : e.start = i * Length(e)
<1>0. PICK l \in 0..MaxLevel : \E i \in 0..(Shifted[MaxLevel - l] - 1) : e = [start |-> i * Shifted[l], level |-> l]
  BY EpochIs
<1>1. PICK i \in 0..(Shifted[MaxLevel - l] - 1) : e = [start |-> i * Shifted[l], level |-> l]
  BY <1>0
<1>2. Shifted[l] \in Nat \ {0}
  BY ShiftedType, Consts
<1>3. i \in Nat
  BY ShiftedType, Consts
<1>4. i * Shifted[l] \in Nat
  BY <1>2, <1>3
<1> QED
  BY <1>1, <1>2, <1>4 DEF Length

LEMMA EpochFrom ==
  ASSUME NEW l \in 0..MaxLevel, NEW i \in Nat, i < Shifted[MaxLevel - l]
  PROVE  [start |-> i * Shifted[l], level |-> l] \in Epoch
<1>1. Shifted[MaxLevel - l] \in Nat
  BY ShiftedType, Consts
<1>2. i \in 0..(Shifted[MaxLevel - l] - 1)
  BY <1>1
<1> QED
  BY <1>2, EpochIs

\* In an epoch or the epoch itself; above an epoch; the left sibling.
Within(e, c) == e.level <= c.level /\ Covers(c, e.start)
Above(p, e)  == p.level > e.level /\ Covers(p, e.start)
LeftOf(e)    == [start |-> e.start - Length(e), level |-> e.level]

\* The length of an epoch is a multiple of that of a lower one.
LEMMA Multiple ==
  ASSUME NEW e \in Epoch, NEW p \in Epoch, e.level <= p.level
  PROVE  \E k \in Nat \ {0} : Length(p) = k * Length(e)
<1>1. p.level - e.level \in Nat /\ e.level \in Nat /\ (p.level - e.level) + e.level = p.level
  BY EpochType, Consts
<1>2. Shifted[p.level] = Shifted[p.level - e.level] * Shifted[e.level]
  BY <1>1, ShiftedSum
<1>3. Shifted[p.level - e.level] \in Nat \ {0}
  BY <1>1, ShiftedType
<1> QED
  BY <1>2, <1>3 DEF Length

\* Of two epochs, one is in the other or they have no second in common.
LEMMA Meets ==
  ASSUME NEW e \in Epoch, NEW p \in Epoch, NEW t \in Nat, e.level <= p.level, Covers(e, t), Covers(p, t)
  PROVE  Covers(p, e.start)
<1>1. PICK k \in Nat \ {0} : Length(p) = k * Length(e)
  BY Multiple
<1>2. PICK i \in Nat : e.start = i * Length(e)
  BY EpochType
<1>3. PICK j \in Nat : p.start = j * Length(p)
  BY EpochType
<1> DEFINE n == Length(e)
           m == j * k
<1>4. n \in Nat /\ n > 0 /\ m \in Nat /\ e.start \in Nat /\ p.start \in Nat /\ Length(p) \in Nat
  BY EpochType
<1>5. p.start = m * n
  BY <1>1, <1>3, <1>4
<1>6. e.start <= t /\ t < e.start + n /\ p.start <= t /\ t < p.start + Length(p)
  BY DEF Covers
<1>7. m * n < (i + 1) * n
  BY <1>2, <1>4, <1>5, <1>6
<1> HIDE DEF n, m
<1>8. m <= i
  BY <1>4, <1>7
<1>9. m * n <= i * n
  BY <1>4, <1>8
<1> QED
  BY <1>2, <1>4, <1>5, <1>6, <1>9 DEF n, Covers

LEMMA Nested ==
  ASSUME NEW e \in Epoch, NEW p \in Epoch, e.level <= p.level, Covers(p, e.start)
  PROVE  e.start + Length(e) <= p.start + Length(p)
<1>1. PICK k \in Nat \ {0} : Length(p) = k * Length(e)
  BY Multiple
<1>2. PICK i \in Nat : e.start = i * Length(e)
  BY EpochType
<1>3. PICK j \in Nat : p.start = j * Length(p)
  BY EpochType
<1> DEFINE n == Length(e)
           m == (j + 1) * k
<1>4. n \in Nat /\ n > 0 /\ m \in Nat /\ e.start \in Nat /\ p.start \in Nat /\ Length(p) \in Nat
  BY EpochType
<1>5. p.start + Length(p) = m * n
  BY <1>1, <1>3, <1>4
<1>6. i * n < m * n
  BY <1>2, <1>4, <1>5 DEF Covers
<1> HIDE DEF n, m
<1>7. i + 1 <= m
  BY <1>4, <1>6
<1>8. (i + 1) * n <= m * n
  BY <1>4, <1>7
<1> QED
  BY <1>2, <1>4, <1>5, <1>8 DEF n

\* Covers(p, e.start) is transitive, and every second of e is one of p.
LEMMA InsideOf ==
  ASSUME NEW e \in Epoch, NEW p \in Epoch, NEW t \in Nat, e.level <= p.level, Covers(p, e.start), Covers(e, t)
  PROVE  Covers(p, t)
<1>1. e.start + Length(e) <= p.start + Length(p)
  BY Nested
<1>2. {e.start, p.start, Length(e), Length(p)} \subseteq Nat
  BY EpochType
<1> QED
  BY <1>1, <1>2 DEF Covers

LEMMA CoversStart ==
  ASSUME NEW e \in Epoch
  PROVE  Covers(e, e.start)
<1>1. e.start \in Nat /\ Length(e) \in Nat \ {0}
  BY EpochType
<1> QED
  BY <1>1 DEF Covers

\* Two epochs of a level that meet are one.
LEMMA SameEpoch ==
  ASSUME NEW e \in Epoch, NEW p \in Epoch, e.level = p.level, Covers(p, e.start)
  PROVE  e = p
<1>1. Covers(e, p.start)
  BY Meets, CoversStart, EpochType
<1>2. {e.start, p.start, Length(e), Length(p)} \subseteq Nat /\ e.level \in Nat /\ p.level \in Nat
  BY EpochType
<1>3. e.start = p.start
  BY <1>1, <1>2 DEF Covers
<1>4. e = [start |-> e.start, level |-> e.level] /\ p = [start |-> p.start, level |-> p.level]
  BY EpochType
<1> QED
  BY <1>3, <1>4

LEMMA TopIs ==
  /\ Top \in Epoch /\ Top.level = MaxLevel /\ Top.start = 0
  /\ \A t \in 0..MaxTime : Covers(Top, t)
  /\ \A e \in Epoch : Covers(Top, e.start) /\ (e.level = MaxLevel => e = Top)
<1>1. Shifted[MaxLevel - MaxLevel] = 1
  BY Consts, ShiftedStep
<1>2. Shifted[MaxLevel] \in Nat \ {0}
  BY Consts, ShiftedType
<1>3. [start |-> 0 * Shifted[MaxLevel], level |-> MaxLevel] \in Epoch
  BY <1>1, Consts, EpochFrom
<1>4. Top \in Epoch /\ Top.level = MaxLevel /\ Top.start = 0
  BY <1>2, <1>3 DEF Top
<1>5. \A t \in 0..MaxTime : Covers(Top, t)
  BY <1>2, <1>4, Consts DEF Covers, Length
<1>6. ASSUME NEW e \in Epoch PROVE Covers(Top, e.start)
  <2>1. e.level \in 0..MaxLevel /\ e.start \in Nat
    BY EpochType
  <2>2. PICK i \in 0..(Shifted[MaxLevel - e.level] - 1) : e.start = i * Length(e)
    BY EpochType
  <2>3. MaxLevel - e.level \in Nat /\ e.level \in Nat /\ (MaxLevel - e.level) + e.level = MaxLevel
    BY <2>1, Consts
  <2>4. Shifted[MaxLevel] = Shifted[MaxLevel - e.level] * Shifted[e.level]
    BY <2>3, ShiftedSum
  <2> DEFINE n == Shifted[e.level]
             m == Shifted[MaxLevel - e.level]
  <2>5. n \in Nat \ {0} /\ m \in Nat \ {0}
    BY <2>3, ShiftedType
  <2>6. i \in Nat /\ i < m /\ e.start = i * n /\ Shifted[MaxLevel] = m * n
    BY <2>2, <2>4, <2>5 DEF Length
  <2> HIDE DEF n, m
  <2>7. i * n < m * n
    BY <2>5, <2>6
  <2> QED
    BY <1>2, <1>4, <2>1, <2>6, <2>7 DEF Covers, Length
<1>7. ASSUME NEW e \in Epoch, e.level = MaxLevel PROVE e = Top
  BY <1>4, <1>6, <1>7, SameEpoch
<1> QED
  BY <1>4, <1>5, <1>6, <1>7

\* Half of an epoch.
LEMMA HalfIs ==
  ASSUME NEW e \in Epoch, e.level > 0
  PROVE  /\ e.level - 1 \in 0..MaxLevel /\ Shifted[e.level - 1] \in Nat \ {0}
         /\ Length(e) = 2 * Shifted[e.level - 1]
<1>1. e.level \in Nat /\ e.level \in 0..MaxLevel
  BY EpochType, Consts
<1>2. e.level - 1 \in Nat /\ e.level - 1 \in 0..MaxLevel /\ (e.level - 1) + 1 = e.level
  BY <1>1, Consts
<1>3. Shifted[(e.level - 1) + 1] = 2 * Shifted[e.level - 1] /\ Shifted[e.level - 1] \in Nat \ {0}
  BY <1>2, ShiftedStep, ShiftedType
<1> QED
  BY <1>2, <1>3 DEF Length

\* Both halves of an epoch are epochs; ChildAt() is the one that the second is in.
LEMMA Halves ==
  ASSUME NEW e \in Epoch, e.level > 0, NEW h, h = Shifted[e.level - 1]
  PROVE  /\ [start |-> e.start, level |-> e.level - 1] \in Epoch
         /\ [start |-> e.start + h, level |-> e.level - 1] \in Epoch
         /\ IsLeft([start |-> e.start, level |-> e.level - 1])
         /\ ~IsLeft([start |-> e.start + h, level |-> e.level - 1])
<1>1. PICK i \in 0..(Shifted[MaxLevel - e.level] - 1) : e.start = i * Length(e)
  BY EpochType
<1>2. e.level - 1 \in 0..MaxLevel /\ h \in Nat /\ h > 0 /\ Length(e) = 2 * h /\ e.level \in 0..MaxLevel
  BY HalfIs, EpochType
<1>3. MaxLevel - e.level \in Nat /\ MaxLevel - (e.level - 1) = (MaxLevel - e.level) + 1
  BY <1>2, Consts
<1>4. Shifted[MaxLevel - (e.level - 1)] = 2 * Shifted[MaxLevel - e.level] /\ Shifted[MaxLevel - e.level] \in Nat
  BY <1>3, ShiftedStep, ShiftedType
<1> DEFINE j == 2 * i
           k == 2 * i + 1
<1>5. j \in Nat /\ k \in Nat /\ j < Shifted[MaxLevel - (e.level - 1)] /\ k < Shifted[MaxLevel - (e.level - 1)]
  BY <1>4
<1>6. j * h = e.start /\ k * h = e.start + h /\ e.start \in Nat
  <2>1. i \in Nat /\ e.start = i * (2 * h) /\ e.start \in Nat
    BY <1>1, <1>2, <1>5, EpochType
  <2> QED
    BY <1>2, <2>1, TwiceIs
<1>7. j % 2 = 0 /\ k % 2 = 1
  BY <1>5
<1> HIDE DEF j, k
<1>8. [start |-> j * h, level |-> e.level - 1] \in Epoch /\ [start |-> k * h, level |-> e.level - 1] \in Epoch
  BY <1>2, <1>5, EpochFrom
<1>9. e.start \div h = j /\ (e.start + h) \div h = k
  <2>1. j * h <= e.start /\ e.start < j * h + h /\ k * h <= e.start + h /\ e.start + h < k * h + h
    BY <1>2, <1>6
  <2>2. e.start + h \in Nat /\ h \in Nat \ {0}
    BY <1>2, <1>6
  <2>3. e.start \div h = j
    BY <1>5, <1>6, <2>1, <2>2, DivIs, Zenon
  <2>4. (e.start + h) \div h = k
    BY <1>5, <2>1, <2>2, DivIs, Zenon
  <2> QED
    BY <2>3, <2>4
<1> QED
  BY <1>6, <1>7, <1>8, <1>9 DEF IsLeft, Length

LEMMA ChildIs ==
  ASSUME NEW e \in Epoch, e.level > 0, NEW t \in Nat, Covers(e, t), NEW h, h = Shifted[e.level - 1]
  PROVE  ChildAt(e, t) = [start |-> IF t < e.start + h THEN e.start ELSE e.start + h, level |-> e.level - 1]
<1>1. PICK i \in Nat : e.start = i * Length(e)
  BY EpochType
<1>2. h \in Nat /\ h > 0 /\ Length(e) = 2 * h
  BY HalfIs
<1> DEFINE j == 2 * i
           k == 2 * i + 1
<1>3. j \in Nat /\ k \in Nat /\ e.start = j * h /\ e.start + h = k * h /\ e.start \in Nat
  <2>1. e.start = i * (2 * h) /\ e.start \in Nat
    BY <1>1, <1>2, EpochType
  <2> QED
    BY <1>2, <2>1, TwiceIs
<1>4. j % 2 = 0 /\ k % 2 = 1
  BY <1>3
<1> HIDE DEF j, k
<1>5. e.start <= t /\ t < e.start + 2 * h
  BY <1>2 DEF Covers
<1>6. CASE t < e.start + h
  <2>1. j * h <= t /\ t < j * h + h /\ h \in Nat \ {0}
    BY <1>2, <1>3, <1>5, <1>6
  <2>2. t \div h = j
    BY <1>3, <2>1, DivIs, Zenon
  <2> QED
    BY <1>4, <1>6, <2>2 DEF ChildAt
<1>7. CASE ~(t < e.start + h)
  <2>1. k * h <= t /\ t < k * h + h /\ h \in Nat \ {0}
    BY <1>2, <1>3, <1>5, <1>7
  <2>2. t \div h = k
    BY <1>3, <2>1, DivIs, Zenon
  <2> QED
    BY <1>4, <1>7, <2>2 DEF ChildAt
<1> QED
  BY <1>6, <1>7

LEMMA ChildType ==
  ASSUME NEW e \in Epoch, e.level > 0, NEW t \in Nat, Covers(e, t)
  PROVE  /\ ChildAt(e, t) \in Epoch /\ ChildAt(e, t).level = e.level - 1
         /\ Covers(ChildAt(e, t), t) /\ Covers(e, ChildAt(e, t).start)
<1> DEFINE h == Shifted[e.level - 1]
           c == ChildAt(e, t)
<1>1. h \in Nat /\ h > 0 /\ Length(e) = 2 * h /\ e.start \in Nat /\ e.level \in Nat
  BY HalfIs, EpochType
<1>2. c = [start |-> IF t < e.start + h THEN e.start ELSE e.start + h, level |-> e.level - 1]
  BY ChildIs
<1>3. c \in Epoch
  BY <1>2, Halves
<1>4. Length(c) = h /\ c.level = e.level - 1
  BY <1>2 DEF Length
<1>5. e.start <= t /\ t < e.start + 2 * h
  BY <1>1 DEF Covers
<1> HIDE DEF h, c
<1>6. Covers(c, t) /\ Covers(e, c.start)
  BY <1>1, <1>2, <1>4, <1>5 DEF Covers
<1> QED
  BY <1>3, <1>4, <1>6 DEF c

\* What is below an epoch is in one of its halves, and what is not later than t
\* is in the one of t or in its left sibling.
LEMMA BelowIs ==
  ASSUME NEW p \in Epoch, p.level > 0, NEW t \in Nat, Covers(p, t),
         NEW e \in Epoch, e.level < p.level, Covers(p, e.start), NEW u \in Nat, Covers(e, u), u <= t
  PROVE  \/ Within(e, ChildAt(p, t))
         \/ ~IsLeft(ChildAt(p, t)) /\ Within(e, LeftOf(ChildAt(p, t)))
<1> DEFINE h == Shifted[p.level - 1]
           c == ChildAt(p, t)
           left == [start |-> p.start, level |-> p.level - 1]
           right == [start |-> p.start + h, level |-> p.level - 1]
<1>1. h \in Nat /\ h > 0 /\ Length(p) = 2 * h /\ p.start \in Nat /\ p.level \in Nat /\ e.level \in Nat
  BY HalfIs, EpochType
<1>2. left \in Epoch /\ right \in Epoch /\ ~IsLeft(right)
  BY Halves
<1>3. Length(left) = h /\ Length(right) = h
  BY DEF Length
<1>4. c = IF t < p.start + h THEN left ELSE right
  BY ChildIs
<1>5. Covers(p, u)
  BY InsideOf, <1>1
<1>6. e.level <= p.level - 1
  BY <1>1
<1>7. LeftOf(right) = left
  <2>1. (p.start + h) - h = p.start
    BY <1>1
  <2> QED
    BY <1>3, <2>1 DEF LeftOf
<1>8. CASE u < p.start + h
  <2>1. Covers(left, u)
    BY <1>1, <1>3, <1>5, <1>8 DEF Covers
  <2>2. Covers(left, e.start)
    BY <1>2, <1>6, <2>1, Meets
  <2>3. Within(e, left)
    BY <1>6, <2>2 DEF Within
  <2> QED
    BY <1>2, <1>4, <1>7, <2>3
<1>9. CASE ~(u < p.start + h)
  <2>1. Covers(right, u)
    BY <1>1, <1>3, <1>5, <1>9 DEF Covers
  <2>2. Covers(right, e.start)
    BY <1>2, <1>6, <2>1, Meets
  <2>3. Within(e, right)
    BY <1>6, <2>2 DEF Within
  <2>4. c = right
    BY <1>1, <1>4, <1>9
  <2> QED
    BY <2>3, <2>4
<1> QED
  BY <1>8, <1>9

LEMMA LeftIs ==
  ASSUME NEW e \in Epoch, ~IsLeft(e)
  PROVE  /\ LeftOf(e) \in Epoch /\ LeftOf(e) = [e EXCEPT !.start = @ - Length(e)]
         /\ LeftOf(e).level = e.level /\ Length(LeftOf(e)) = Length(e) /\ LeftOf(e).start + Length(e) = e.start
         /\ e.start - 1 \in Nat /\ Covers(LeftOf(e), e.start - 1)
<1> DEFINE n == Length(e)
<1>1. n \in Nat /\ n > 0 /\ e.start \in Nat /\ e.level \in 0..MaxLevel /\ e = [start |-> e.start, level |-> e.level]
  BY EpochType
<1>2. PICK i \in 0..(Shifted[MaxLevel - e.level] - 1) : e.start = i * n
  BY EpochType
<1>3. MaxLevel - e.level \in Nat
  BY <1>1, Consts
<1>4. Shifted[MaxLevel - e.level] \in Nat
  BY <1>3, ShiftedType
<1>5. i \in Nat /\ i < Shifted[MaxLevel - e.level]
  BY <1>4
<1>6. i # 0
  <2> SUFFICES ASSUME i = 0 PROVE FALSE
    OBVIOUS
  <2>1. e.start = 0
    BY <1>1, <1>2
  <2>2. e.start \div n = 0
    BY <1>1, <2>1, DivIs
  <2> QED
    BY <2>2 DEF IsLeft
<1>7. i - 1 \in Nat /\ i - 1 < Shifted[MaxLevel - e.level]
  BY <1>4, <1>5, <1>6
<1>8. (i - 1) * n = e.start - n /\ (i - 1) * n \in Nat
  BY <1>1, <1>2, <1>5, <1>7
<1>9. [start |-> (i - 1) * Shifted[e.level], level |-> e.level] \in Epoch
  BY <1>1, <1>7, EpochFrom
<1>10. LeftOf(e) \in Epoch
  BY <1>8, <1>9 DEF LeftOf, Length
<1>11. LeftOf(e).level = e.level /\ LeftOf(e).start = e.start - n /\ Length(LeftOf(e)) = n
  BY DEF LeftOf, Length
<1>12. LeftOf(e) = [e EXCEPT !.start = @ - n]
  BY <1>1 DEF LeftOf
<1> HIDE DEF n
<1>13. Covers(LeftOf(e), e.start - 1) /\ e.start - 1 \in Nat /\ LeftOf(e).start + n = e.start
  BY <1>1, <1>8, <1>11 DEF Covers
<1> QED
  BY <1>10, <1>11, <1>12, <1>13 DEF n

LEMMA ParentIs ==
  ASSUME NEW e \in Epoch, e # Top
  PROVE  \E p \in Epoch : p.level = e.level + 1 /\ Covers(p, e.start)
<1> DEFINE n == Length(e)
<1>1. n \in Nat /\ n > 0 /\ e.start \in Nat /\ e.level \in 0..MaxLevel
  BY EpochType
<1>2. e.level # MaxLevel
  BY TopIs
<1>3. e.level + 1 \in 0..MaxLevel /\ MaxLevel - (e.level + 1) \in Nat /\ e.level \in Nat
      /\ (MaxLevel - (e.level + 1)) + 1 = MaxLevel - e.level
  BY <1>1, <1>2, Consts
<1> DEFINE m == Shifted[MaxLevel - (e.level + 1)]
<1>4. m \in Nat /\ Shifted[MaxLevel - e.level] = 2 * m /\ Shifted[e.level + 1] = 2 * n
  BY <1>3, ShiftedStep, ShiftedType DEF Length
<1>5. PICK i \in 0..(Shifted[MaxLevel - e.level] - 1) : e.start = i * n
  BY EpochType
<1> DEFINE j == i \div 2
           p == [start |-> j * Shifted[e.level + 1], level |-> e.level + 1]
<1>6. i \in Nat /\ j \in Nat /\ 2 * j <= i /\ i <= 2 * j + 1 /\ j < m
  BY <1>4, <1>5
<1>7. p \in Epoch
  BY <1>3, <1>6, EpochFrom
<1>8. p.start = j * (2 * n) /\ p.level = e.level + 1 /\ Length(p) = 2 * n
  BY <1>4 DEF Length
<1> HIDE DEF n, m, j, p
<1>9. j * (2 * n) = (2 * j) * n
  BY <1>1, <1>6
<1>10. (2 * j) * n <= i * n
  BY <1>1, <1>6
<1>11. i * n <= (2 * j + 1) * n
  BY <1>1, <1>6
<1>12. (2 * j + 1) * n = (2 * j) * n + n
  BY <1>1, <1>6
<1>13. (2 * j) * n \in Nat /\ i * n \in Nat
  BY <1>1, <1>6
<1>14. Covers(p, e.start)
  BY <1>1, <1>5, <1>8, <1>9, <1>10, <1>11, <1>12, <1>13 DEF Covers
<1> QED
  BY <1>7, <1>8, <1>14

-----------------------------------------------------------------------------
(* The invariant.                                                          *)

FeedTyped ==
  /\ FeedTypeOK
  /\ chunks \in [DOMAIN chunks -> Update]
  /\ pub \in [at : Nat, ref : Nat, epoch : Epoch, hint : Hints, doing : {"nothing", "probing", "posting", "verifying"}]
  /\ find \in [Reader -> [at : Nat, epoch : Epoch, best : Update \cup {NoUpdate}, floor : Nat,
                          doing : {"nothing", "searching", "done"}]]

\* Updates lie below older ones, in the seconds they are of.
ChunksKept ==
  /\ \A e \in DOMAIN chunks : Covers(e, chunks[e].ts) /\ chunks[e].ref <= updates /\ chunks[e].ts <= now
  /\ \A e, f \in DOMAIN chunks : chunks[e].ref < chunks[f].ref => chunks[e].ts <= chunks[f].ts
  /\ \A e \in DOMAIN chunks, p \in Epoch :
       Above(p, e) => p \in DOMAIN chunks /\ chunks[p].ref < chunks[e].ref

\* The walk of a publisher passed updates only.
WalkKept ==
  /\ pub.doing # "nothing" =>
       /\ pub.ref = updates /\ updates >= 1
       /\ \A e \in DOMAIN chunks : chunks[e].ts <= pub.at
  /\ pub.doing \in {"probing", "posting"} =>
       /\ \A e \in DOMAIN chunks : chunks[e].ref < pub.ref
       /\ Covers(pub.epoch, pub.at)
       /\ \A p \in Epoch : Above(p, pub.epoch) => p \in DOMAIN chunks
  /\ pub.doing = "probing" =>
       IF pub.hint.found
       THEN /\ pub.hint.epoch.level > 0 /\ Covers(pub.hint.epoch, pub.at)
            /\ pub.epoch = ChildAt(pub.hint.epoch, pub.at)
       ELSE pub.epoch = Top
  /\ pub.doing = "posting" => pub.epoch \notin DOMAIN chunks
  /\ pub.doing = "verifying" => pub.epoch \in DOMAIN chunks /\ chunks[pub.epoch].ref = pub.ref

\* What was reported as published is there.
CurrentKept == current # 0 => \E e \in DOMAIN chunks : chunks[e].ref = current

\* An update a search began after is where the search has yet to look.
Ahead(f, e, update) ==
  /\ update.ref = f.floor /\ update.ts <= f.at
  /\ Within(e, f.epoch) \/ (~IsLeft(f.epoch) /\ Within(e, LeftOf(f.epoch)))

\* The best of a search is above where it looks; either it is new enough or
\* the update the search began after is ahead of it.
SearchKept ==
  \A r \in Reader :
    find[r].doing = "searching" =>
      /\ Covers(find[r].epoch, find[r].at)
      /\ find[r].best = NoUpdate \/ \E p \in DOMAIN chunks : Above(p, find[r].epoch) /\ chunks[p] = find[r].best
      /\ find[r].best.ref >= find[r].floor \/ \E e \in DOMAIN chunks : Ahead(find[r], e, chunks[e])

\* Both searches rely on what is above an update: every epoch there has an
\* older one, so an epoch that is empty has nothing below it.
FeedInv == FeedTyped /\ ChunksKept /\ WalkKept /\ CurrentKept /\ SearchKept /\ ReadersFresh

-----------------------------------------------------------------------------
(* Publishers.                                                             *)

LEMMA FeedInitInv == FeedInit => FeedInv
<1> SUFFICES ASSUME FeedInit PROVE FeedInv
  OBVIOUS
<1> USE DEF FeedInit
<1>1. FeedTyped
  <2>1. NoPublication \in [at : Nat, ref : Nat, epoch : Epoch, hint : Hints, doing : {"nothing", "probing", "posting", "verifying"}]
    BY TopIs DEF NoPublication, Hints
  <2>2. NotReading \in [at : Nat, epoch : Epoch, best : Update \cup {NoUpdate}, floor : Nat, doing : {"nothing", "searching", "done"}]
    BY TopIs DEF NotReading
  <2>3. FeedTypeOK
    BY <2>1, <2>2, Consts DEF FeedTypeOK, NoPublication, NotReading
  <2> QED
    BY <2>1, <2>2, <2>3 DEF FeedTyped
<1>2. DOMAIN chunks = {}
  OBVIOUS
<1>3. ChunksKept /\ WalkKept /\ CurrentKept
  BY <1>2 DEF ChunksKept, WalkKept, CurrentKept, NoPublication
<1>4. SearchKept /\ ReadersFresh
  BY DEF SearchKept, ReadersFresh, NotReading
<1> QED
  BY <1>1, <1>3, <1>4 DEF FeedInv

\* What the invariant says of a reader stays as long as updates stay.
LEMMA ReadersFrame ==
  ASSUME SearchKept, ReadersFresh, UNCHANGED find, DOMAIN chunks \subseteq DOMAIN chunks',
         \A e \in DOMAIN chunks : chunks'[e] = chunks[e]
  PROVE  SearchKept' /\ ReadersFresh'
<1>1. SearchKept'
  <2> SUFFICES ASSUME NEW r \in Reader, find[r].doing = "searching"
               PROVE  /\ Covers(find[r].epoch, find[r].at)
                      /\ find[r].best = NoUpdate \/ \E p \in DOMAIN chunks' : Above(p, find[r].epoch) /\ chunks'[p] = find[r].best
                      /\ find[r].best.ref >= find[r].floor \/ \E e \in DOMAIN chunks' : Ahead(find[r], e, chunks'[e])
    BY DEF SearchKept
  <2>1. Covers(find[r].epoch, find[r].at)
    BY DEF SearchKept
  <2>2. find[r].best.ref >= find[r].floor \/ \E e \in DOMAIN chunks : Ahead(find[r], e, chunks[e])
    BY DEF SearchKept
  <2>3. find[r].best = NoUpdate \/ \E p \in DOMAIN chunks : Above(p, find[r].epoch) /\ chunks[p] = find[r].best
    BY DEF SearchKept
  <2> QED
    BY <2>1, <2>2, <2>3
<1> QED
  BY <1>1 DEF ReadersFresh

LEMMA FeedTick ==
  ASSUME FeedInv, Tick PROVE FeedInv'
<1> USE DEF FeedInv, Tick
<1>1. now \in Nat /\ now' = now + 1 /\ now' \in 0..MaxTime
  BY Consts DEF FeedTyped, FeedTypeOK
<1>2. FeedTyped'
  BY <1>1 DEF FeedTyped, FeedTypeOK
<1>3. ChunksKept'
  <2>1. \A e \in DOMAIN chunks : chunks[e].ts \in Nat
    BY Consts DEF FeedTyped, Update
  <2> QED
    BY <1>1, <2>1 DEF ChunksKept, Covers, Length, Above
<1>4. WalkKept' /\ CurrentKept'
  BY DEF WalkKept, CurrentKept, Covers, Length, Above, ChildAt
<1>5. SearchKept' /\ ReadersFresh'
  BY ReadersFrame
<1> QED
  BY <1>2, <1>3, <1>4, <1>5

LEMMA FeedPublish ==
  ASSUME FeedInv, Publish PROVE FeedInv'
<1> USE DEF FeedInv
<1>1. /\ pub' = [at |-> now, ref |-> updates + 1, epoch |-> Top, hint |-> NoHint, doing |-> "probing"]
      /\ updates' = updates + 1 /\ updates \in Nat /\ updates' \in 0..MaxUpdates /\ now \in 0..MaxTime /\ now \in Nat
  <2>1. updates \in 0..MaxUpdates /\ updates < MaxUpdates /\ updates' = updates + 1 /\ now \in 0..MaxTime
    BY DEF Publish, FeedTyped, FeedTypeOK
  <2>2. updates \in Nat /\ updates' \in 0..MaxUpdates /\ now \in Nat
    BY <2>1, Consts
  <2>3. pub' = [NoPublication EXCEPT !.at = now, !.ref = updates + 1, !.doing = "probing"]
    BY <2>1 DEF Publish
  <2> QED
    BY <2>1, <2>2, <2>3 DEF NoPublication
<1>2. UNCHANGED <<now, chunks, current, find>>
  BY DEF Publish
<1>3. FeedTyped'
  <2>1. pub' \in [at : Nat, ref : Nat, epoch : Epoch, hint : Hints, doing : {"nothing", "probing", "posting", "verifying"}]
    BY <1>1, TopIs DEF Hints
  <2>2. current \in 0..updates'
    BY <1>1 DEF FeedTyped, FeedTypeOK
  <2>3. pub'.at <= now /\ pub'.epoch \in Epoch /\ pub'.hint \in Hints
    BY <1>1, TopIs DEF Hints
  <2>4. FeedTypeOK'
    BY <1>1, <1>2, <2>2, <2>3 DEF FeedTyped, FeedTypeOK
  <2> QED
    BY <1>2, <2>1, <2>4 DEF FeedTyped
<1>4. \A e \in DOMAIN chunks : chunks[e].ref \in Nat /\ chunks[e].ref <= updates /\ chunks[e].ts <= now
  BY Consts DEF FeedTyped, Update, ChunksKept
<1>5. \A e \in DOMAIN chunks : chunks[e].ref <= updates + 1 /\ chunks[e].ref < updates + 1
  BY <1>1, <1>4
<1>6. ChunksKept'
  BY <1>1, <1>2, <1>5 DEF ChunksKept
<1>7. WalkKept'
  <2>1. Covers(Top, now)
    BY <1>1, TopIs
  <2>2. \A p \in Epoch : ~Above(p, Top)
    BY TopIs, EpochType, Consts DEF Above
  <2>3. updates + 1 >= 1
    BY <1>1
  <2> QED
    BY <1>1, <1>2, <1>4, <1>5, <2>1, <2>2, <2>3 DEF WalkKept, NoHint
<1>8. CurrentKept'
  BY <1>2 DEF CurrentKept
<1>9. SearchKept' /\ ReadersFresh'
  BY <1>2, ReadersFrame
<1> QED
  BY <1>3, <1>6, <1>7, <1>8, <1>9

\* A publication that ends leaves updates and readers alone.
LEMMA PublishEnds ==
  ASSUME FeedInv, pub' = NoPublication, UNCHANGED <<now, chunks, updates, find>>,
         current' \in 0..updates, CurrentKept'
  PROVE  FeedInv'
<1> USE DEF FeedInv
<1>1. FeedTyped'
  <2>1. pub' \in [at : Nat, ref : Nat, epoch : Epoch, hint : Hints, doing : {"nothing", "probing", "posting", "verifying"}]
    BY TopIs DEF Hints, NoPublication
  <2>2. pub'.at <= now
    BY DEF NoPublication, FeedTyped, FeedTypeOK
  <2> QED
    BY <2>1, <2>2 DEF FeedTyped, FeedTypeOK
<1>2. ChunksKept'
  BY DEF ChunksKept, Covers, Length, Above
<1>3. WalkKept'
  BY DEF WalkKept, NoPublication
<1>4. SearchKept' /\ ReadersFresh'
  BY ReadersFrame
<1> QED
  BY <1>1, <1>2, <1>3, <1>4

LEMMA FeedPublishFails ==
  ASSUME FeedInv, PublishFails PROVE FeedInv'
BY PublishEnds DEF FeedInv, PublishFails, FeedTyped, FeedTypeOK, CurrentKept

LEMMA FeedVerify ==
  ASSUME FeedInv, Verify PROVE FeedInv'
<1>1. pub.ref = updates /\ updates \in Nat /\ pub.epoch \in DOMAIN chunks /\ chunks[pub.epoch].ref = pub.ref
  BY Consts DEF FeedInv, Verify, WalkKept, FeedTyped, FeedTypeOK
<1>2. CurrentKept'
  BY <1>1 DEF Verify, CurrentKept
<1>3. current' \in 0..updates
  BY <1>1 DEF Verify
<1> QED
  BY <1>2, <1>3, PublishEnds DEF Verify

\* What is above a child of e is e or above e.
LEMMA AboveChild ==
  ASSUME NEW e \in Epoch, e.level > 0, NEW t \in Nat, Covers(e, t),
         NEW p \in Epoch, Above(p, ChildAt(e, t))
  PROVE  p = e \/ Above(p, e)
<1> DEFINE c == ChildAt(e, t)
<1>1. c \in Epoch /\ c.level = e.level - 1 /\ Covers(e, c.start) /\ c.start \in Nat
  BY ChildType, EpochType
<1>2. p.level \in Nat /\ e.level \in Nat /\ p.level >= e.level /\ Covers(p, c.start)
  <2>1. p.level \in Nat /\ e.level \in Nat
    BY EpochType, Consts
  <2> QED
    BY <1>1, <2>1 DEF Above
<1> HIDE DEF c
<1>3. Covers(p, e.start)
  BY <1>1, <1>2, Meets
<1>4. CASE p.level = e.level
  BY <1>3, <1>4, SameEpoch
<1>5. CASE p.level # e.level
  BY <1>2, <1>3, <1>5 DEF Above
<1> QED
  BY <1>4, <1>5

LEMMA FeedProbeFinds ==
  ASSUME FeedInv, ProbeFinds PROVE FeedInv'
<1> USE DEF FeedInv
<1> DEFINE e == pub.epoch
           hint == Hint(e, chunks[e].ts)
<1>1. /\ pub.doing = "probing" /\ e \in DOMAIN chunks /\ e \in Epoch /\ pub.at \in Nat /\ pub.at <= now
      /\ chunks[e].ts \in 0..MaxTime /\ Covers(e, pub.at) /\ e.level \in Nat
      /\ UNCHANGED <<now, chunks, updates, current, find>>
  BY EpochType, Consts DEF ProbeFinds, FeedTyped, FeedTypeOK, Update, WalkKept
<1>2. CASE e.level = 0
  <2>1. pub' = NoPublication
    BY <1>2 DEF ProbeFinds
  <2>2. current' \in 0..updates /\ CurrentKept'
    BY <1>1 DEF FeedTyped, FeedTypeOK, CurrentKept
  <2> QED
    BY <1>1, <2>1, <2>2, PublishEnds
<1>3. CASE e.level # 0
  <2> DEFINE c == ChildAt(e, pub.at)
  <2>1. pub' = [pub EXCEPT !.hint = hint, !.epoch = c]
    BY <1>3 DEF ProbeFinds
  <2>2. hint \in Hints /\ hint.found /\ hint.epoch = e
    <3>1. PICK x \in Epoch : \E ts \in 0..MaxTime : hint = Hint(x, ts)
      BY <1>1
    <3>2. PICK ts \in 0..MaxTime : hint = Hint(x, ts)
      BY <3>1
    <3>3. Hint(x, ts) \in {Hint(y, u) : y \in Epoch, u \in 0..MaxTime}
      OBVIOUS
    <3>4. Hint(x, ts) \in Hints
      BY <3>3 DEF Hints
    <3>5. hint \in Hints
      BY <3>2, <3>4
    <3> QED
      BY <3>5 DEF Hint
  <2>3. c \in Epoch /\ Covers(c, pub.at)
    BY <1>1, <1>3, ChildType
  <2>4. /\ pub' = [at |-> pub.at, ref |-> pub.ref, epoch |-> c, hint |-> hint, doing |-> "probing"]
        /\ pub.ref \in Nat
    BY <1>1, <2>1 DEF FeedTyped
  <2>5. \A p \in Epoch : Above(p, c) => p \in DOMAIN chunks
    <3> TAKE p \in Epoch
    <3> HAVE Above(p, c)
    <3>1. p = e \/ Above(p, e)
      BY <1>1, <1>3, AboveChild
    <3> QED
      BY <1>1, <3>1 DEF ChunksKept
  <2> HIDE DEF hint, c
  <2>6. FeedTyped'
    <3>1. pub' \in [at : Nat, ref : Nat, epoch : Epoch, hint : Hints, doing : {"nothing", "probing", "posting", "verifying"}]
      BY <1>1, <2>2, <2>3, <2>4
    <3>2. FeedTypeOK'
      BY <1>1, <2>2, <2>3, <2>4 DEF FeedTyped, FeedTypeOK
    <3> QED
      BY <1>1, <3>1, <3>2 DEF FeedTyped
  <2>7. ChunksKept' /\ CurrentKept'
    BY <1>1 DEF ChunksKept, CurrentKept
  <2>8. WalkKept'
    <3>1. /\ pub.ref = updates /\ updates >= 1
          /\ \A x \in DOMAIN chunks : chunks[x].ts <= pub.at
          /\ \A x \in DOMAIN chunks : chunks[x].ref < pub.ref
      BY <1>1 DEF WalkKept
    <3>2. pub'.epoch = ChildAt(pub'.hint.epoch, pub'.at) /\ pub'.hint.epoch.level > 0 /\ Covers(pub'.hint.epoch, pub'.at)
      BY <1>1, <1>3, <2>2, <2>4 DEF c
    <3> QED
      BY <1>1, <2>2, <2>3, <2>4, <2>5, <3>1, <3>2 DEF WalkKept
  <2>9. SearchKept' /\ ReadersFresh'
    BY <1>1, ReadersFrame
  <2> QED
    BY <2>6, <2>7, <2>8, <2>9
<1> QED
  BY <1>2, <1>3

\* The update is written where the walk ended.
LEMMA NextIsHere ==
  ASSUME FeedInv, pub.doing = "probing"
  PROVE  NextEpoch(pub.hint, pub.at) = pub.epoch
<1> USE DEF FeedInv
<1>1. CASE ~pub.hint.found
  BY <1>1 DEF WalkKept, NextEpoch
<1>2. CASE pub.hint.found
  <2>1. pub.epoch = ChildAt(pub.hint.epoch, pub.at) /\ Covers(pub.hint.epoch, pub.at)
    BY <1>2 DEF WalkKept
  <2>2. pub.hint \in Hints /\ pub.at \in Nat
    BY DEF FeedTyped
  <2>3. pub.hint.epoch \in Epoch
    BY <1>2, <2>2 DEF Hints, NoHint, Hint
  <2>4. pub.hint.epoch.start \in Nat /\ Length(pub.hint.epoch) \in Nat
    BY <2>3, EpochType
  <2>5. pub.hint.epoch.start + Length(pub.hint.epoch) > pub.at
    BY <2>1, <2>2, <2>4 DEF Covers
  <2> QED
    BY <1>2, <2>1, <2>5 DEF NextEpoch
<1> QED
  BY <1>1, <1>2

LEMMA FeedProbeMisses ==
  ASSUME ~Flaky, FeedInv, ProbeMisses PROVE FeedInv'
<1> USE DEF FeedInv
<1>1. /\ pub.doing = "probing" /\ pub.epoch \notin DOMAIN chunks
      /\ pub' = [pub EXCEPT !.epoch = pub.epoch, !.doing = "posting"]
      /\ UNCHANGED <<now, chunks, updates, current, find>>
  BY NextIsHere DEF ProbeMisses
<1>2. /\ pub' = [at |-> pub.at, ref |-> pub.ref, epoch |-> pub.epoch, hint |-> pub.hint, doing |-> "posting"]
      /\ pub.at \in Nat /\ pub.ref \in Nat /\ pub.epoch \in Epoch /\ pub.hint \in Hints /\ pub.at <= now
  BY <1>1 DEF FeedTyped, FeedTypeOK
<1>3. FeedTyped'
  <2>1. pub' \in [at : Nat, ref : Nat, epoch : Epoch, hint : Hints, doing : {"nothing", "probing", "posting", "verifying"}]
    BY <1>2
  <2>2. FeedTypeOK'
    BY <1>1, <1>2 DEF FeedTyped, FeedTypeOK
  <2> QED
    BY <1>1, <2>1, <2>2 DEF FeedTyped
<1>4. ChunksKept' /\ CurrentKept'
  BY <1>1 DEF ChunksKept, CurrentKept
<1>5. WalkKept'
  BY <1>1, <1>2 DEF WalkKept
<1>6. SearchKept' /\ ReadersFresh'
  BY <1>1, ReadersFrame
<1> QED
  BY <1>3, <1>4, <1>5, <1>6

LEMMA FeedPost ==
  ASSUME FeedInv, Post PROVE FeedInv'
<1> USE DEF FeedInv
<1> DEFINE e == pub.epoch
           new == [ts |-> pub.at, ref |-> pub.ref]
<1>1. /\ pub.doing = "posting" /\ e \notin DOMAIN chunks /\ e \in Epoch
      /\ chunks' = [x \in DOMAIN chunks \cup {e} |-> IF x = e THEN new ELSE chunks[x]]
      /\ pub' = [pub EXCEPT !.doing = "verifying"]
      /\ UNCHANGED <<now, updates, current, find>>
  BY DEF Post, WalkKept, FeedTyped, FeedTypeOK
<1>2. /\ pub' = [at |-> pub.at, ref |-> pub.ref, epoch |-> e, hint |-> pub.hint, doing |-> "verifying"]
      /\ e \in Epoch /\ pub.hint \in Hints /\ pub.at \in Nat /\ pub.ref \in Nat /\ pub.at <= now
  BY <1>1 DEF FeedTyped, FeedTypeOK
<1>3. /\ pub.ref = updates /\ updates >= 1 /\ Covers(e, pub.at)
      /\ \A x \in DOMAIN chunks : chunks[x].ts <= pub.at /\ chunks[x].ref < pub.ref
      /\ \A p \in Epoch : Above(p, e) => p \in DOMAIN chunks
  BY <1>1 DEF WalkKept
<1>4. now \in 0..MaxTime /\ updates \in 0..MaxUpdates /\ now \in Nat /\ updates \in Nat
  BY Consts DEF FeedTyped, FeedTypeOK
<1>5. new \in Update /\ new.ts = pub.at /\ new.ref = pub.ref
  <2>1. pub.at \in 0..MaxTime /\ pub.ref \in 1..MaxUpdates
    BY <1>2, <1>3, <1>4, Consts
  <2> QED
    BY <2>1 DEF Update
<1> HIDE DEF new
<1>6. /\ DOMAIN chunks' = DOMAIN chunks \cup {e} /\ chunks'[e] = new
      /\ \A x \in DOMAIN chunks : chunks'[x] = chunks[x]
  BY <1>1
<1> HIDE DEF e
<1>7. FeedTyped'
  <2>1. pub' \in [at : Nat, ref : Nat, epoch : Epoch, hint : Hints, doing : {"nothing", "probing", "posting", "verifying"}]
    BY <1>2
  <2>2. DOMAIN chunks' \subseteq Epoch /\ \A x \in DOMAIN chunks' : chunks'[x] \in Update
    BY <1>1, <1>5, <1>6 DEF FeedTyped, FeedTypeOK
  <2>3. chunks' \in [DOMAIN chunks' -> Update]
    BY <1>1, <2>2
  <2>4. FeedTypeOK'
    BY <1>1, <1>2, <2>2 DEF FeedTyped, FeedTypeOK
  <2> QED
    BY <1>1, <2>1, <2>3, <2>4 DEF FeedTyped
<1>8. \A x \in DOMAIN chunks : chunks[x].ts \in Nat /\ chunks[x].ref \in Nat
  BY Consts DEF FeedTyped, Update
<1>9. ChunksKept'
  <2>1. \A x \in DOMAIN chunks' : Covers(x, chunks'[x].ts) /\ chunks'[x].ref <= updates /\ chunks'[x].ts <= now
    BY <1>2, <1>3, <1>4, <1>5, <1>6 DEF ChunksKept
  <2>2. \A x, y \in DOMAIN chunks' : chunks'[x].ref < chunks'[y].ref => chunks'[x].ts <= chunks'[y].ts
    <3> SUFFICES ASSUME NEW x \in DOMAIN chunks', NEW y \in DOMAIN chunks', chunks'[x].ref < chunks'[y].ref
                 PROVE  chunks'[x].ts <= chunks'[y].ts
      OBVIOUS
    <3>1. CASE x \in DOMAIN chunks /\ y \in DOMAIN chunks
      BY <1>6, <3>1 DEF ChunksKept
    <3>2. CASE x \in DOMAIN chunks /\ y = e
      BY <1>3, <1>5, <1>6, <3>2
    <3>3. CASE x = e /\ y \in DOMAIN chunks
      BY <1>2, <1>3, <1>5, <1>6, <1>8, <3>3
    <3>4. CASE x = e /\ y = e
      BY <1>2, <1>5, <1>6, <3>4
    <3> QED
      BY <1>6, <3>1, <3>2, <3>3, <3>4
  <2>3. \A x \in DOMAIN chunks', p \in Epoch :
          Above(p, x) => p \in DOMAIN chunks' /\ chunks'[p].ref < chunks'[x].ref
    <3> SUFFICES ASSUME NEW x \in DOMAIN chunks', NEW p \in Epoch, Above(p, x)
                 PROVE  p \in DOMAIN chunks' /\ chunks'[p].ref < chunks'[x].ref
      OBVIOUS
    <3>1. CASE x \in DOMAIN chunks
      BY <1>6, <3>1 DEF ChunksKept
    <3>2. CASE x = e
      BY <1>3, <1>5, <1>6, <3>2
    <3> QED
      BY <1>6, <3>1, <3>2
  <2> QED
    BY <1>1, <2>1, <2>2, <2>3 DEF ChunksKept
<1>10. WalkKept'
  <2>1. \A x \in DOMAIN chunks' : chunks'[x].ts <= pub.at
    BY <1>2, <1>3, <1>5, <1>6
  <2> QED
    BY <1>1, <1>2, <1>3, <1>5, <1>6, <2>1 DEF WalkKept
<1>11. CurrentKept'
  BY <1>1, <1>6 DEF CurrentKept
<1>12. SearchKept' /\ ReadersFresh'
  BY <1>1, <1>6, ReadersFrame
<1> QED
  BY <1>7, <1>9, <1>10, <1>11, <1>12

-----------------------------------------------------------------------------
(* Readers.                                                                *)

\* What a step of one reader has to keep.
LEMMA OneReader ==
  ASSUME FeedInv, NEW r \in Reader, NEW f, find' = [find EXCEPT ![r] = f],
         UNCHANGED <<now, chunks, updates, pub, current>>,
         f \in [at : Nat, epoch : Epoch, best : Update \cup {NoUpdate}, floor : Nat, doing : {"nothing", "searching", "done"}],
         f.doing = "done" => f.best.ref >= f.floor,
         f.doing = "searching" =>
           /\ Covers(f.epoch, f.at)
           /\ f.best = NoUpdate \/ \E p \in DOMAIN chunks : Above(p, f.epoch) /\ chunks[p] = f.best
           /\ f.best.ref >= f.floor \/ \E e \in DOMAIN chunks : Ahead(f, e, chunks[e])
  PROVE  FeedInv'
<1> USE DEF FeedInv
<1>1. \A x \in Reader : find'[x] = IF x = r THEN f ELSE find[x]
  BY DEF FeedTyped
<1>2. FeedTyped'
  <2>1. find' \in [Reader -> [at : Nat, epoch : Epoch, best : Update \cup {NoUpdate}, floor : Nat, doing : {"nothing", "searching", "done"}]]
    BY DEF FeedTyped
  <2>2. FeedTypeOK'
    BY <2>1 DEF FeedTyped, FeedTypeOK
  <2> QED
    BY <2>1, <2>2 DEF FeedTyped
<1>3. ChunksKept' /\ WalkKept' /\ CurrentKept'
  BY DEF ChunksKept, WalkKept, CurrentKept
<1>4. SearchKept' /\ ReadersFresh'
  BY <1>1 DEF SearchKept, ReadersFresh
<1> QED
  BY <1>2, <1>3, <1>4

LEMMA FeedResolve ==
  ASSUME FeedInv, NEW r \in Reader, Resolve(r) PROVE FeedInv'
<1> USE DEF FeedInv
<1> DEFINE f == [at |-> now, epoch |-> Top, best |-> NoUpdate, floor |-> current, doing |-> "searching"]
<1>1. find' = [find EXCEPT ![r] = f] /\ UNCHANGED <<now, chunks, updates, pub, current>>
  <2>1. ASSUME NEW x, x = [NotReading EXCEPT !.at = now, !.floor = current, !.doing = "searching"] PROVE x = f
    BY <2>1 DEF NotReading
  <2> HIDE DEF f
  <2> QED
    BY <2>1, Zenon DEF Resolve
<1>2. now \in Nat /\ now \in 0..MaxTime /\ current \in Nat
  BY Consts DEF FeedTyped, FeedTypeOK
<1>3. f \in [at : Nat, epoch : Epoch, best : Update \cup {NoUpdate}, floor : Nat, doing : {"nothing", "searching", "done"}]
  BY <1>2, TopIs
<1>4. Covers(f.epoch, f.at)
  BY <1>2, TopIs
<1>5. CASE current = 0
  <2>1. f.best.ref >= f.floor /\ f.best = NoUpdate /\ f.doing = "searching"
    BY <1>5 DEF NoUpdate
  <2> HIDE DEF f
  <2> QED
    BY <1>1, <1>3, <1>4, <2>1, OneReader
<1>6. CASE current # 0
  <2>1. PICK e \in DOMAIN chunks : chunks[e].ref = current
    BY <1>6 DEF CurrentKept
  <2>2. e \in Epoch /\ chunks[e].ts <= now
    BY DEF ChunksKept, FeedTyped, FeedTypeOK
  <2>3. Within(e, Top)
    BY <2>2, TopIs, EpochType, Consts DEF Within
  <2>4. Ahead(f, e, chunks[e])
    BY <2>1, <2>2, <2>3 DEF Ahead
  <2>5. f.doing = "searching" /\ f.best = NoUpdate
    OBVIOUS
  <2> HIDE DEF f
  <2> QED
    BY <1>1, <1>3, <1>4, <2>4, <2>5, OneReader
<1> QED
  BY <1>5, <1>6

\* What a search knows when it looks at an epoch.
LEMMA SearchIs ==
  ASSUME FeedInv, NEW r \in Reader, find[r].doing = "searching"
  PROVE  LET f == find[r] IN
         /\ f = [at |-> f.at, epoch |-> f.epoch, best |-> f.best, floor |-> f.floor, doing |-> "searching"]
         /\ f.at \in Nat /\ f.epoch \in Epoch /\ f.best \in Update \cup {NoUpdate} /\ f.best.ref \in Nat /\ f.floor \in Nat
         /\ Covers(f.epoch, f.at)
         /\ f.best = NoUpdate \/ \E p \in DOMAIN chunks : Above(p, f.epoch) /\ chunks[p] = f.best
         /\ f.best.ref >= f.floor \/ \E e \in DOMAIN chunks : Ahead(f, e, chunks[e])
<1>1. find[r] \in [at : Nat, epoch : Epoch, best : Update \cup {NoUpdate}, floor : Nat, doing : {"nothing", "searching", "done"}]
  BY DEF FeedInv, FeedTyped
<1>2. \A u \in Update \cup {NoUpdate} : u.ref \in Nat
  BY Consts DEF Update, NoUpdate
<1> QED
  BY <1>1, <1>2 DEF FeedInv, SearchKept

\* A step down loses nothing: what is ahead in the epoch is ahead in its child,
\* and what is ahead in the left sibling is older than the update found.
LEMMA DownIs ==
  ASSUME FeedInv, NEW r \in Reader, find[r].doing = "searching", Visible(r),
         NEW e \in DOMAIN chunks, Ahead(find[r], e, chunks[e])
  PROVE  LET f == find[r] IN
         \/ chunks[f.epoch].ref >= f.floor
         \/ /\ f.epoch.level > 0
            /\ Ahead([at |-> f.at, epoch |-> ChildAt(f.epoch, f.at), best |-> chunks[f.epoch], floor |-> f.floor,
                      doing |-> "searching"], e, chunks[e])
<1> USE DEF FeedInv
<1> DEFINE f == find[r]
           c == f.epoch
<1>1. f.at \in Nat /\ c \in Epoch /\ f.floor \in Nat /\ Covers(c, f.at)
  BY SearchIs
<1>2. c \in DOMAIN chunks /\ chunks[c].ts <= f.at /\ e \in Epoch /\ c.level \in Nat /\ e.level \in Nat
  BY <1>1, EpochType, Consts DEF Visible, FeedTyped, FeedTypeOK
<1>3. /\ chunks[e].ts \in Nat /\ chunks[c].ts \in Nat /\ chunks[e].ref \in Nat /\ chunks[c].ref \in Nat
      /\ Covers(e, chunks[e].ts) /\ Covers(c, chunks[c].ts)
      /\ chunks[c].ref < chunks[e].ref => chunks[c].ts <= chunks[e].ts
  BY <1>2, Consts DEF FeedTyped, Update, ChunksKept
<1>4. chunks[e].ref = f.floor /\ chunks[e].ts <= f.at
      /\ (Within(e, c) \/ (~IsLeft(c) /\ Within(e, LeftOf(c))))
  BY DEF Ahead
<1> HIDE DEF f
<1>5. CASE Within(e, c) /\ e.level = c.level
  <2>1. e = c
    BY <1>1, <1>2, <1>5, SameEpoch DEF Within
  <2> QED
    BY <1>1, <1>4, <2>1 DEF f
<1>6. CASE Within(e, c) /\ e.level # c.level
  <2>1. e.level < c.level /\ c.level > 0 /\ Covers(c, e.start)
    BY <1>2, <1>6 DEF Within
  <2>2. \/ Within(e, ChildAt(c, f.at))
        \/ ~IsLeft(ChildAt(c, f.at)) /\ Within(e, LeftOf(ChildAt(c, f.at)))
    BY <1>1, <1>2, <1>3, <1>4, <2>1, BelowIs
  <2> QED
    BY <1>4, <2>1, <2>2 DEF Ahead, f
<1>7. CASE ~IsLeft(c) /\ Within(e, LeftOf(c))
  <2> DEFINE left == LeftOf(c)
  <2>1. left \in Epoch /\ left.level = c.level /\ Length(left) = Length(c) /\ left.start + Length(c) = c.start
    BY <1>1, <1>7, LeftIs
  <2>2. Covers(left, chunks[e].ts)
    BY <1>2, <1>3, <1>7, <2>1, InsideOf DEF Within
  <2>3. left.start \in Nat /\ c.start \in Nat /\ Length(c) \in Nat
    BY <1>1, <2>1, EpochType
  <2>4. chunks[e].ts < c.start
    BY <1>3, <2>1, <2>2, <2>3 DEF Covers
  <2>5. c.start <= chunks[c].ts
    BY <1>3 DEF Covers
  <2>6. ~(chunks[c].ts <= chunks[e].ts)
    BY <1>3, <2>3, <2>4, <2>5
  <2>7. chunks[c].ref >= chunks[e].ref
    BY <1>3, <2>6
  <2> QED
    BY <1>4, <2>7 DEF f
<1> QED
  BY <1>4, <1>5, <1>6, <1>7

\* What is above an epoch is above its left sibling.
LEMMA AboveLeft ==
  ASSUME NEW e \in Epoch, ~IsLeft(e), NEW p \in Epoch, Above(p, e)
  PROVE  Above(p, LeftOf(e))
<1> DEFINE n == Length(e)
           left == LeftOf(e)
<1>1. left \in Epoch /\ left.level = e.level /\ left.start + n = e.start
  BY LeftIs
<1>2. /\ n \in Nat /\ n > 0 /\ e.start \in Nat /\ left.start \in Nat /\ p.start \in Nat /\ Length(p) \in Nat
      /\ e.level \in 0..MaxLevel /\ p.level \in 0..MaxLevel /\ e.level \in Nat /\ p.level \in Nat
  BY <1>1, EpochType, Consts
<1>3. PICK i \in Nat : e.start = i * n
  BY EpochType
<1>4. PICK j \in Nat : p.start = j * Length(p)
  BY EpochType
<1> DEFINE d == p.level - (e.level + 1)
           k == Shifted[d]
<1>5. d \in Nat /\ (e.level + 1) + d = p.level /\ Covers(p, e.start)
  BY <1>2 DEF Above
<1>6. k \in Nat /\ Length(p) = Shifted[e.level + 1] * k /\ Shifted[e.level + 1] = 2 * n
  <2>1. e.level + 1 \in Nat
    BY <1>2
  <2>2. Shifted[(e.level + 1) + d] = Shifted[e.level + 1] * Shifted[d]
    BY <1>5, <2>1, ShiftedSum
  <2>3. Shifted[d] \in Nat /\ Shifted[e.level + 1] = 2 * Shifted[e.level]
    BY <1>2, <1>5, ShiftedStep, ShiftedType
  <2> QED
    BY <1>5, <2>2, <2>3 DEF Length
<1>7. i % 2 = 1
  <2>1. e.start \div n = i
    BY <1>2, <1>3, DivIs
  <2> QED
    BY <1>3, <2>1 DEF IsLeft
<1> DEFINE m == j * k
<1>8. m \in Nat /\ p.start = (2 * m) * n
  <2>1. p.start = j * ((2 * n) * k)
    BY <1>4, <1>6
  <2> QED
    BY <1>2, <1>4, <1>6, <2>1
<1> HIDE DEF n, d, k, m, left
<1>9. (2 * m) * n <= i * n
  BY <1>2, <1>3, <1>5, <1>8 DEF Covers
<1>10. 2 * m <= i
  <2> SUFFICES ASSUME i + 1 <= 2 * m PROVE FALSE
    BY <1>3, <1>8
  <2>1. (i + 1) * n <= (2 * m) * n
    BY <1>2, <1>3, <1>8
  <2>2. (i + 1) * n = i * n + n /\ i * n \in Nat /\ (2 * m) * n \in Nat
    BY <1>2, <1>3, <1>8
  <2> QED
    BY <1>2, <1>9, <2>1, <2>2
<1>11. 2 * m + 1 <= i
  BY <1>3, <1>7, <1>8, <1>10
<1>12. (2 * m + 1) * n <= i * n
  BY <1>2, <1>3, <1>8, <1>11
<1>13. p.start <= left.start
  BY <1>1, <1>2, <1>3, <1>8, <1>12
<1>14. left.start < p.start + Length(p)
  BY <1>1, <1>2, <1>5 DEF Covers
<1> QED
  BY <1>1, <1>2, <1>13, <1>14 DEF Above, Covers, left

\* An update is newer than the ones a search passed.
LEMMA BestIsOlder ==
  ASSUME FeedInv, NEW r \in Reader, find[r].doing = "searching", find[r].epoch \in DOMAIN chunks
  PROVE  find[r].best.ref <= chunks[find[r].epoch].ref
<1> DEFINE c == find[r].epoch
<1>1. c \in Epoch /\ (find[r].best = NoUpdate \/ \E p \in DOMAIN chunks : Above(p, c) /\ chunks[p] = find[r].best)
  BY SearchIs
<1>2. \A p \in DOMAIN chunks : chunks[p].ref \in Nat /\ p \in Epoch
  BY Consts DEF FeedInv, FeedTyped, FeedTypeOK, Update
<1>3. \A p \in DOMAIN chunks : Above(p, c) => chunks[p].ref < chunks[c].ref
  BY <1>2 DEF FeedInv, ChunksKept
<1> QED
  BY <1>1, <1>2, <1>3 DEF NoUpdate

\* The records of GoDown() and GoLeft(), field by field.
LEMMA DownRecord ==
  ASSUME FeedInv, NEW r \in Reader, NEW c, NEW u, NEW x, x = [find[r] EXCEPT !.best = u, !.epoch = c]
  PROVE  x = [at |-> find[r].at, epoch |-> c, best |-> u, floor |-> find[r].floor, doing |-> find[r].doing]
BY DEF FeedInv, FeedTyped

LEMMA LeftRecord ==
  ASSUME FeedInv, NEW r \in Reader, NEW t, NEW n, NEW x, x = [find[r] EXCEPT !.at = t, !.epoch.start = @ - n],
         find[r].doing = "searching"
  PROVE  x = [at |-> t, epoch |-> [find[r].epoch EXCEPT !.start = @ - n], best |-> find[r].best,
              floor |-> find[r].floor, doing |-> "searching"]
BY DEF FeedInv, FeedTyped

LEMMA FeedGoDown ==
  ASSUME FeedInv, NEW r \in Reader, GoDown(r) PROVE FeedInv'
<1> DEFINE c == find[r].epoch
           at == find[r].at
           floor == find[r].floor
           update == chunks[c]
           done == [at |-> 0, epoch |-> Top, best |-> update, floor |-> floor, doing |-> "done"]
           down == [at |-> at, epoch |-> ChildAt(c, at), best |-> update, floor |-> floor, doing |-> "searching"]
<1>1. find[r].doing = "searching" /\ Visible(r) /\ c \in DOMAIN chunks /\ UNCHANGED <<now, chunks, updates, pub, current>>
  BY DEF GoDown, Visible
<1>2. /\ find[r] = [at |-> at, epoch |-> c, best |-> find[r].best, floor |-> floor, doing |-> "searching"]
      /\ at \in Nat /\ c \in Epoch /\ floor \in Nat /\ find[r].best.ref \in Nat /\ Covers(c, at)
      /\ c.level \in Nat
  BY <1>1, SearchIs, EpochType, Consts
<1>3. update \in Update /\ update.ref \in Nat
  BY <1>1, Consts DEF FeedInv, FeedTyped, Update
<1>4. find[r].best.ref <= update.ref
  BY <1>1, BestIsOlder
<1>5. \/ update.ref >= floor
      \/ c.level > 0 /\ \E e \in DOMAIN chunks : Ahead(down, e, chunks[e])
  <2>1. CASE find[r].best.ref >= floor
    BY <1>2, <1>3, <1>4, <2>1
  <2>2. CASE \E e \in DOMAIN chunks : Ahead(find[r], e, chunks[e])
    BY <1>1, <2>2, DownIs
  <2> QED
    BY <1>1, <2>1, <2>2, SearchIs
<1>6. CASE c.level = 0
  <2>1. find' = [find EXCEPT ![r] = done]
    BY <1>6 DEF GoDown, Found, Continue, NotReading
  <2>2. update.ref >= floor
    BY <1>5, <1>6
  <2>3. /\ done \in [at : Nat, epoch : Epoch, best : Update \cup {NoUpdate}, floor : Nat, doing : {"nothing", "searching", "done"}]
        /\ done.doing = "done" /\ done.best = update /\ done.floor = floor
    BY <1>2, <1>3, TopIs
  <2> HIDE DEF done
  <2> QED
    BY <1>1, <2>1, <2>2, <2>3, OneReader
<1>7. CASE c.level # 0
  <2>1. find' = [find EXCEPT ![r] = down]
    <3>1. find' = [find EXCEPT ![r] = [find[r] EXCEPT !.best = update, !.epoch = ChildAt(c, at)]]
      BY <1>7 DEF GoDown, Continue
    <3>2. ASSUME NEW x, x = [find[r] EXCEPT !.best = update, !.epoch = ChildAt(c, at)] PROVE x = down
      <4>1. x = [at |-> at, epoch |-> ChildAt(c, at), best |-> update, floor |-> floor, doing |-> find[r].doing]
        BY <1>1, <3>2, DownRecord
      <4> QED
        BY <1>1, <4>1
    <3> HIDE DEF c, at, update, down
    <3> QED
      BY <3>1, <3>2, Zenon
  <2>2. /\ ChildAt(c, at) \in Epoch /\ ChildAt(c, at).level = c.level - 1
        /\ Covers(ChildAt(c, at), at) /\ Covers(c, ChildAt(c, at).start)
    BY <1>2, <1>7, ChildType
  <2>3. Above(c, ChildAt(c, at))
    BY <1>2, <2>2 DEF Above
  <2>4. /\ down \in [at : Nat, epoch : Epoch, best : Update \cup {NoUpdate}, floor : Nat, doing : {"nothing", "searching", "done"}]
        /\ down.doing = "searching" /\ down.best = update /\ down.floor = floor /\ down.epoch = ChildAt(c, at) /\ down.at = at
    BY <1>2, <1>3, <2>2
  <2> HIDE DEF down
  <2> QED
    BY <1>1, <1>5, <2>1, <2>2, <2>3, <2>4, OneReader
<1> QED
  BY <1>6, <1>7

\* What is not visible has nothing ahead in it.
LEMMA LeftRemains ==
  ASSUME FeedInv, NEW r \in Reader, find[r].doing = "searching", ~Visible(r),
         NEW e \in DOMAIN chunks, Ahead(find[r], e, chunks[e])
  PROVE  LET c == find[r].epoch
         IN  ~IsLeft(c) /\ Within(e, LeftOf(c)) /\ chunks[e].ts <= c.start - 1
<1> USE DEF FeedInv
<1> DEFINE f == find[r]
           c == f.epoch
<1>1. f.at \in Nat /\ c \in Epoch /\ e \in Epoch /\ c.level \in Nat /\ e.level \in Nat
  <2>1. f.at \in Nat /\ c \in Epoch /\ e \in Epoch
    BY SearchIs DEF FeedTyped, FeedTypeOK
  <2> QED
    BY <2>1, EpochType, Consts
<1>2. chunks[e].ts \in Nat /\ Covers(e, chunks[e].ts)
  BY Consts DEF FeedTyped, Update, ChunksKept
<1>3. chunks[e].ts <= f.at /\ (Within(e, c) \/ (~IsLeft(c) /\ Within(e, LeftOf(c))))
  BY DEF Ahead
<1>4. ~Within(e, c)
  <2> SUFFICES ASSUME Within(e, c) PROVE FALSE
    OBVIOUS
  <2>1. CASE e.level = c.level
    <3>1. e = c
      BY <1>1, <2>1, SameEpoch DEF Within
    <3> HIDE DEF f
    <3> QED
      BY <1>3, <3>1 DEF Visible, f
  <2>2. CASE e.level # c.level
    <3>1. Above(c, e)
      BY <1>1, <2>2 DEF Within, Above
    <3>2. c \in DOMAIN chunks /\ chunks[c].ref < chunks[e].ref
      BY <1>1, <3>1 DEF ChunksKept
    <3>3. chunks[c].ts <= chunks[e].ts /\ chunks[c].ts \in Nat
      BY <3>2, Consts DEF ChunksKept, FeedTyped, Update
    <3>4. chunks[c].ts <= f.at
      BY <1>1, <1>2, <1>3, <3>3
    <3> QED
      BY <3>2, <3>4 DEF Visible
  <2> QED
    BY <2>1, <2>2
<1>5. ~IsLeft(c) /\ Within(e, LeftOf(c))
  BY <1>3, <1>4
<1>6. /\ LeftOf(c) \in Epoch /\ LeftOf(c).level = c.level /\ LeftOf(c).start + Length(c) = c.start
      /\ Length(LeftOf(c)) = Length(c)
  BY <1>1, <1>5, LeftIs
<1>7. Covers(LeftOf(c), chunks[e].ts)
  BY <1>1, <1>2, <1>5, <1>6, InsideOf DEF Within
<1>8. {LeftOf(c).start, c.start, Length(c)} \subseteq Nat
  BY <1>1, <1>6, EpochType
<1>9. chunks[e].ts < c.start
  BY <1>6, <1>7, <1>8 DEF Covers
<1>10. chunks[e].ts <= c.start - 1
  BY <1>2, <1>8, <1>9
<1> QED
  BY <1>5, <1>10

LEMMA FeedGoLeft ==
  ASSUME FeedInv, NEW r \in Reader, GoLeft(r) PROVE FeedInv'
<1> DEFINE c == find[r].epoch
           at == c.start - 1
           best == find[r].best
           floor == find[r].floor
           done == [at |-> 0, epoch |-> Top, best |-> best, floor |-> floor, doing |-> "done"]
           left == [at |-> at, epoch |-> LeftOf(c), best |-> best, floor |-> floor, doing |-> "searching"]
<1>1. find[r].doing = "searching" /\ ~Visible(r) /\ UNCHANGED <<now, chunks, updates, pub, current>>
  BY DEF GoLeft
<1>2. /\ find[r] = [at |-> find[r].at, epoch |-> c, best |-> best, floor |-> floor, doing |-> "searching"]
      /\ c \in Epoch /\ floor \in Nat /\ best.ref \in Nat /\ best \in Update \cup {NoUpdate}
      /\ best = NoUpdate \/ \E p \in DOMAIN chunks : Above(p, c) /\ chunks[p] = best
  BY <1>1, SearchIs
<1>3. CASE IsLeft(c)
  <2>1. find' = [find EXCEPT ![r] = done]
    BY <1>3 DEF GoLeft, Found, Continue, NotReading
  <2>2. best.ref >= floor
    BY <1>1, <1>3, SearchIs, LeftRemains
  <2>3. /\ done \in [at : Nat, epoch : Epoch, best : Update \cup {NoUpdate}, floor : Nat, doing : {"nothing", "searching", "done"}]
        /\ done.doing = "done" /\ done.best = best /\ done.floor = floor
    BY <1>2, TopIs
  <2> HIDE DEF done
  <2> QED
    BY <1>1, <2>1, <2>2, <2>3, OneReader
<1>4. CASE ~IsLeft(c)
  <2>1. /\ LeftOf(c) \in Epoch /\ LeftOf(c) = [c EXCEPT !.start = @ - Length(c)]
        /\ at \in Nat /\ Covers(LeftOf(c), at)
    BY <1>2, <1>4, LeftIs
  <2>2. find' = [find EXCEPT ![r] = left]
    <3>1. find' = [find EXCEPT ![r] = [find[r] EXCEPT !.at = at, !.epoch.start = @ - Length(c)]]
      BY <1>4 DEF GoLeft, Continue
    <3>2. ASSUME NEW x, x = [find[r] EXCEPT !.at = at, !.epoch.start = @ - Length(c)] PROVE x = left
      <4>1. x = [at |-> at, epoch |-> [c EXCEPT !.start = @ - Length(c)], best |-> best, floor |-> floor, doing |-> "searching"]
        BY <1>1, <3>2, LeftRecord
      <4> QED
        BY <2>1, <4>1
    <3> HIDE DEF c, at, best, left
    <3> QED
      BY <3>1, <3>2, Zenon
  <2>3. best = NoUpdate \/ \E p \in DOMAIN chunks : Above(p, LeftOf(c)) /\ chunks[p] = best
    <3>1. \A p \in DOMAIN chunks : p \in Epoch
      BY DEF FeedInv, FeedTyped, FeedTypeOK
    <3> QED
      BY <1>2, <1>4, <3>1, AboveLeft
  <2>4. best.ref >= floor \/ \E e \in DOMAIN chunks : Ahead(left, e, chunks[e])
    <3>1. CASE best.ref >= floor
      BY <3>1
    <3>2. CASE \E e \in DOMAIN chunks : Ahead(find[r], e, chunks[e])
      <4>1. PICK e \in DOMAIN chunks : Ahead(find[r], e, chunks[e])
        BY <3>2
      <4>2. Within(e, LeftOf(c)) /\ chunks[e].ts <= at
        BY <1>1, <4>1, LeftRemains
      <4>3. chunks[e].ref = floor
        BY <4>1 DEF Ahead
      <4> QED
        BY <4>2, <4>3 DEF Ahead
    <3> QED
      BY <1>1, <3>1, <3>2, SearchIs
  <2>5. /\ left \in [at : Nat, epoch : Epoch, best : Update \cup {NoUpdate}, floor : Nat, doing : {"nothing", "searching", "done"}]
        /\ left.doing = "searching" /\ left.best = best /\ left.floor = floor /\ left.epoch = LeftOf(c) /\ left.at = at
    BY <1>2, <2>1
  <2> HIDE DEF left
  <2> QED
    BY <1>1, <2>1, <2>2, <2>3, <2>4, <2>5, OneReader
<1> QED
  BY <1>3, <1>4

-----------------------------------------------------------------------------
(* Theorems.                                                               *)

LEMMA FeedStep ==
  ASSUME ~Flaky, FeedInv, [FeedNext]_feedVars PROVE FeedInv'
<1>1. CASE Tick
  BY <1>1, FeedTick
<1>2. CASE Publish
  BY <1>2, FeedPublish
<1>3. CASE ProbeFinds
  BY <1>3, FeedProbeFinds
<1>4. CASE ProbeMisses
  BY <1>4, FeedProbeMisses
<1>5. CASE Post
  BY <1>5, FeedPost
<1>6. CASE Verify
  BY <1>6, FeedVerify
<1>7. CASE PublishFails
  BY <1>7, FeedPublishFails
<1>8. ASSUME NEW r \in Reader, Resolve(r) \/ GoDown(r) \/ GoLeft(r) PROVE FeedInv'
  BY <1>8, FeedResolve, FeedGoDown, FeedGoLeft
<1>9. CASE UNCHANGED feedVars
  BY <1>9 DEF feedVars, FeedInv, FeedTyped, FeedTypeOK, ChunksKept, WalkKept, CurrentKept, SearchKept, ReadersFresh
<1> QED
  BY <1>1, <1>2, <1>3, <1>4, <1>5, <1>6, <1>7, <1>8, <1>9 DEF FeedNext

\* FeedInv holds in every state, if Bee does not deny a chunk that it has: a
\* publisher it denies one writes over it (feed-publisher.ts, recoverFeedHints).
THEOREM FeedInvariant == ~Flaky => (FeedSpec => []FeedInv)
<1> SUFFICES ASSUME ~Flaky PROVE FeedSpec => []FeedInv
  OBVIOUS
<1>1. FeedInv /\ [FeedNext]_feedVars => FeedInv'
  BY FeedStep
<1> QED
  BY <1>1, FeedInitInv, PTL DEF FeedSpec

LEMMA InvOlderAbove == FeedInv => OlderAbove
<1> SUFFICES ASSUME FeedInv, NEW e \in DOMAIN chunks
             PROVE  /\ Covers(e, chunks[e].ts)
                    /\ e # Top => \E p \in DOMAIN chunks : /\ p.level = e.level + 1
                                                           /\ Covers(p, e.start)
                                                           /\ chunks[p].ref < chunks[e].ref
  BY DEF OlderAbove
<1>1. e \in Epoch /\ Covers(e, chunks[e].ts)
  BY DEF FeedInv, FeedTyped, FeedTypeOK, ChunksKept
<1>2. ASSUME e # Top
      PROVE  \E p \in DOMAIN chunks : p.level = e.level + 1 /\ Covers(p, e.start) /\ chunks[p].ref < chunks[e].ref
  <2>1. PICK p \in Epoch : p.level = e.level + 1 /\ Covers(p, e.start)
    BY <1>1, <1>2, ParentIs
  <2>2. e.level \in Nat
    BY <1>1, EpochType, Consts
  <2>3. Above(p, e)
    BY <2>1, <2>2 DEF Above
  <2> QED
    BY <1>1, <2>1, <2>3 DEF FeedInv, ChunksKept
<1> QED
  BY <1>1, <1>2

\* Every update but the first has an older one right above it (nextEpoch and
\* recoverFeedHints), however publications fail and are begun again.
THEOREM UpdatesLieBelowOlder == ~Flaky => (FeedSpec => []ChunksSound)
<1> SUFFICES ASSUME ~Flaky PROVE FeedSpec => []ChunksSound
  OBVIOUS
<1>1. FeedInv => ChunksSound
  BY InvOlderAbove DEF FeedInv, FeedTyped, ChunksSound
<1>2. FeedSpec => []FeedInv
  BY FeedInvariant
<1> QED
  BY <1>1, <1>2, PTL

\* A reader finds the update that was current when it began, or a newer one
\* (findAt and resolveLatest), whatever is published while it looks.
THEOREM ReadersFindCurrent == ~Flaky => (FeedSpec => []ReadersFresh)
<1> SUFFICES ASSUME ~Flaky PROVE FeedSpec => []ReadersFresh
  OBVIOUS
<1>1. FeedInv => ReadersFresh
  BY DEF FeedInv
<1>2. FeedSpec => []FeedInv
  BY FeedInvariant
<1> QED
  BY <1>1, <1>2, PTL

\* No publication writes to an epoch that has an update: every update that Bee
\* took stays what it is (nextEpoch).
THEOREM UpdatesAreKept ==
  ~Flaky => (FeedSpec => [][\A e \in DOMAIN chunks : e \in DOMAIN chunks' /\ chunks'[e] = chunks[e]]_feedVars)
<1> SUFFICES ASSUME ~Flaky
             PROVE  FeedSpec => [][\A e \in DOMAIN chunks : e \in DOMAIN chunks' /\ chunks'[e] = chunks[e]]_feedVars
  OBVIOUS
<1>1. FeedInv /\ [FeedNext]_feedVars => [\A e \in DOMAIN chunks : e \in DOMAIN chunks' /\ chunks'[e] = chunks[e]]_feedVars
  <2> SUFFICES ASSUME FeedInv, FeedNext, NEW e \in DOMAIN chunks
               PROVE  e \in DOMAIN chunks' /\ chunks'[e] = chunks[e]
    OBVIOUS
  <2>1. CASE Post
    <3>1. pub.epoch # e
      BY <2>1 DEF Post, FeedInv, WalkKept
    <3> QED
      BY <2>1, <3>1 DEF Post
  <2>2. CASE ~Post
    BY <2>2 DEF FeedNext, Tick, Publish, ProbeFinds, ProbeMisses, Verify, PublishFails, Resolve, GoDown, GoLeft
  <2> QED
    BY <2>1, <2>2
<1>2. FeedSpec => []FeedInv
  BY FeedInvariant
<1> QED
  BY <1>1, <1>2, PTL DEF FeedSpec
==========================================================================
