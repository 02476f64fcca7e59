----------------------------- MODULE RefsState -----------------------------
(***************************************************************************)
(* data/latest-refs.json and the feeds: how the upload and publication     *)
(* commands announce what they uploaded (packages/era/src/refs-state.ts,   *)
(* publish-refs.ts, the ends of upload.ts, upload-pot.ts, upload-sqlite.ts *)
(* and explorer/src/publish-to-swarm.ts).                                  *)
(*                                                                         *)
(* An upload's reference is its number among the uploads of its kind.      *)
(***************************************************************************)
EXTENDS Integers, Sequences, FiniteSets

CONSTANTS
  Command,      \* places for commands that run at once
  MaxUploads,   \* bound: uploads of each kind
  MaxCommands   \* bound: commands that are started

ASSUME RefsStateAssumption == MaxUploads \in Nat \ {0} /\ MaxCommands \in Nat

VARIABLES
  refs,     \* the file: whether it is whole, and the reference under each key
  feed,     \* each feed's latest update, 0 before the first
  made,     \* uploads made of each kind
  command,  \* what each place runs, and how far it is
  begun,    \* commands started
  last,     \* history: what was last saved under each key
  smooth    \* history: no two saves overlapped, and none was cut short

refsVars == <<refs, feed, made, command, begun, last, smooth>>

Kinds   == {"manifest", "pot", "sqlite"}
Keys    == Kinds \cup {"publisher"}
NoRef   == 0
Nothing == [k \in Keys |-> NoRef]

\* The fields of `patch` that are defined, over those of `old`.
Over(patch, old) == [k \in Keys |-> IF patch[k] # NoRef THEN patch[k] ELSE old[k]]

Run(does, todo, patch) ==
  [does |-> does, at |-> "publish", todo |-> todo, patch |-> patch, saw |-> Nothing]
Idle == [Run("none", <<>>, Nothing) EXCEPT !.at = "off"]

Writing(c) == command[c].at \in {"writing", "mixing"}
Saving(c)  == command[c].at = "write" \/ Writing(c)
Quiet      == \A c \in Command : command[c] = Idle

LatestRefs == [Keys -> 0..MaxUploads]
CommandState ==
  [does : {"none", "manifest", "upload", "site", "refs"},
   at : {"off", "publish", "load", "write", "writing", "mixing"},
   todo : Seq(Kinds \X (1..MaxUploads)), patch : LatestRefs, saw : LatestRefs]

RefsTypeOK ==
  /\ refs \in [whole : BOOLEAN, holds : LatestRefs]
  /\ feed \in [Kinds -> 0..MaxUploads] /\ made \in [Kinds -> 0..MaxUploads]
  /\ begun \in 0..MaxCommands /\ last \in LatestRefs /\ smooth \in BOOLEAN
  /\ command \in [Command -> CommandState]

RefsInit ==
  /\ refs = [whole |-> TRUE, holds |-> Nothing]
  /\ feed = [k \in Kinds |-> NoRef] /\ made = [k \in Kinds |-> 0]
  /\ command = [c \in Command |-> Idle] /\ begun = 0
  /\ last = Nothing /\ smooth = TRUE

-----------------------------------------------------------------------------
\* loadLatestRefs: a file that is missing or cut short holds nothing.
LoadLatestRefs == IF refs.whole THEN refs.holds ELSE Nothing

Begin(c, run) ==
  /\ command[c] = Idle /\ begun < MaxCommands
  /\ command' = [command EXCEPT ![c] = run] /\ begun' = begun + 1

\* The end of an upload: its reference goes to the feed, and but for a
\* manifest to the file.
Upload(c, k) ==
  /\ made[k] < MaxUploads /\ made' = [made EXCEPT ![k] = @ + 1]
  /\ Begin(c, Run(IF k = "manifest" THEN "manifest" ELSE "upload", <<<<k, made'[k]>>>>,
                  IF k = "manifest" THEN Nothing ELSE [Nothing EXCEPT ![k] = made'[k]]))
  /\ UNCHANGED <<refs, feed, last, smooth>>

\* publish-to-swarm: the site's own feed is no epoch feed; only the publisher is
\* saved, when the signer's key is given.
PublishSite(c) ==
  /\ \E signer \in {NoRef, 1} :
       Begin(c, Run("site", <<>>, [Nothing EXCEPT !["publisher"] = signer]))
  /\ UNCHANGED <<refs, feed, made, last, smooth>>

\* publish-refs: every feed gets the reference given for it, or the file's.
Given == {Nothing} \cup {[Nothing EXCEPT ![k] = v] : k \in Kinds, v \in 1..MaxUploads}
Todo(all) ==
  LET with(k) == IF all[k] = NoRef THEN <<>> ELSE <<<<k, all[k]>>>>
  IN  with("manifest") \o with("pot") \o with("sqlite")

PublishRefs(c) ==
  \E given \in Given :
    LET todo == Todo(Over(given, LoadLatestRefs))
    IN  /\ todo # <<>> /\ \A k \in Kinds : given[k] <= made[k]
        /\ Begin(c, [Run("refs", todo, given) EXCEPT !.saw = LoadLatestRefs])
        /\ UNCHANGED <<refs, feed, made, last, smooth>>

\* tryPublishFeedUpdate: an update that fails is reported and passed over; one
\* that could not be read back may be in the feed all the same.
PublishFeed(c) ==
  /\ command[c].at = "publish" /\ command[c].todo # <<>>
  /\ LET next == Head(command[c].todo)
     IN  \E ok, written \in BOOLEAN :
           /\ ok => written
           /\ feed' = IF written THEN [feed EXCEPT ![next[1]] = next[2]] ELSE feed
           /\ command' = [command EXCEPT
                ![c].todo = Tail(@), ![c].patch["publisher"] = IF ok THEN 1 ELSE @]
  /\ UNCHANGED <<refs, made, begun, last, smooth>>

\* A manifest's upload saves nothing; nor does publish-refs when nothing was
\* given and no update succeeded.
Published(c) ==
  /\ command[c].at = "publish" /\ command[c].todo = <<>>
  /\ LET saves == \/ command[c].does \in {"upload", "site"}
                  \/ command[c].does = "refs" /\ command[c].patch # Nothing
     IN  command' = [command EXCEPT ![c] = IF saves THEN [@ EXCEPT !.at = "load"] ELSE Idle]
  /\ UNCHANGED <<refs, feed, made, begun, last, smooth>>

-----------------------------------------------------------------------------
\* saveLatestRefs
\* Mutant: what publish-refs loaded when it began is what it saves again.
LoadOnce(c) ==
  /\ command[c].at = "load"
  /\ command' = [command EXCEPT ![c].at = "write",
                   ![c].saw = IF command[c].does = "refs" THEN @ ELSE LoadLatestRefs]
  /\ smooth' = (smooth /\ \A d \in Command \ {c} : ~Saving(d))
  /\ UNCHANGED <<refs, feed, made, begun, last>>

Load(c) ==
  /\ command[c].at = "load"
  /\ command' = [command EXCEPT ![c].at = "write", ![c].saw = LoadLatestRefs]
  /\ smooth' = (smooth /\ \A d \in Command \ {c} : ~Saving(d))
  /\ UNCHANGED <<refs, feed, made, begun, last>>

\* writeFile empties the file and then fills it.  Bytes of two that do so at once
\* leave either's file, or neither's.
StartWrite(c) ==
  /\ command[c].at = "write" /\ refs' = [refs EXCEPT !.whole = FALSE]
  /\ LET writers == {d \in Command : d = c \/ Writing(d)}
     IN  command' = [d \in Command |->
           IF d \notin writers THEN command[d]
           ELSE [command[d] EXCEPT !.at = IF writers = {c} THEN "writing" ELSE "mixing"]]
  /\ UNCHANGED <<feed, made, begun, last, smooth>>

EndWrite(c) ==
  /\ Writing(c)
  /\ \E whole \in {TRUE, command[c].at = "writing"} :
       refs' = [whole |-> whole, holds |-> Over(command[c].patch, command[c].saw)]
  /\ command' = [command EXCEPT ![c] = Idle] /\ last' = Over(command[c].patch, last)
  /\ UNCHANGED <<feed, made, begun, smooth>>

Die(c) ==
  /\ command[c] # Idle /\ command' = [command EXCEPT ![c] = Idle]
  /\ smooth' = (smooth /\ ~Writing(c))
  /\ UNCHANGED <<refs, feed, made, begun, last>>

CommandNext ==
  \E c \in Command :
    \/ \E k \in Kinds : Upload(c, k)
    \/ PublishSite(c) \/ PublishRefs(c)
    \/ PublishFeed(c) \/ Published(c)
    \/ Load(c) \/ StartWrite(c) \/ EndWrite(c) \/ Die(c)

-----------------------------------------------------------------------------
\* No command undoes another's save: while no two saves overlapped and none was
\* cut short, the file holds under every key what was saved there last, by
\* whichever command, in whatever order they began and ended.  (saveLatestRefs
\* reads the file anew each time, and a patch names its own keys only.)
RefsKept == smooth /\ (\A c \in Command : ~Writing(c)) =>
              refs = [whole |-> TRUE, holds |-> last]

\* The inductive invariant behind it: while no two saves overlapped there is one
\* command that saves, at most, and what it read is what was saved last.
SavesKept ==
  smooth =>
    /\ \A c, d \in Command : Saving(c) /\ Saving(d) => c = d
    /\ \A c \in Command : command[c].at # "mixing" /\ (Saving(c) => command[c].saw = last)
    /\ (\A c \in Command : ~Writing(c)) => refs = [whole |-> TRUE, holds |-> last]

=============================================================================
