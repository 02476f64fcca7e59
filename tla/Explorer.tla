------------------------------ MODULE Explorer ------------------------------
(***************************************************************************)
(* The block explorer in one browser tab (packages/explorer/src): the      *)
(* settings and their copy in localStorage, the feed lookups that update   *)
(* them, and the pages that load anew whenever they change.                *)
(*                                                                         *)
(* A reference is the number of the upload it came from; in a trie's field *)
(* the envelope's own reference is the negated number.  Upload v holds the *)
(* keys 1 to v.  Effects run before anything else does: they are part of   *)
(* the step that changed what they read.                                   *)
(***************************************************************************)
EXTENDS RefsState

CONSTANTS
  Source,        \* sources the user selects
  Page,          \* pages the user opens
  TxHashes,      \* keys whose hash is a transaction's, and not a block's
  OldEnvelopes,  \* uploads whose envelope names neither accounts nor a summary
  MaxActions     \* bound: what the user does

Key == 1..MaxUploads

ASSUME ExplorerAssumption ==
  Source \subseteq Kinds /\ MaxActions \in Nat /\ TxHashes \subseteq Key /\ OldEnvelopes \subseteq Key
  /\ Page \subseteq {"home", "block", "tx", "address", "lookup"}

VARIABLES
  open,      \* whether the tab is open
  build,     \* the references vite wrote into the site
  settings,
  storage,   \* localStorage: the keys it has and their values
  resolves,  \* lookups under way: the feed's, or the envelope's
  route,     \* the page that is shown
  view,      \* what it shows
  loads,     \* the page's requests under way
  actions,   \* what the user did
  calm       \* history: no load of this page began while another was under way

tab  == <<open, build, settings, storage, resolves, route, view, loads, actions, calm>>
vars == <<refsVars, tab>>

PotFields == {"byNumber", "byHash", "byTx", "byAddress", "byBalanceBlock", "meta"}
SavedKeys == {"useFeed", "source", "publisher", "manifest", "sqlite"} \cup PotFields

At(page, index, key) == [page |-> page, index |-> index, key |-> key]
Route == {r \in {At("home", "number", 0)}
                \cup {At(i[1], i[2], k) : k \in Key,
                        i \in {<<"block", "number">>, <<"block", "hash">>, <<"tx", "tx">>,
                               <<"address", "address">>, <<"lookup", "hash">>}} : r.page \in Page}

Slot    == {1, 2}
NoLookup == [at |-> "off", source |-> "none", ref |-> NoRef, by |-> "none"]
NoRoute  == At("none", "number", 0)
NoLoad   == [at |-> "off", route |-> NoRoute, source |-> "none", ref |-> NoRef, tx |-> NoRef,
             cancelled |-> FALSE]
\* What was read, and whence.
Unread   == [source |-> "none", ref |-> NoRef, key |-> 0]
NewView  == [meta |-> Unread, item |-> Unread, error |-> FALSE, loading |-> FALSE]

Reference == -MaxUploads..MaxUploads
\* What is saved under a key.
Saved(k) ==
  CASE k = "useFeed"   -> BOOLEAN
    [] k = "source"    -> Kinds
    [] k = "publisher" -> 0..MaxUploads
    [] OTHER           -> Reference

From == Kinds \cup {"none"}
Locations ==
  [page : {"none", "home", "block", "tx", "address", "lookup"},
   index : {"number", "hash", "tx", "address"}, key : 0..MaxUploads]
LookupState ==
  [at : {"off", "feed", "envelope"}, source : From, ref : 0..MaxUploads,
   by : {"none", "effect", "submit", "hydrate"}]
LoadState ==
  [at : {"off", "meta", "item", "probe"}, route : Locations, source : From, ref : Reference,
   tx : Reference, cancelled : BOOLEAN]
Seen == [source : From, ref : Reference, key : 0..MaxUploads]

TabTypeOK ==
  /\ open \in BOOLEAN /\ calm \in BOOLEAN /\ actions \in 0..MaxActions
  /\ build \in LatestRefs /\ route \in Locations
  /\ DOMAIN settings = SavedKeys /\ DOMAIN storage \subseteq SavedKeys
  /\ \A k \in SavedKeys : settings[k] \in Saved(k)
  /\ \A k \in DOMAIN storage : storage[k] \in Saved(k)
  /\ resolves \in [Slot -> LookupState] /\ loads \in [Slot -> LoadState]
  /\ view \in [meta : Seen, item : Seen, error : BOOLEAN, loading : BOOLEAN]

TypeOK == RefsTypeOK /\ TabTypeOK

-----------------------------------------------------------------------------
(* Settings.                                                               *)

EnvelopeRef(v) == -v
\* The manifest named in vite.config.ts, of before all these uploads.
FirstManifest == -1

\* The site's own defaults: of a trie's references only the envelope's is known,
\* and it stands in the place of the first.
Default(b) ==
  [k \in SavedKeys |->
     CASE k = "useFeed" -> FALSE
       [] k = "source" -> "manifest"
       [] k = "byNumber" -> EnvelopeRef(b["pot"])
       [] k = "manifest" /\ b[k] = NoRef -> FirstManifest
       [] k \in {"publisher", "manifest", "sqlite"} -> b[k]
       [] OTHER -> NoRef]

\* The fields of `new`, over those of `old` that it lacks.
With(new, old) ==
  [k \in DOMAIN new \cup DOMAIN old |-> IF k \in DOMAIN new THEN new[k] ELSE old[k]]

HasSource(st) ==
  CASE st["source"] = "manifest" -> st["manifest"] # NoRef
    [] st["source"] = "sqlite"   -> st["sqlite"] # NoRef
    [] OTHER                     -> st["byNumber"] # NoRef /\ st["byHash"] # NoRef

\* The reference a page of this index reads.
RefFor(st, index) ==
  CASE st["source"] \in {"manifest", "sqlite"} -> st[st["source"]]
    [] index = "meta"    -> st["meta"]
    [] index = "number"  -> st["byNumber"]
    [] index = "hash"    -> st["byHash"]
    [] index = "tx"      -> st["byTx"]
    [] index = "address" -> st["byAddress"]
HasIndex(st, index) == index \in {"tx", "address"} => RefFor(st, index) # NoRef

\* fetchPotEnvelope
Envelope(v) ==
  [f \in PotFields |-> IF v \in OldEnvelopes /\ f \in {"byAddress", "byBalanceBlock", "meta"}
                       THEN NoRef ELSE v]

-----------------------------------------------------------------------------
(* Effects: what runs again when the settings or the route are `st`, `r`.  *)

Free(slots) == {s \in Slot : slots[s].at = "off"}
\* A first free slot takes the new request.
Put(slots, new) ==
  [slots EXCEPT ![CHOOSE s \in Free(slots) : \A t \in Free(slots) : s <= t] = new]

Lookup(st, by) == [at |-> "feed", source |-> st["source"], ref |-> NoRef, by |-> by]
Follows(st)    == st["useFeed"] /\ st["publisher"] # NoRef

\* The layout's effect looks the feed up again when what it read changed.
Refollows(st) ==
  Follows(st) /\ \E k \in {"useFeed", "publisher", "source"} : st[k] # settings[k]
FollowFeed(st, lookups) ==
  IF Refollows(st) THEN Put(lookups, Lookup(st, "effect")) ELSE lookups

\* What the effect of the page that is shown read: the references it names, and
\* those of the source it loaded from.
PageReads ==
  {"source"}
    \cup (CASE route.page = "home"    -> {"manifest", "byNumber", "meta", "sqlite"}
            [] route.page = "block"   -> {"manifest", "byNumber", "byHash"}
            [] route.page = "tx"      -> {"manifest", "byTx"}
            [] route.page = "address" -> {"manifest"}
            [] OTHER                  -> {})
    \cup (IF settings["source"] = "pot" THEN PotFields \ {"meta"} ELSE {settings["source"]})

\* Mutant: nothing is cancelled while the page stays.
StaleLeft(slots, stays) ==
  [s \in Slot |-> IF slots[s].at # "off" /\ ~stays
                  THEN [slots[s] EXCEPT !.cancelled = TRUE] ELSE slots[s]]

\* The requests of a page whose effect runs again, or that is left.  Those of
\* the home page are cancelled; those of the others learn nothing while the page
\* stays.
Stale(slots, stays) ==
  [s \in Slot |-> IF slots[s].at # "off" /\ (route.page = "home" \/ ~stays)
                  THEN [slots[s] EXCEPT !.cancelled = TRUE] ELSE slots[s]]

Request(st, r, at, index) ==
  [at |-> at, route |-> r, source |-> st["source"], ref |-> RefFor(st, index),
   tx |-> RefFor(st, "tx"), cancelled |-> FALSE]

\* The home page's effect.
LoadHome(st, r, slots, shown) ==
  /\ view' = [NewView EXCEPT !.loading = shown.loading]
  /\ loads' = IF HasSource(st) THEN Put(slots, Request(st, r, "meta", "meta")) ELSE slots

\* resolve() of the lookup page.
LoadLookup(st, r, slots, shown) ==
  /\ view' = [shown EXCEPT !.error = ~HasSource(st)]
  /\ loads' = IF HasSource(st) THEN Put(slots, Request(st, r, "probe", "hash")) ELSE slots

\* load() of the pages of a block, a transaction and an account, which leave what
\* they show when they cannot load.
LoadItem(st, r, slots, shown) ==
  IF HasSource(st) /\ HasIndex(st, r.index)
  THEN /\ view' = [NewView EXCEPT !.loading = TRUE]
       /\ loads' = Put(slots, Request(st, r, "item", r.index))
  ELSE /\ view' = [shown EXCEPT !.error = TRUE] /\ loads' = slots

LoadPage(st, r, slots, shown) ==
  CASE r.page = "home"   -> LoadHome(st, r, slots, shown)
    [] r.page = "lookup" -> LoadLookup(st, r, slots, shown)
    [] OTHER             -> LoadItem(st, r, slots, shown)

\* Whether a request that may still change the page is among them.
Pending(slots) == \E s \in Slot : slots[s].at # "off" /\ ~slots[s].cancelled

\* The settings become `st`, and the effects that read them run.
Change(st, lookups) ==
  /\ settings' = st /\ resolves' = FollowFeed(st, lookups)
  /\ IF \E k \in PageReads : st[k] # settings[k]
     THEN /\ Free(loads) # {} /\ LoadPage(st, route, Stale(loads, TRUE), view)
          /\ calm' = (calm /\ (Pending(loads) => route.page = "home"))
     ELSE UNCHANGED <<loads, view, calm>>

\* goto
Go(r, slots) ==
  /\ Free(slots) # {} /\ route' = r
  /\ LET stays == r.page = route.page
     IN  /\ LoadPage(settings, r, Stale(slots, stays), IF stays THEN view ELSE NewView)
         /\ calm' = (stays => calm /\ (Pending(slots) => r.page = "home"))

-----------------------------------------------------------------------------
(* What the user does.                                                     *)

Act == open /\ actions < MaxActions /\ actions' = actions + 1

\* A tab shows the site with the settings that are stored.
Show(b, known, r) ==
  LET st == With(known, Default(b))
      none == [s \in Slot |-> NoLookup]
  IN /\ settings' = st /\ route' = r /\ calm' = TRUE
     /\ resolves' = IF Follows(st) THEN Put(none, Lookup(st, "effect")) ELSE none
     /\ LoadPage(st, r, [s \in Slot |-> NoLoad], NewView)

\* vite reads the file when it builds the site, and fails on one that is cut
\* short.  The histories of the commands end here.  Bound: uploads for the other
\* sources do not come before.
OpenTab ==
  /\ ~open /\ Quiet /\ refs.whole /\ open' = TRUE
  /\ \A k \in Kinds \ Source : made[k] = 0
  /\ build' = refs.holds /\ storage' = [k \in {} |-> NoRef]
  /\ \E r \in Route : Show(build', storage', r)
  /\ begun' = MaxCommands /\ last' = Nothing /\ smooth' = FALSE
  /\ UNCHANGED <<refs, feed, made, command, actions>>

Reload ==
  /\ Act /\ Show(build, storage, route)
  /\ UNCHANGED <<refsVars, open, build, storage>>

Navigate ==
  /\ Act /\ \E r \in Route \ {route} : Go(r, loads)
  /\ UNCHANGED <<refsVars, open, build, settings, storage, resolves>>

\* The settings, with what is in the form.
Chosen(source, follow, publisher, manifest) ==
  [settings EXCEPT !["source"] = source, !["useFeed"] = follow,
                   !["publisher"] = publisher, !["manifest"] = manifest]

\* submitSettings: the button is off while the lookup of an earlier one is under
\* way.
Submit ==
  /\ Act /\ \A s \in Slot : resolves[s].by # "submit"
  /\ \E source \in Source, follow \in BOOLEAN, publisher \in {settings["publisher"], 1},
        manifest \in {settings["manifest"], made["manifest"]} :
       LET st == Chosen(source, follow, publisher, manifest)
       IN /\ storage' = st
          /\ Follows(st) => Cardinality(Free(resolves)) >= IF Refollows(st) THEN 2 ELSE 1
          /\ Change(st, IF Follows(st) THEN Put(resolves, Lookup(st, "submit")) ELSE resolves)
  /\ UNCHANGED <<refsVars, open, build, route>>

\* hydrateEnvelope, of the envelope of any upload
Hydrate ==
  /\ Act /\ Free(resolves) # {} /\ \A s \in Slot : resolves[s].by # "hydrate"
  /\ \E v \in 1..made["pot"] : resolves' = Put(resolves,
       [at |-> "envelope", source |-> "pot", ref |-> v, by |-> "hydrate"])
  /\ UNCHANGED <<refsVars, open, build, settings, storage, route, view, loads, calm>>

\* The publisher's other machine uploads while the tab is open.
Announce ==
  /\ open
  /\ \E k \in Source : /\ made[k] < MaxUploads /\ made' = [made EXCEPT ![k] = @ + 1]
                       /\ feed' = [feed EXCEPT ![k] = made'[k]]
  /\ UNCHANGED <<refs, command, begun, last, smooth, tab>>

-----------------------------------------------------------------------------
(* Answers.  Every request may also fail.                                  *)

LookupFails(s) ==
  /\ resolves[s].at # "off" /\ resolves' = [resolves EXCEPT ![s] = NoLookup]
  /\ UNCHANGED <<refsVars, open, build, settings, storage, route, view, loads, actions, calm>>

\* resolveLatest and resolveActiveSourceFromFeed: what was found goes under the
\* source it was looked up for.
FeedAnswer(s) ==
  /\ resolves[s].at = "feed" /\ feed[resolves[s].source] # NoRef
  /\ LET k == resolves[s].source
         found == [f \in {k} |-> feed[k]]
     IN IF k = "pot"
        THEN /\ resolves' = [resolves EXCEPT ![s].at = "envelope", ![s].ref = feed[k]]
             /\ UNCHANGED <<settings, storage, view, loads, calm>>
        ELSE /\ Change(With(found, settings), [resolves EXCEPT ![s] = NoLookup])
             /\ storage' = With(found, storage)
  /\ UNCHANGED <<refsVars, open, build, route, actions>>

\* Mutant: what the envelope does not name is left as it was.
EnvelopeAnswerNamed(s) ==
  /\ resolves[s].at = "envelope"
  /\ LET all   == Envelope(resolves[s].ref)
         found == [f \in {g \in PotFields : all[g] # NoRef} |-> all[f]]
     IN /\ Change(With(found, settings), [resolves EXCEPT ![s] = NoLookup])
        /\ storage' = With(found, storage)
  /\ UNCHANGED <<refsVars, open, build, route, actions>>

\* hydratePotFromEnvelope, and the end of a lookup of the trie's feed
EnvelopeAnswer(s) ==
  /\ resolves[s].at = "envelope"
  /\ LET found == Envelope(resolves[s].ref)
     IN /\ Change(With(found, settings), [resolves EXCEPT ![s] = NoLookup])
        /\ storage' = With(found, storage)
  /\ UNCHANGED <<refsVars, open, build, route, actions>>

\* What the upload a request reads holds of its key.
Holds(load, index) ==
  load.route.key \in 1..load.ref /\ (index = "hash" => load.route.key \notin TxHashes)
                                /\ (index = "tx" => load.route.key \in TxHashes)
Read(load) == [source |-> load.source, ref |-> load.ref, key |-> load.route.key]

\* fetchMeta: a summary that cannot be read counts as an empty one.  The latest
\* blocks are then asked for, from the settings as they are by now.
MetaAnswer(s) ==
  /\ loads[s].at = "meta"
  /\ IF loads[s].cancelled
     THEN loads' = [loads EXCEPT ![s] = NoLoad] /\ UNCHANGED view
     ELSE /\ view' = [view EXCEPT !.meta = Read(loads[s]), !.loading = TRUE]
          /\ loads' = [loads EXCEPT ![s].at = "item", ![s].source = settings["source"],
                                    ![s].ref = RefFor(settings, "number")]
  /\ UNCHANGED <<refsVars, open, build, settings, storage, resolves, route, actions, calm>>

\* The latest blocks of the home page, or the block, transaction or account.
ItemAnswer(s) ==
  /\ loads[s].at = "item" /\ loads' = [loads EXCEPT ![s] = NoLoad]
  /\ LET load == loads[s]
         holds == load.route.page = "home" \/ Holds(load, load.route.index)
     IN IF load.cancelled THEN UNCHANGED view
        ELSE \E ok \in {FALSE, holds} :
               view' = [view EXCEPT !.loading = FALSE, !.error = @ \/ ~ok,
                                    !.item = IF ok THEN Read(load) ELSE @]
  /\ UNCHANGED <<refsVars, open, build, settings, storage, resolves, route, actions, calm>>

\* The lookup page goes on to where the hash was found; by then the hash is that
\* of the page, and the page may have been left.
ProbeAnswer(s) ==
  /\ loads[s].at = "probe"
  /\ LET load == loads[s]
         rest == [loads EXCEPT ![s] = NoLoad]
     IN \/ \E page \in {"block", "tx"} :
             LET index == IF page = "block" THEN "hash" ELSE "tx"
                 key   == IF load.cancelled THEN load.route.key ELSE route.key
                 r     == At(page, index, key)
             IN /\ Holds([load EXCEPT !.ref = IF page = "tx" THEN load.tx ELSE @], index)
                /\ IF r = route THEN loads' = rest /\ UNCHANGED <<route, view, calm>>
                   ELSE Go(r, rest)
        \/ /\ loads' = rest /\ UNCHANGED <<route, calm>>
           /\ view' = IF load.cancelled THEN view ELSE [view EXCEPT !.error = TRUE]
  /\ UNCHANGED <<refsVars, open, build, settings, storage, resolves, actions>>

-----------------------------------------------------------------------------
Init ==
  /\ RefsInit /\ open = FALSE /\ build = Nothing
  /\ settings = Default(Nothing) /\ storage = [k \in {} |-> NoRef]
  /\ resolves = [s \in Slot |-> NoLookup] /\ loads = [s \in Slot |-> NoLoad]
  /\ route = NoRoute /\ view = NewView /\ actions = 0 /\ calm = TRUE

UserNext == Reload \/ Navigate \/ Submit \/ Hydrate

AnswerNext ==
  \E s \in Slot :
    \/ LookupFails(s) \/ FeedAnswer(s) \/ EnvelopeAnswer(s)
    \/ MetaAnswer(s) \/ ItemAnswer(s) \/ ProbeAnswer(s)

Next ==
  \/ ~open /\ CommandNext /\ UNCHANGED tab
  \/ OpenTab \/ UserNext \/ Announce \/ AnswerNext

Spec == Init /\ [][Next]_vars

-----------------------------------------------------------------------------
(* Properties.                                                             *)

\* The references of the trie's five indexes and of their summary are of one
\* upload, in the settings as in what is stored of them: whichever lookups and
\* envelopes land, in whatever order, over what the site was built with, and
\* across reloads.
PotTogether ==
  open => \A st \in {settings, With(storage, Default(build))} :
    st["byHash"] # NoRef => \E v \in Key : \A f \in PotFields : st[f] = Envelope(v)[f]

Shown(index) == [source |-> settings["source"], ref |-> RefFor(settings, index), key |-> route.key]

\* The home page never shows the summary or the blocks of another source than the
\* settings name now, however late the answers for an earlier one.
HomeFresh ==
  route.page = "home" =>
    view.meta \in {Unread, Shown("meta")} /\ view.item \in {Unread, Shown("number")}

\* A page of a block, a transaction or an account that has loaded shows the one
\* it is about, as of the source of the settings, unless one of its loads began
\* before the one before it ended.
ItemFresh ==
  route.page \in {"block", "tx", "address"} /\ calm /\ ~view.loading /\ ~view.error =>
    view.item = Shown(route.index)

\* What pages show was read under the settings there are.
PagesFresh == HomeFresh /\ ItemFresh

\* Every page shows what the settings name now (the effects of the pages and what
\* they await: HomeFresh for the home page, ItemFresh for the others), of what
\* requests and lookups can bring.
PagesSound == TypeOK /\ PagesFresh

\* The inductive invariant behind them.  What a lookup found is an upload.
LookupsKept ==
  \A s \in Slot : /\ resolves[s].at = "feed" => resolves[s].source \in Kinds
                  /\ resolves[s].at = "envelope" => resolves[s].ref \in Key

\* What may still change the page is of this page, and of the settings as they
\* are: on the home page always, on the others while the page is calm.
Live(s) == loads[s].at # "off" /\ ~loads[s].cancelled
LoadsKept ==
  \A s \in Slot : Live(s) =>
    /\ loads[s].route.page = route.page
    /\ loads[s].at = "meta" => route.page = "home" /\ Read(loads[s]) = Shown("meta")
    /\ loads[s].at = "item" =>
         /\ route.page # "lookup"
         /\ route.page = "home" => Read(loads[s]) = Shown("number")
         /\ route.page # "home" /\ calm => Read(loads[s]) = Shown(route.index)
    /\ loads[s].at = "probe" => route.page = "lookup"

ExplorerInv == TypeOK /\ SavesKept /\ LookupsKept /\ LoadsKept /\ PotTogether /\ PagesFresh
=============================================================================
