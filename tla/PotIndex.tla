------------------------------ MODULE PotIndex ------------------------------
(***************************************************************************)
(* Concurrent calls on an Index over a SwarmPot (packages/pot/src:         *)
(* index.ts, mutex.ts, elements/swarm-pot.ts).                             *)
(*                                                                         *)
(* Updates wait for the write mutex and do I/O while they hold it: they    *)
(* unpack nodes, and pack the new root.  Both may fail.  The new root      *)
(* becomes the root of the SwarmPot first and that of the Index a turn     *)
(* later.  save() does not take the mutex.                                 *)
(*                                                                         *)
(* What a trie contains is the business of Pot.  Here a root is the list   *)
(* of the updates that made it, and whether it is empty.                   *)
(***************************************************************************)
EXTENDS Naturals, Sequences

CONSTANTS
  Update,  \* calls of Index.update()
  Save     \* calls of Index.save()

ASSUME PotIndexAssumption == Update \cap Save = {}

VARIABLES
  pc,        \* where each call is
  chain,     \* updates in the mutex: its holder, then those awaiting `previous`
  base,      \* the root an update was computed from
  fresh,     \* the root it is about to install
  root,      \* Index.root
  modeRoot,  \* SwarmPot.root
  closed,    \* Index.closed
  before,    \* the changes made when a save was called
  saved      \* the root whose reference a save returned

vars == <<pc, chain, base, fresh, root, modeRoot, closed, before, saved>>

Root    == [log : Seq(Update), empty : BOOLEAN]
NoRoot  == [log |-> <<>>, empty |-> TRUE]
Holding == {"computing", "switching"}
InMutex == {"waiting"} \cup Holding
Ended   == {"changed", "unchanged", "failed", "rejected", "saved"}

Elements(s) == {s[i] : i \in DOMAIN s}
Changes     == {u \in Update : pc[u] = "changed"}

TypeOK ==
  /\ pc \in [Update \cup Save -> {"idle", "saving"} \cup InMutex \cup Ended]
  /\ chain \in Seq({u \in Update : pc[u] \in InMutex})
  /\ base \in [Update -> Root]
  /\ fresh \in [Update -> Root]
  /\ root \in Root
  /\ modeRoot \in Root
  /\ closed \in BOOLEAN
  /\ before \in [Save -> SUBSET Update]
  /\ saved \in [Save -> Root]

\* create() or fromReference()
Init ==
  /\ pc = [c \in Update \cup Save |-> "idle"]
  /\ chain = <<>>
  /\ base = [u \in Update |-> NoRoot]
  /\ fresh = [u \in Update |-> NoRoot]
  /\ \E e \in BOOLEAN : root = [log |-> <<>>, empty |-> e]
  /\ modeRoot = root
  /\ closed = FALSE
  /\ before = [s \in Save |-> {}]
  /\ saved = [s \in Save |-> NoRoot]

Moves(c, to) == pc' = [pc EXCEPT ![c] = to]

-----------------------------------------------------------------------------
(* update().                                                               *)

\* Up to the await in Mutex.run().
CallUpdate(u) ==
  /\ pc[u] = "idle"
  /\ IF closed
     THEN Moves(u, "rejected") /\ UNCHANGED chain
     ELSE Moves(u, "waiting") /\ chain' = Append(chain, u)
  /\ UNCHANGED <<base, fresh, root, modeRoot, closed, before, saved>>

\* Mutant: whoever is in the mutex may go on.
Turn(u) == u \in Elements(chain)

\* The promise of the predecessor is resolved.
MyTurn(u) == chain # <<>> /\ Head(chain) = u

\* fn() starts: it reads this.root.
Enter(u) ==
  /\ pc[u] = "waiting"
  /\ MyTurn(u)
  /\ Moves(u, "computing")
  /\ base' = [base EXCEPT ![u] = root]
  /\ UNCHANGED <<chain, fresh, root, modeRoot, closed, before, saved>>

\* release() wakes the next in the chain.
Release == chain' = Tail(chain)

\* There is nothing to change.
FindUnchanged(u) ==
  /\ pc[u] = "computing"
  /\ Moves(u, "unchanged")
  /\ Release
  /\ UNCHANGED <<base, fresh, root, modeRoot, closed, before, saved>>

\* Mutant: a failure does not release the mutex.
FailHolding(u) ==
  /\ pc[u] = "computing"
  /\ Moves(u, "failed")
  /\ UNCHANGED <<chain, base, fresh, root, modeRoot, closed, before, saved>>

\* Loading a node, or packing the new root, fails: the roots stay.
Fail(u) ==
  /\ pc[u] = "computing"
  /\ Moves(u, "failed")
  /\ Release
  /\ UNCHANGED <<base, fresh, root, modeRoot, closed, before, saved>>

\* Mutant: SwarmPot.root is left for save() to find out about.
PackedNotSet(u) ==
  /\ pc[u] = "computing"
  /\ \E e \in BOOLEAN :
       fresh' = [fresh EXCEPT ![u] = [log |-> Append(base[u].log, u), empty |-> e]]
  /\ UNCHANGED modeRoot
  /\ Moves(u, "switching")
  /\ UNCHANGED <<chain, base, root, closed, before, saved>>

\* The new root is packed and becomes the root of the SwarmPot.
Pack(u) ==
  /\ pc[u] = "computing"
  /\ \E e \in BOOLEAN :
       LET new == [log |-> Append(base[u].log, u), empty |-> e]
       IN  fresh' = [fresh EXCEPT ![u] = new] /\ modeRoot' = new
  /\ Moves(u, "switching")
  /\ UNCHANGED <<chain, base, root, closed, before, saved>>

\* A turn later it becomes the root of the Index.
Switch(u) ==
  /\ pc[u] = "switching"
  /\ root' = fresh[u]
  /\ Moves(u, "changed")
  /\ Release
  /\ UNCHANGED <<base, fresh, modeRoot, closed, before, saved>>

-----------------------------------------------------------------------------
(* save() and close().                                                     *)

\* Every root that is not empty has its reference already: it was loaded, or
\* packed by the update that made it.  An empty one is an error.
CallSave(s) ==
  /\ pc[s] = "idle"
  /\ Moves(s, IF closed \/ root.empty \/ modeRoot.empty THEN "rejected" ELSE "saving")
  /\ before' = [before EXCEPT ![s] = Changes]
  /\ UNCHANGED <<chain, base, fresh, root, modeRoot, closed, saved>>

\* After the await, save() asks the root of that moment for its reference.
ReturnReference(s) ==
  /\ pc[s] = "saving"
  /\ IF modeRoot.empty
     THEN Moves(s, "rejected") /\ UNCHANGED saved
     ELSE Moves(s, "saved") /\ saved' = [saved EXCEPT ![s] = modeRoot]
  /\ UNCHANGED <<chain, base, fresh, root, modeRoot, closed, before>>

\* Updates that are in the mutex go on.
Close ==
  /\ ~closed
  /\ closed' = TRUE
  /\ UNCHANGED <<pc, chain, base, fresh, root, modeRoot, before, saved>>

-----------------------------------------------------------------------------
Step(u) == Enter(u) \/ FindUnchanged(u) \/ Fail(u) \/ Pack(u) \/ Switch(u)

Next ==
  \/ \E u \in Update : CallUpdate(u) \/ Step(u)
  \/ \E s \in Save : CallSave(s) \/ ReturnReference(s)
  \/ Close

Spec == Init /\ [][Next]_vars

\* I/O ends, well or not, and continuations run.
Fairness ==
  /\ \A u \in Update : WF_vars(Step(u))
  /\ \A s \in Save : WF_vars(ReturnReference(s))

FairSpec == Spec /\ Fairness

-----------------------------------------------------------------------------
(* Properties.                                                             *)

\* The root reflects every update that was reported as done and no other one:
\* no update is computed from a root another one is about to replace, and one
\* that fails leaves nothing behind (index.ts:7-10).
NoUpdateLost == Elements(root.log) = Changes

\* Readers of the Index and save() see the same trie, except in the turn
\* between the two assignments of an update.
RootsAgree == (\A u \in Update : pc[u] # "switching") => modeRoot = root

\* A reference returned by save() stands for a trie with every update that was
\* done when save() was called.
SaveIsFresh == \A s \in Save : pc[s] = "saved" => before[s] \subseteq Elements(saved[s].log)

\* Updates are made one after the other: a step that changes the root adds
\* one update behind those that made it.
OneAtATime ==
  [][root' # root => \E u \in Update : root'.log = Append(root.log, u) /\ u \notin Elements(root.log)]_vars

\* No update is stuck in the mutex, though others may fail in it.
EveryUpdateEnds == \A u \in Update : pc[u] = "waiting" ~> pc[u] \in Ended

-----------------------------------------------------------------------------
(* Inductive invariant.                                                    *)

\* The mutex holds each update under way once, and only its head has started.
MutexInv ==
  /\ {u \in Update : pc[u] \in InMutex} \subseteq Elements(chain)
  /\ \A i, j \in DOMAIN chain : chain[i] = chain[j] => i = j
  /\ \A u \in Update : pc[u] \in Holding => u = Head(chain)

\* An update under way starts from the root, which stays until it is done.
BaseIsRoot == \A u \in Update : pc[u] \in Holding => base[u] = root

\* What an update is about to install is the root with its own change.
FreshIsNext ==
  \A u \in Update : pc[u] = "switching" =>
    /\ fresh[u].log = Append(root.log, u)
    /\ modeRoot = fresh[u]

\* What was done when a save was called stays done.
BeforeIsDone == \A s \in Save : pc[s] \in {"saving", "saved"} => before[s] \subseteq Changes

IndexInv ==
  /\ TypeOK
  /\ MutexInv
  /\ BaseIsRoot
  /\ FreshIsNext
  /\ BeforeIsDone
  /\ NoUpdateLost
  /\ RootsAgree
  /\ SaveIsFresh
=============================================================================
