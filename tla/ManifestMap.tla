----------------------------- MODULE ManifestMap -----------------------------
(***************************************************************************)
(* What a manifest of mantaray-stream promises (index.ts:1-11): a map that *)
(* is extended, saved, and opened again as it was saved.  Which nodes are  *)
(* in memory, and what fails on the way, does not show.                    *)
(***************************************************************************)
CONSTANTS Path, Value

VARIABLES
  map,    \* the entries that were added
  stored  \* the map that was saved last, in a singleton; empty before the first save

vars == <<map, stored>>

Init ==
  /\ map = [p \in {} |-> {}]
  /\ stored = {}

Add(p, v) ==
  /\ map' = [q \in DOMAIN map \cup {p} |-> IF q = p THEN v ELSE map[q]]
  /\ UNCHANGED stored

Save ==
  /\ stored' = {map}
  /\ UNCHANGED map

Reopen ==
  /\ map' \in stored
  /\ UNCHANGED stored

Next ==
  \/ \E p \in Path, v \in Value : Add(p, v)
  \/ Save
  \/ Reopen

Spec == Init /\ [][Next]_vars
=============================================================================
