---------------------------- MODULE MemoryStorage ----------------------------
(* The flag storage of libs/shared/flagd-core (storage.ts).  A flag set maps *)
(* the keys of its flags to their definitions; two definitions with the same *)
(* hash (feature-flag.ts takes a SHA-1 of the definition, with the metadata  *)
(* of its set merged in) are the same definition here.                       *)

(* The flag sets over some keys and definitions.                             *)
FlagSets(K, D) == UNION {[S -> D] : S \in SUBSET K}

(* The three lists of keys setConfigurations collects.                       *)
added(old, new) == DOMAIN new \ DOMAIN old
removed(old, new) == DOMAIN old \ DOMAIN new
changed(old, new) == {k \in DOMAIN new \intersect DOMAIN old : old[k] # new[k]}

(* Mutant: a flag that is gone is not reported.                              *)
flagsAddedOrChanged(old, new) == added(old, new) \union changed(old, new)

(* What setConfigurations returns; it stores new as a whole.                 *)
flagsChanged(old, new) == added(old, new) \union removed(old, new) \union changed(old, new)

(* A reader that keeps its own copy and looks again at the keys it is told   *)
(* of: the reference the list of changed flags is held against.              *)
Refreshed(copy, keys, new) ==
  [k \in (DOMAIN copy \ keys) \union (keys \intersect DOMAIN new) |->
     IF k \in keys THEN new[k] ELSE copy[k]]
=============================================================================
