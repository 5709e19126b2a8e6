------------------------- MODULE MCOfrepWebProvider -------------------------
(* OfrepWebProvider for TLC: the contexts of two users, each with a targeting *)
(* key of its own.                                                            *)
EXTENDS OfrepWebProvider, TLC

CONSTANTS alice, bob

MCContexts == {alice, bob}
MCTargetingKey(c) == c
MCOptions ==
  {[cacheMode |-> "local-cache-first", polls |-> TRUE, detection |-> "sse"],
   [cacheMode |-> "local-cache-first", polls |-> FALSE, detection |-> "sse"],
   [cacheMode |-> "network-first", polls |-> TRUE, detection |-> "sse"]}

(* A second change overlaps with the first: what matters in mode             *)
(* network-first, whose promises hold for overlapping changes.               *)
MCMaxContextChanges == [m \in CacheModes |-> IF m = "network-first" THEN 2 ELSE 1]
MCMoreContextChanges == [m \in CacheModes |-> 2]
Symmetry == Permutations(Tasks) \union Permutations(Contexts)

(* The earlier session was told of the streams the server offers now; where   *)
(* they differ, the server has changed since.                                 *)
MCInit == Init /\ \A k \in Keys : stored[k] # None => stored[k].streams = server.streams
MCSpec == MCInit /\ [][Next]_vars
=============================================================================
