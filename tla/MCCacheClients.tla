--------------------------- MODULE MCCacheClients ---------------------------
(* Two requests, three addresses, generations of two entries: enough for a
   key to be in both generations, in one, or lost to a second rotation. *)
EXTENDS CacheClients, TLC

Symmetry == Permutations(Procs) \cup Permutations(Keys)
=============================================================================
