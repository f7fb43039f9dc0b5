----------------------------- MODULE MCClientIP -----------------------------
(* Two clients, two proxies, up to two forged entries and three hops: forged
   entries can name clients, proxies and nonsense, and depths can fall short
   of the hops or exceed them. *)
EXTENDS ClientIP, TLC

Symmetry == Permutations(Clients) \cup Permutations(Proxies)
=============================================================================
