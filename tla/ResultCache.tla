---------------------------- MODULE ResultCache ----------------------------
(***************************************************************************)
(* The result cache (src/cache.go): two generations of entries.  Writes go *)
(* to the current generation, reads fall back to the previous one, and a   *)
(* put that finds the current generation full retires it.                  *)
(*                                                                         *)
(* This module holds the cache's variables and one operator per method.    *)
(* The modules that use it (CacheClients, LookupService) say who calls     *)
(* them.  Each method holds c.mu while it touches the maps, so each        *)
(* operator is one atomic step; what a method does outside the lock        *)
(* (reading the clock) belongs to the caller's steps.                      *)
(*                                                                         *)
(* A nil `previous` and an empty one answer every call alike, so both are  *)
(* the empty function.                                                     *)
(***************************************************************************)
EXTENDS Naturals, FiniteSets

CONSTANTS
    MaxEntries,  \* entries of one generation
    TTL          \* lifetime of an entry, in clock ticks

(* newResultCache takes any integers; zero stands for all of those <= 0. *)
ASSUME CacheAssumption == MaxEntries \in Nat /\ TTL \in Nat

VARIABLES current, previous

cacheVars == <<current, previous>>

(* newResultCache returns nil unless both numbers are positive, and every
   method of the nil cache is a no-op that finds nothing. *)
CacheEnabled == MaxEntries > 0 /\ TTL > 0

EmptyGeneration == [k \in {} |-> k]

CacheInit == current = EmptyGeneration /\ previous = EmptyGeneration

Cached(key) == key \in DOMAIN current \cup DOMAIN previous

EntryOfOldest(key) ==  \* as a bug: the generations in the wrong order
    IF key \in DOMAIN previous THEN previous[key] ELSE current[key]

(* What get reads under the lock, for a cached key. *)
EntryOf(key) == IF key \in DOMAIN current THEN current[key] ELSE previous[key]

ExpiredOneLater(entry, now) ==  \* as a bug: a boundary off by one
    now > entry.expires + 1

(* The test get makes after it has released the lock. *)
Expired(entry, now) == now > entry.expires

OverFull ==  \* as a bug: a generation of one entry too many
    Cardinality(DOMAIN current) > MaxEntries

AlmostFull ==  \* as a bug: a rotation one entry early
    Cardinality(DOMAIN current) + 1 >= MaxEntries

Full == Cardinality(DOMAIN current) >= MaxEntries

(* put rotates on a full generation even when it overwrites a key of it. *)
CachePut(key, entry) ==
    IF ~CacheEnabled THEN UNCHANGED cacheVars
    ELSE LET base == IF Full THEN EmptyGeneration ELSE current
         IN /\ previous' = IF Full THEN current ELSE previous
            /\ current' = [k \in DOMAIN base \cup {key} |->
                              IF k = key THEN entry ELSE base[k]]

CacheResetCurrent ==  \* as a bug: the previous generation survives
    current' = EmptyGeneration /\ UNCHANGED previous

CacheReset ==
    /\ current' = EmptyGeneration
    /\ previous' = EmptyGeneration
=============================================================================
