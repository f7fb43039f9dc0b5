---------------------------- MODULE CacheClients ----------------------------
(***************************************************************************)
(* The result cache (src/cache.go) under its most general clients: any     *)
(* number of requests that get and put, and a refresh that resets.         *)
(*                                                                         *)
(* The methods are not atomic.  put fixes `expires` before it asks for the *)
(* lock, so puts can land in another order than their expiry times, and    *)
(* late; get tests `expires` after it has given the lock back.  Both gaps  *)
(* are steps here.                                                         *)
(*                                                                         *)
(* A looked-up value is abstracted to the time at which it was produced    *)
(* (`born`), which is all that the properties tell apart.                  *)
(***************************************************************************)
EXTENDS ResultCache

CONSTANTS
    Procs,       \* requests
    Keys,        \* addresses
    NoEntry,     \* get's "not found"
    MaxTime      \* bound on the clock

ASSUME ClientsAssumption == MaxTime \in Nat

VARIABLES
    now,         \* time.Now()
    pc,          \* "idle", or the method that a request is inside
    arg,         \* the key of that method call
    held,        \* the entry a request carries: read by get, or built by put
    since        \* history: puts of other keys since a key's last put

vars == <<current, previous, now, pc, arg, held, since>>

Entries == {e \in [born : 0..MaxTime, expires : 0..(MaxTime + TTL)] :
                 e.expires = e.born + TTL}

(* A key never put (since the last reset) counts as long forgotten. *)
LongAgo == MaxEntries + 1

Count(n) == IF n < LongAgo THEN n + 1 ELSE n

Init ==
    /\ CacheInit
    /\ now = 0
    /\ pc = [p \in Procs |-> "idle"]
    /\ arg \in [Procs -> Keys]
    /\ held = [p \in Procs |-> NoEntry]
    /\ since = [k \in Keys |-> LongAgo]

Tick ==
    /\ now < MaxTime
    /\ now' = now + 1
    /\ UNCHANGED <<current, previous, pc, arg, held, since>>

BuildEntryWithoutNow(p, k) ==  \* as a bug: an expiry that is a duration
    /\ pc[p] = "idle"
    /\ pc' = [pc EXCEPT ![p] = "put"]
    /\ arg' = [arg EXCEPT ![p] = k]
    /\ held' = [held EXCEPT ![p] = [born |-> now, expires |-> TTL]]
    /\ UNCHANGED <<current, previous, now, since>>

(* put, before the lock: the entry is built and its expiry fixed. *)
BuildEntry(p, k) ==
    /\ pc[p] = "idle"
    /\ pc' = [pc EXCEPT ![p] = "put"]
    /\ arg' = [arg EXCEPT ![p] = k]
    /\ held' = [held EXCEPT ![p] = [born |-> now, expires |-> now + TTL]]
    /\ UNCHANGED <<current, previous, now, since>>

(* put, under the lock. *)
StoreEntry(p) ==
    /\ pc[p] = "put"
    /\ CachePut(arg[p], held[p])
    /\ since' = [k \in Keys |-> IF k = arg[p] THEN 0 ELSE Count(since[k])]
    /\ pc' = [pc EXCEPT ![p] = "idle"]
    /\ held' = [held EXCEPT ![p] = NoEntry]
    /\ UNCHANGED <<now, arg>>

(* get, under the read lock. *)
ReadEntry(p, k) ==
    /\ pc[p] = "idle"
    /\ pc' = [pc EXCEPT ![p] = "got"]
    /\ arg' = [arg EXCEPT ![p] = k]
    /\ held' = [held EXCEPT ![p] = IF Cached(k) THEN EntryOf(k) ELSE NoEntry]
    /\ UNCHANGED <<current, previous, now, since>>

(* get, after the lock: an expired entry is a miss. *)
JudgeEntry(p) ==
    /\ pc[p] = "got"
    /\ pc' = [pc EXCEPT ![p] = "answered"]
    /\ held' = [held EXCEPT ![p] =
                   IF @ # NoEntry /\ Expired(@, now) THEN NoEntry ELSE @]
    /\ UNCHANGED <<current, previous, now, arg, since>>

(* The caller is done with the answer. *)
Finish(p) ==
    /\ pc[p] = "answered"
    /\ pc' = [pc EXCEPT ![p] = "idle"]
    /\ held' = [held EXCEPT ![p] = NoEntry]
    /\ UNCHANGED <<current, previous, now, arg, since>>

Reset ==
    /\ CacheReset
    /\ since' = [k \in Keys |-> LongAgo]
    /\ UNCHANGED <<now, pc, arg, held>>

Next ==
    \/ Tick
    \/ Reset
    \/ \E p \in Procs :
          \/ \E k \in Keys : BuildEntry(p, k) \/ ReadEntry(p, k)
          \/ StoreEntry(p)
          \/ JudgeEntry(p)
          \/ Finish(p)

Spec == Init /\ [][Next]_vars
-----------------------------------------------------------------------------
Generations == UNION {[D -> Entries] : D \in SUBSET Keys}

(* Every variable keeps its type; both generations hold entries that put
   built (cache.go 20-26). *)
TypeOK ==
    /\ current \in Generations
    /\ previous \in Generations
    /\ now \in 0..MaxTime
    /\ pc \in [Procs -> {"idle", "put", "got", "answered"}]
    /\ arg \in [Procs -> Keys]
    /\ held \in [Procs -> Entries \cup {NoEntry}]
    /\ \A p \in Procs : pc[p] = "put" => held[p] \in Entries
    /\ since \in [Keys -> 0..LongAgo]

(* No sequence of puts, whatever its keys and overwrites, makes a generation
   outgrow maxEntries: the memory bound of cache.go 17-19, which put keeps by
   testing the size before it inserts. *)
Bounded ==
    CacheEnabled => /\ Cardinality(DOMAIN current) <= MaxEntries
                    /\ Cardinality(DOMAIN previous) <= MaxEntries

(* Rotation never costs a recent entry: a key is still cached until at least
   maxEntries + 1 later puts, so the fallback of get to the previous
   generation (cache.go 44-47) covers what put has just retired. *)
Retained ==
    CacheEnabled => \A k \in Keys : since[k] <= MaxEntries => Cached(k)

(* get never answers with a result that is older than the ttl when get
   decides: the age counts from the moment the result was produced, not from
   the moment its put got the lock (cache.go 50 and 60). *)
HitsAreYoung ==
    [][\A p \in Procs : pc[p] = "got" /\ pc'[p] = "answered"
          => held'[p] = NoEntry \/ now - held'[p].born <= TTL]_vars

(* What get would read for each key. *)
View == [k \in Keys |-> IF Cached(k) THEN EntryOf(k) ELSE NoEntry]

Memo == INSTANCE LossyMemo WITH memo <- View

(* The two generations implement one memo: no interleaving of puts, rotations
   and resets shows an older entry in place of a newer one, or brings back an
   entry that was forgotten (cache.go 39-81). *)
ImplementsMemo == Memo!Spec
=============================================================================
