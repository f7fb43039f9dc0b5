---------------------------- MODULE CacheProofs ----------------------------
(***************************************************************************)
(* Proofs about the result cache, for any number of requests, addresses,   *)
(* entries per generation and clock ticks.                                 *)
(*                                                                         *)
(* One inductive invariant carries everything: types, finite generations   *)
(* (which the theorems about Cardinality ask for), the size bound, and     *)
(* RetainedInd, which counts how many puts must separate a key from the    *)
(* rotation that forgets it.                                               *)
(***************************************************************************)
EXTENDS CacheClients, FiniteSetTheorems, TLAPS

FiniteGenerations ==
    IsFiniteSet(DOMAIN current) /\ IsFiniteSet(DOMAIN previous)

(* The strengthening of Retained that is inductive: a key that only the
   previous generation holds was followed by as many puts as the current
   generation has entries. *)
RetainedInd ==
    CacheEnabled => \A k \in Keys \ DOMAIN current :
        IF k \in DOMAIN previous
        THEN since[k] >= Cardinality(DOMAIN current)
        ELSE since[k] > MaxEntries

IInv == TypeOK /\ FiniteGenerations /\ Bounded /\ RetainedInd

-----------------------------------------------------------------------------
(* A function from some of the keys to entries is a generation. *)
LEMMA GenerationIntro ==
    ASSUME NEW f, NEW D \in SUBSET Keys, f \in [D -> Entries]
    PROVE  f \in Generations
BY DEF Generations

(* And a generation is such a function. *)
LEMMA GenerationElim ==
    ASSUME NEW f \in Generations
    PROVE  /\ DOMAIN f \in SUBSET Keys
           /\ f \in [DOMAIN f -> Entries]
BY DEF Generations

LEMMA EmptyIsGeneration ==
    /\ EmptyGeneration \in Generations
    /\ DOMAIN EmptyGeneration = {}
<1>1. EmptyGeneration \in [{} -> Entries]
  BY DEF EmptyGeneration
<1>2. {} \in SUBSET Keys
  OBVIOUS
<1>3. EmptyGeneration \in Generations
  BY <1>1, <1>2, GenerationIntro
<1> QED
  BY <1>3 DEF EmptyGeneration

(* Adding one element to a finite set of fewer than n leaves at most n. *)
LEMMA CardinalityGrows ==
    ASSUME NEW S, NEW x, IsFiniteSet(S)
    PROVE  /\ IsFiniteSet(S \cup {x})
           /\ Cardinality(S) \in Nat
           /\ Cardinality(S \cup {x}) \in Nat
           /\ Cardinality(S \cup {x}) <= Cardinality(S) + 1
<1>1. Cardinality(S) \in Nat
  BY FS_CardinalityType
<1>2. /\ IsFiniteSet(S \cup {x})
      /\ Cardinality(S \cup {x}) =
           IF x \in S THEN Cardinality(S) ELSE Cardinality(S) + 1
  BY FS_AddElement
<1> QED
  BY <1>1, <1>2

(* What put does, as facts: the key gets the entry, the generation that
   takes it stays within its bound, and a full one is retired whole. *)
LEMMA PutFacts ==
    ASSUME IInv, CacheEnabled, NEW key \in Keys, NEW entry \in Entries,
           CachePut(key, entry)
    PROVE  /\ current' \in Generations /\ previous' \in Generations
           /\ FiniteGenerations' /\ Bounded'
           /\ key \in DOMAIN current' /\ current'[key] = entry
           /\ \/ /\ Cardinality(DOMAIN current) < MaxEntries
                 /\ previous' = previous
                 /\ DOMAIN current' = DOMAIN current \cup {key}
                 /\ \A k \in DOMAIN current \ {key} : current'[k] = current[k]
                 /\ Cardinality(DOMAIN current') <= Cardinality(DOMAIN current) + 1
              \/ /\ Cardinality(DOMAIN current) >= MaxEntries
                 /\ previous' = current
                 /\ DOMAIN current' = {key}
                 /\ Cardinality(DOMAIN current') = 1
<1> USE CacheAssumption
<1> DEFINE base == IF Full THEN EmptyGeneration ELSE current
<1>1. /\ previous' = IF Full THEN current ELSE previous
      /\ current' = [k \in DOMAIN base \cup {key} |->
                        IF k = key THEN entry ELSE base[k]]
  BY DEF CachePut
<1>2. base \in Generations /\ current \in Generations /\ previous \in Generations
  BY EmptyIsGeneration DEF IInv, TypeOK
<1>3. /\ DOMAIN base \in SUBSET Keys
      /\ base \in [DOMAIN base -> Entries]
  BY <1>2, GenerationElim
<1>4. current' \in [DOMAIN base \cup {key} -> Entries]
  BY <1>1, <1>3
<1>5. current' \in Generations
  <2>1. DOMAIN base \cup {key} \in SUBSET Keys
    BY <1>3
  <2> QED
    BY <2>1, <1>4, GenerationIntro
<1>6. previous' \in Generations
  BY <1>1, <1>2
<1>7. /\ DOMAIN current' = DOMAIN base \cup {key}
      /\ current'[key] = entry
      /\ \A k \in DOMAIN base \ {key} : current'[k] = base[k]
  BY <1>1
<1>8. /\ Cardinality(DOMAIN current) \in Nat
      /\ Cardinality(DOMAIN previous) \in Nat
  BY FS_CardinalityType DEF IInv, FiniteGenerations
<1>9. CASE Full
  <2>1. base = EmptyGeneration /\ previous' = current
    BY <1>1, <1>9
  <2>2. DOMAIN current' = {key}
    BY <1>7, <2>1, EmptyIsGeneration
  <2>3. IsFiniteSet({key}) /\ Cardinality({key}) = 1
    BY FS_Singleton
  <2>4. FiniteGenerations'
    BY <2>1, <2>2, <2>3 DEF IInv, FiniteGenerations
  <2>5. Bounded'
    BY <2>1, <2>2, <2>3 DEF IInv, Bounded, CacheEnabled
  <2> QED
    BY <1>5, <1>6, <1>7, <1>9, <2>1, <2>2, <2>3, <2>4, <2>5 DEF Full
<1>10. CASE ~Full
  <2>1. base = current /\ previous' = previous
    BY <1>1, <1>10
  <2>2. DOMAIN current' = DOMAIN current \cup {key}
    BY <1>7, <2>1
  <2>3. Cardinality(DOMAIN current) < MaxEntries
    BY <1>8, <1>10 DEF Full
  <2>4. /\ IsFiniteSet(DOMAIN current')
        /\ Cardinality(DOMAIN current') \in Nat
        /\ Cardinality(DOMAIN current') <= Cardinality(DOMAIN current) + 1
    BY <2>2, CardinalityGrows DEF IInv, FiniteGenerations
  <2>5. FiniteGenerations'
    BY <2>1, <2>4 DEF IInv, FiniteGenerations
  <2>6. Bounded'
    BY <1>8, <2>1, <2>3, <2>4 DEF IInv, Bounded, CacheEnabled
  <2> QED
    BY <1>5, <1>6, <1>7, <2>1, <2>2, <2>3, <2>4, <2>5, <2>6
<1> QED
  BY <1>9, <1>10

(* Counting a put: the age of a key grows by one, up to LongAgo. *)
LEMMA CountFacts ==
    ASSUME NEW n \in 0..LongAgo
    PROVE  /\ Count(n) \in 0..LongAgo
           /\ n <= MaxEntries => Count(n) = n + 1
           /\ n > MaxEntries => Count(n) = n
BY CacheAssumption DEF Count, LongAgo

LEMMA InitIInv == Init => IInv
<1> SUFFICES ASSUME Init PROVE IInv
  OBVIOUS
<1> USE CacheAssumption, ClientsAssumption DEF Init, CacheInit
<1>1. /\ current \in Generations /\ previous \in Generations
      /\ DOMAIN current = {} /\ DOMAIN previous = {}
  BY EmptyIsGeneration
<1>2. IsFiniteSet({}) /\ Cardinality({}) = 0
  BY FS_EmptySet
<1>3. TypeOK
  BY <1>1 DEF TypeOK, LongAgo
<1>4. FiniteGenerations /\ Bounded
  BY <1>1, <1>2 DEF FiniteGenerations, Bounded, CacheEnabled
<1>5. RetainedInd
  BY <1>1 DEF RetainedInd, LongAgo
<1> QED
  BY <1>3, <1>4, <1>5 DEF IInv

(* A put keeps every key of the two generations as recent as RetainedInd
   demands: this is the heart of the retention argument. *)
LEMMA StoreRetains ==
    ASSUME IInv, NEW p \in Procs, StoreEntry(p)
    PROVE  RetainedInd'
<1> SUFFICES ASSUME CacheEnabled, NEW k \in Keys, k \notin DOMAIN current'
             PROVE  IF k \in DOMAIN previous'
                    THEN since'[k] >= Cardinality(DOMAIN current')
                    ELSE since'[k] > MaxEntries
  BY DEF RetainedInd, CacheEnabled
<1> DEFINE key == arg[p]
<1> USE CacheAssumption
<1>1. /\ key \in Keys /\ held[p] \in Entries
      /\ CachePut(key, held[p])
      /\ since \in [Keys -> 0..LongAgo]
  BY DEF StoreEntry, IInv, TypeOK
<1>2. /\ key \in DOMAIN current' /\ FiniteGenerations'
      /\ \/ /\ Cardinality(DOMAIN current) < MaxEntries
            /\ previous' = previous
            /\ DOMAIN current' = DOMAIN current \cup {key}
            /\ Cardinality(DOMAIN current') <= Cardinality(DOMAIN current) + 1
         \/ /\ Cardinality(DOMAIN current) >= MaxEntries
            /\ previous' = current
            /\ DOMAIN current' = {key}
            /\ Cardinality(DOMAIN current') = 1
  BY <1>1, PutFacts
<1>3. /\ k # key
      /\ since'[k] = Count(since[k])
      /\ since[k] \in 0..LongAgo
  BY <1>1, <1>2 DEF StoreEntry
<1>4. /\ since'[k] \in 0..LongAgo
      /\ since[k] <= MaxEntries => since'[k] = since[k] + 1
      /\ since[k] > MaxEntries => since'[k] = since[k]
  BY <1>3, CountFacts
<1>5. Cardinality(DOMAIN current) \in Nat /\ Cardinality(DOMAIN current') \in Nat
  BY <1>2, FS_CardinalityType DEF IInv, FiniteGenerations
<1>6. \A j \in Keys \ DOMAIN current :
         IF j \in DOMAIN previous
         THEN since[j] >= Cardinality(DOMAIN current)
         ELSE since[j] > MaxEntries
  BY DEF IInv, RetainedInd
<1>7. CASE Cardinality(DOMAIN current) < MaxEntries
  <2>1. k \notin DOMAIN current /\ previous' = previous
    BY <1>2, <1>5, <1>7
  <2>2. Cardinality(DOMAIN current') <= Cardinality(DOMAIN current) + 1
    BY <1>2, <1>5, <1>7
  <2> QED
    BY <1>3, <1>4, <1>5, <1>6, <1>7, <2>1, <2>2 DEF LongAgo
<1>8. CASE Cardinality(DOMAIN current) >= MaxEntries
  <2>1. previous' = current /\ Cardinality(DOMAIN current') = 1
    BY <1>2, <1>5, <1>8
  <2>2. CASE k \in DOMAIN current
    BY <1>3, <1>4, <2>1, <2>2 DEF LongAgo, CacheEnabled
  <2>3. CASE k \notin DOMAIN current
    <3>1. since[k] >= MaxEntries
      BY <1>3, <1>5, <1>6, <1>8, <2>3 DEF LongAgo
    <3> QED
      BY <1>3, <1>4, <2>1, <2>3, <3>1 DEF LongAgo
  <2> QED
    BY <2>2, <2>3
<1> QED
  BY <1>5, <1>7, <1>8

LEMMA NextIInv == IInv /\ [Next]_vars => IInv'
<1> SUFFICES ASSUME IInv, [Next]_vars PROVE IInv'
  OBVIOUS
<1> USE CacheAssumption, ClientsAssumption
<1> DEFINE CacheUntouched == UNCHANGED <<current, previous, since>>
<1>1. ASSUME CacheUntouched, TypeOK' PROVE IInv'
  BY <1>1 DEF IInv, FiniteGenerations, Bounded, CacheEnabled, RetainedInd
<1>2. CASE Tick
  <2>1. TypeOK'
    BY <1>2 DEF Tick, IInv, TypeOK
  <2> QED
    BY <1>1, <1>2, <2>1 DEF Tick
<1>3. CASE Reset
  <2>1. /\ current' \in Generations /\ previous' \in Generations
        /\ DOMAIN current' = {} /\ DOMAIN previous' = {}
    BY <1>3, EmptyIsGeneration DEF Reset, CacheReset
  <2>2. IsFiniteSet({}) /\ Cardinality({}) = 0
    BY FS_EmptySet
  <2>3. TypeOK'
    BY <1>3, <2>1 DEF Reset, IInv, TypeOK, LongAgo
  <2>4. FiniteGenerations' /\ Bounded'
    BY <2>1, <2>2 DEF FiniteGenerations, Bounded, CacheEnabled
  <2>5. RetainedInd'
    BY <1>3, <2>1 DEF RetainedInd, Reset, LongAgo
  <2> QED
    BY <2>3, <2>4, <2>5 DEF IInv
<1>4. ASSUME NEW p \in Procs, NEW k \in Keys, BuildEntry(p, k) PROVE IInv'
  <2>1. now + TTL \in 0..(MaxTime + TTL)
    BY DEF IInv, TypeOK
  <2>2. [born |-> now, expires |-> now + TTL] \in Entries
    BY <2>1 DEF IInv, TypeOK, Entries
  <2>3. held' \in [Procs -> Entries \cup {NoEntry}]
    BY <1>4, <2>2 DEF BuildEntry, IInv, TypeOK
  <2>4. \A q \in Procs : pc'[q] = "put" => held'[q] \in Entries
    <3> TAKE q \in Procs
    <3> QED
      BY <1>4, <2>2 DEF BuildEntry, IInv, TypeOK
  <2>5. TypeOK'
    BY <1>4, <2>3, <2>4 DEF BuildEntry, IInv, TypeOK
  <2> QED
    BY <1>1, <1>4, <2>5 DEF BuildEntry
<1>5. ASSUME NEW p \in Procs, StoreEntry(p) PROVE IInv'
  <2>1. /\ arg[p] \in Keys /\ held[p] \in Entries
        /\ CachePut(arg[p], held[p])
    BY <1>5 DEF StoreEntry, IInv, TypeOK
  <2>2. since' \in [Keys -> 0..LongAgo]
    <3>1. \A k \in Keys : Count(since[k]) \in 0..LongAgo
      BY CountFacts DEF IInv, TypeOK
    <3> QED
      BY <1>5, <3>1 DEF StoreEntry, LongAgo
  <2>3. CASE CacheEnabled
    <3>1. /\ current' \in Generations /\ previous' \in Generations
          /\ FiniteGenerations' /\ Bounded'
      BY <2>1, <2>3, PutFacts
    <3>2. RetainedInd'
      BY <1>5, StoreRetains
    <3>3. TypeOK'
      BY <1>5, <2>2, <3>1 DEF StoreEntry, IInv, TypeOK
    <3> QED
      BY <3>1, <3>2, <3>3 DEF IInv
  <2>4. CASE ~CacheEnabled
    <3>1. UNCHANGED <<current, previous>>
      BY <2>1, <2>4 DEF CachePut, cacheVars
    <3>2. TypeOK'
      BY <1>5, <2>2, <3>1 DEF StoreEntry, IInv, TypeOK
    <3>3. FiniteGenerations' /\ Bounded' /\ RetainedInd'
      BY <2>4, <3>1
         DEF IInv, FiniteGenerations, Bounded, RetainedInd, CacheEnabled
    <3> QED
      BY <3>2, <3>3 DEF IInv
  <2> QED
    BY <2>3, <2>4
<1>6. ASSUME NEW p \in Procs, NEW k \in Keys, ReadEntry(p, k) PROVE IInv'
  <2>1. Cached(k) => EntryOf(k) \in Entries
    BY GenerationElim DEF Cached, EntryOf, IInv, TypeOK
  <2>2. TypeOK'
    BY <1>6, <2>1 DEF ReadEntry, IInv, TypeOK
  <2> QED
    BY <1>1, <1>6, <2>2 DEF ReadEntry
<1>7. ASSUME NEW p \in Procs, JudgeEntry(p) PROVE IInv'
  <2>1. TypeOK'
    BY <1>7 DEF JudgeEntry, IInv, TypeOK
  <2> QED
    BY <1>1, <1>7, <2>1 DEF JudgeEntry
<1>8. ASSUME NEW p \in Procs, Finish(p) PROVE IInv'
  <2>1. TypeOK'
    BY <1>8 DEF Finish, IInv, TypeOK
  <2> QED
    BY <1>1, <1>8, <2>1 DEF Finish
<1>9. CASE UNCHANGED vars
  <2>1. TypeOK'
    BY <1>9 DEF vars, IInv, TypeOK
  <2> QED
    BY <1>1, <1>9, <2>1 DEF vars
<1> QED
  BY <1>2, <1>3, <1>4, <1>5, <1>6, <1>7, <1>8, <1>9 DEF Next

-----------------------------------------------------------------------------
LEMMA Invariance == Spec => []IInv
<1>1. Init => IInv
  BY InitIInv
<1>2. IInv /\ [Next]_vars => IInv'
  BY NextIInv
<1> QED
  BY <1>1, <1>2, PTL DEF Spec

(* Every variable keeps its type, the generations included, whatever order
   the two-step methods of cache.go interleave in. *)
THEOREM TypeCorrect == Spec => []TypeOK
BY Invariance, PTL DEF IInv

(* Neither generation ever outgrows maxEntries (put, cache.go 62-67). *)
THEOREM CacheBounded == Spec => []Bounded
BY Invariance, PTL DEF IInv

(* The inductive form is no weaker than the promise of Retained. *)
LEMMA RetainedIndSuffices == IInv => Retained
<1> SUFFICES ASSUME IInv, CacheEnabled, NEW k \in Keys,
                    since[k] <= MaxEntries
             PROVE  Cached(k)
  BY DEF Retained
<1>1. since[k] \in Nat
  BY CacheAssumption DEF IInv, TypeOK, LongAgo
<1>2. CASE k \in DOMAIN current
  BY <1>2 DEF Cached
<1>3. CASE k \notin DOMAIN current
  BY <1>1, <1>3, CacheAssumption DEF IInv, RetainedInd, Cached
<1> QED
  BY <1>2, <1>3

(* The last maxEntries + 1 puts are always still cached: rotation (cache.go
   63-66) never loses a recent entry. *)
THEOREM CacheRetains == Spec => []Retained
BY Invariance, RetainedIndSuffices, PTL

-----------------------------------------------------------------------------
(* What a put of an enabled cache does to the view: the key shows the new
   entry, every other key what it showed before or nothing. *)
LEMMA PutIsStore ==
    ASSUME IInv, CacheEnabled, NEW key \in Keys, NEW entry \in Entries,
           CachePut(key, entry)
    PROVE  Memo!Store(key, entry)
<1> USE CacheAssumption
<1>1. /\ current' \in Generations /\ previous' \in Generations
      /\ key \in DOMAIN current' /\ current'[key] = entry
      /\ \/ /\ previous' = previous
            /\ DOMAIN current' = DOMAIN current \cup {key}
            /\ \A k \in DOMAIN current \ {key} : current'[k] = current[k]
         \/ /\ previous' = current
            /\ DOMAIN current' = {key}
  BY PutFacts
<1>2. View' = [k \in Keys |-> IF Cached(k)' THEN EntryOf(k)' ELSE NoEntry]
  BY DEF View
<1>3. View'[key] = entry
  BY <1>1, <1>2 DEF Cached, EntryOf
<1>4. View' \in [Keys -> Entries \cup {NoEntry}]
  <2>1. \A k \in Keys : Cached(k)' => EntryOf(k)' \in Entries
    BY <1>1, GenerationElim DEF Cached, EntryOf
  <2> QED
    BY <1>2, <2>1
<1>5. ASSUME NEW k \in Keys \ {key} PROVE View'[k] \in {View[k], NoEntry}
  <2>1. CASE /\ previous' = previous
             /\ DOMAIN current' = DOMAIN current \cup {key}
             /\ \A j \in DOMAIN current \ {key} : current'[j] = current[j]
    BY <1>2, <2>1 DEF View, Cached, EntryOf
  <2>2. CASE previous' = current /\ DOMAIN current' = {key}
    BY <1>2, <2>2 DEF View, Cached, EntryOf
  <2> QED
    BY <1>1, <2>1, <2>2
<1> QED
  BY <1>3, <1>4, <1>5 DEF Memo!Store

LEMMA InitRefines == Init => Memo!Init
BY EmptyIsGeneration DEF Init, CacheInit, View, Cached, Memo!Init

LEMMA StepRefines == IInv /\ [Next]_vars => [Memo!Next]_View
<1> SUFFICES ASSUME IInv, [Next]_vars PROVE [Memo!Next]_View
  OBVIOUS
<1>1. ASSUME UNCHANGED <<current, previous>> PROVE UNCHANGED View
  BY <1>1 DEF View, Cached, EntryOf
<1>2. ASSUME NEW p \in Procs, StoreEntry(p) PROVE [Memo!Next]_View
  <2>1. /\ arg[p] \in Keys /\ held[p] \in Entries
        /\ CachePut(arg[p], held[p])
    BY <1>2 DEF StoreEntry, IInv, TypeOK
  <2>2. CASE CacheEnabled
    BY <2>1, <2>2, PutIsStore DEF Memo!Next
  <2>3. CASE ~CacheEnabled
    BY <1>1, <2>1, <2>3 DEF CachePut, cacheVars
  <2> QED
    BY <2>2, <2>3
<1>3. CASE Reset
  <2>1. DOMAIN current' = {} /\ DOMAIN previous' = {}
    BY <1>3, EmptyIsGeneration DEF Reset, CacheReset
  <2>2. View' = [k \in Keys |-> NoEntry]
    BY <2>1 DEF View, Cached
  <2> QED
    BY <2>2 DEF Memo!Next, Memo!Wipe
<1>4. CASE UNCHANGED <<current, previous>>
  BY <1>1, <1>4
<1> QED
  BY <1>2, <1>3, <1>4
     DEF Next, Tick, BuildEntry, ReadEntry, JudgeEntry, Finish, vars

(* The two-generation cache implements the lossy memo: get never reads an
   entry that a later put of the same key has replaced, nor one that was
   forgotten (cache.go 39-81). *)
THEOREM CacheImplementsMemo == Spec => ImplementsMemo
<1>1. Init => Memo!Init
  BY InitRefines
<1>2. IInv /\ [Next]_vars => [Memo!Next]_View
  BY StepRefines
<1> QED
  BY <1>1, <1>2, Invariance, PTL DEF Spec, Memo!Spec, ImplementsMemo

-----------------------------------------------------------------------------
(* get never serves a result older than the ttl, although put fixes the
   expiry long before it stores and get tests it after it has read
   (cache.go 50 and 60). *)
THEOREM CacheHitsAreYoung == Spec => HitsAreYoung
<1>1. ASSUME IInv, [Next]_vars, NEW p \in Procs,
             pc[p] = "got", pc'[p] = "answered"
      PROVE  held'[p] = NoEntry \/ now - held'[p].born <= TTL
  <2>1. JudgeEntry(p)
    <3>1. ASSUME NEW q \in Procs, JudgeEntry(q) PROVE q = p
      BY <1>1, <3>1 DEF JudgeEntry, IInv, TypeOK
    <3>2. ASSUME NEW q \in Procs, StoreEntry(q) \/ Finish(q) PROVE FALSE
      BY <1>1, <3>2 DEF StoreEntry, Finish, IInv, TypeOK
    <3>3. ASSUME NEW q \in Procs, NEW k \in Keys,
                 BuildEntry(q, k) \/ ReadEntry(q, k)
          PROVE  FALSE
      BY <1>1, <3>3 DEF BuildEntry, ReadEntry, IInv, TypeOK
    <3>4. pc' # pc
      BY <1>1
    <3>5. CASE UNCHANGED vars \/ Tick \/ Reset
      BY <3>4, <3>5 DEF Tick, Reset, vars
    <3> QED
      BY <1>1, <3>1, <3>2, <3>3, <3>5 DEF Next
  <2>2. held'[p] = IF held[p] # NoEntry /\ Expired(held[p], now)
                   THEN NoEntry ELSE held[p]
    BY <1>1, <2>1 DEF JudgeEntry, IInv, TypeOK
  <2>3. CASE held[p] # NoEntry /\ ~Expired(held[p], now)
    <3>1. /\ held[p].born \in Nat
          /\ held[p].expires = held[p].born + TTL
          /\ now \in Nat
      BY <1>1, <2>3 DEF IInv, TypeOK, Entries
    <3>2. now <= held[p].expires
      BY <2>3, <3>1, CacheAssumption DEF Expired
    <3> QED
      BY <2>2, <2>3, <3>1, <3>2, CacheAssumption
  <2> QED
    BY <2>2, <2>3
<1>2. IInv /\ [Next]_vars =>
         [\A p \in Procs : pc[p] = "got" /\ pc'[p] = "answered"
            => held'[p] = NoEntry \/ now - held'[p].born <= TTL]_vars
  BY <1>1
<1> QED
  BY <1>2, Invariance, PTL DEF Spec, HitsAreYoung
=============================================================================
