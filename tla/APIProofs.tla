----------------------------- MODULE APIProofs -----------------------------
(***************************************************************************)
(* Proofs about the plugin in api mode, for any number of requests and     *)
(* addresses, any size of the cache, and a service that does as it likes.  *)
(***************************************************************************)
EXTENDS APIProvider, FiniteSetTheorems, TLAPS

(* What the service has said is no error, and neither is what follows from
   it: what is cached, and what requests hold that did not fail. *)
SaidInv ==
    /\ \A k \in Keys : \A r \in said[k] : r.err = NoError
    /\ \A k \in DOMAIN current : current[k] \in said[k]
    /\ \A k \in DOMAIN previous : previous[k] \in said[k]
    /\ \A p \in Requests :
          req[p].pc \in {"store", "answered"} /\ ~req[p].result.err.failed =>
              req[p].result \in said[req[p].key]

Inv == TypeOK /\ SaidInv /\ KeyNeverRepeated

-----------------------------------------------------------------------------
LEMMA ResultFacts ==
    /\ NoData \in Results
    /\ NoData.err = NoError
    /\ \A k \in Keys : Result(Extract(k), TRUE, NoError) \in Results
    /\ NoError.failed = FALSE /\ NoError.repeats = {}
BY DEF NoData, Result, Results, NoError, Forms

(* Whatever a text repeats, a failure made of it repeats no whole key. *)
LEMMA FailureFacts ==
    ASSUME NEW repeats \in SUBSET WholeForms
    PROVE  /\ Failure(repeats) \in Results
           /\ Failure(repeats).err.failed
           /\ Failure(repeats).err.repeats = {}
<1>1. redact(repeats) = {}
  BY DEF redact
<1> QED
  BY <1>1 DEF Failure, Result, Results, Forms

(* A status text was redacted before it was cut, so nothing is left of the
   key that could be cut. *)
LEMMA StatusTextClean ==
    ASSUME NEW echo \in SUBSET WholeForms, NEW text \in StatusText(echo)
    PROVE  text = {}
BY DEF StatusText, redact, firstLine

(* The outcomes of a call that the service answers. *)
LEMMA InterpretedFacts ==
    ASSUME NEW k \in Keys, NEW status \in {"200", "404", "other"},
           NEW body \in {"payload", "message", "unparsable"}, NEW echo \in Echoes,
           NEW r \in Interpreted(k, status, body, echo)
    PROVE  /\ r \in Results
           /\ r.err.repeats = {}
           /\ ~r.err.failed => r.err = NoError
<1>1. echo \in SUBSET WholeForms
  BY APIAssumption DEF WholeForms
<1>2. CASE r = NoData
  BY <1>2, ResultFacts
<1>3. CASE \E text \in StatusText(echo) : r = Failure(text)
  <2>1. PICK text \in StatusText(echo) : r = Failure(text)
    BY <1>3
  <2>2. text \in SUBSET WholeForms
    BY <2>1, <1>1, StatusTextClean
  <2> QED
    BY <2>1, <2>2, FailureFacts
<1>4. CASE r \in {Failure({}), Failure(echo)}
  <2>1. {} \in SUBSET WholeForms
    OBVIOUS
  <2> QED
    BY <1>1, <1>4, <2>1, FailureFacts
<1>5. CASE r = Result(Extract(k), TRUE, NoError)
  BY <1>5, ResultFacts DEF Result
<1> QED
  BY <1>2, <1>3, <1>4, <1>5 DEF Interpreted

(* What CachePut does to the generations. *)
LEMMA PutFacts ==
    ASSUME TypeOK, NEW k \in Keys, NEW r \in Results, CachePut(k, r)
    PROVE  /\ current' \in Generations /\ previous' \in Generations
           /\ \A l \in DOMAIN current' : \/ l = k /\ current'[l] = r
                                         \/ l \in DOMAIN current /\ current'[l] = current[l]
           /\ \A l \in DOMAIN previous' :
                 \/ l \in DOMAIN current /\ previous'[l] = current[l]
                 \/ l \in DOMAIN previous /\ previous'[l] = previous[l]
<1>1. /\ DOMAIN current \in SUBSET Keys /\ current \in [DOMAIN current -> Results]
      /\ DOMAIN previous \in SUBSET Keys /\ previous \in [DOMAIN previous -> Results]
  BY DEF TypeOK, Generations
<1>2. CASE ~CacheEnabled
  BY <1>1, <1>2 DEF CachePut, cacheVars, TypeOK
<1>3. CASE CacheEnabled
  <2> DEFINE base == IF Full THEN EmptyGeneration ELSE current
  <2>1. DOMAIN base \in SUBSET Keys /\ base \in [DOMAIN base -> Results]
    BY <1>1 DEF EmptyGeneration
  <2>2. current' = [l \in DOMAIN base \cup {k} |-> IF l = k THEN r ELSE base[l]]
    BY <1>3 DEF CachePut
  <2>3. previous' = IF Full THEN current ELSE previous
    BY <1>3 DEF CachePut
  <2>4. current' \in [DOMAIN base \cup {k} -> Results]
    BY <2>1, <2>2
  <2>5. current' \in Generations
    <3>1. DOMAIN base \cup {k} \in SUBSET Keys
      BY <2>1
    <3> QED
      BY <2>4, <3>1 DEF Generations
  <2>6. previous' \in Generations
    BY <2>3 DEF TypeOK
  <2>7. \A l \in DOMAIN base : l \in DOMAIN current /\ base[l] = current[l]
    BY DEF EmptyGeneration
  <2> HIDE DEF base
  <2>8. \A l \in DOMAIN current' : \/ l = k /\ current'[l] = r
                                   \/ l \in DOMAIN current /\ current'[l] = current[l]
    BY <2>2, <2>7
  <2> QED
    BY <2>3, <2>5, <2>6, <2>8
<1> QED
  BY <1>2, <1>3

-----------------------------------------------------------------------------
LEMMA InvInit == Init => Inv
<1> SUFFICES ASSUME Init PROVE Inv
  OBVIOUS
<1>1. IdleRequest.key \in Keys
  BY APIAssumption DEF IdleRequest, Request
<1>2. EmptyGeneration \in Generations /\ DOMAIN EmptyGeneration = {}
  <2>1. EmptyGeneration \in [{} -> Results] /\ {} \in SUBSET Keys
    BY DEF EmptyGeneration
  <2> QED
    BY <2>1 DEF Generations, EmptyGeneration
<1>3. TypeOK
  BY <1>1, <1>2, ResultFacts DEF Init, CacheInit, TypeOK, IdleRequest, Request
<1>4. SaidInv
  BY <1>2 DEF Init, CacheInit, SaidInv, IdleRequest, Request
<1>5. KeyNeverRepeated
  BY ResultFacts DEF Init, KeyNeverRepeated, IdleRequest, Request
<1> QED
  BY <1>3, <1>4, <1>5 DEF Inv

(* A request takes on a result that repeats no key, with the cache and the
   request's address as they are. *)
LEMMA SettleKeepsTypes ==
    ASSUME TypeOK, NEW p \in Requests, NEW r \in Results, Settle(p, r)
    PROVE  /\ req' \in [Requests -> [pc : {"idle", "call", "store", "answered"},
                                     key : Keys, result : Results]]
           /\ failures' \in [Keys -> Nat]
           /\ req'[p] = [pc |-> "store", key |-> req[p].key, result |-> r]
           /\ \A q \in Requests : q # p => req'[q] = req[q]
BY DEF TypeOK, Settle, Request

LEMMA InvNext == Inv /\ [Next]_vars => Inv'
<1> SUFFICES ASSUME Inv, [Next]_vars PROVE Inv'
  OBVIOUS
<1> USE DEF Inv
<1>1. CASE UNCHANGED vars
  BY <1>1 DEF vars, cacheVars, counters, TypeOK, SaidInv, KeyNeverRepeated
<1>2. ASSUME NEW p \in Requests, NEW k \in Keys, GetCached(p, k)
      PROVE  Inv'
  <2>1. UNCHANGED <<current, previous, said, orphans, credits, failures>>
    BY <1>2 DEF GetCached, cacheVars
  <2>2. misses' \in [Keys -> Nat] /\ expiries' \in [Keys -> Nat]
    BY <1>2 DEF GetCached, TypeOK
  <2>3. CASE Cached(k) /\ req' = [req EXCEPT ![p] = Request("answered", k, EntryOf(k))]
    <3>1. EntryOf(k) \in said[k] /\ EntryOf(k) \in Results
      BY <2>3 DEF EntryOf, Cached, SaidInv, TypeOK
    <3>2. EntryOf(k).err = NoError
      BY <3>1 DEF SaidInv
    <3>3. TypeOK'
      BY <2>1, <2>2, <2>3, <3>1 DEF TypeOK, Request
    <3>4. SaidInv'
      BY <2>1, <2>3, <3>1 DEF SaidInv, TypeOK, Request
    <3>5. KeyNeverRepeated'
      BY <2>3, <3>2, ResultFacts DEF KeyNeverRepeated, TypeOK, Request
    <3> QED
      BY <3>3, <3>4, <3>5
  <2>4. CASE req' = [req EXCEPT ![p] = Request("call", k, NoData)]
    <3>1. TypeOK'
      BY <2>1, <2>2, <2>4, ResultFacts DEF TypeOK, Request
    <3>2. SaidInv'
      BY <2>1, <2>4 DEF SaidInv, TypeOK, Request
    <3>3. KeyNeverRepeated'
      BY <2>4, ResultFacts DEF KeyNeverRepeated, TypeOK, Request
    <3> QED
      BY <3>1, <3>2, <3>3
  <2> QED
    BY <1>2, <2>3, <2>4 DEF GetCached
<1>3. ASSUME NEW p \in Requests, ServeCall(p)
      PROVE  Inv'
  <2>1. PICK status \in {"200", "404", "other"},
             body \in {"payload", "message", "unparsable"}, echo \in Echoes :
             \E r \in Interpreted(req[p].key, status, body, echo) :
                /\ Settle(p, r)
                /\ said' = IF r.err.failed THEN said
                           ELSE [said EXCEPT ![req[p].key] = @ \cup {r}]
    BY <1>3 DEF ServeCall
  <2>2. PICK r \in Interpreted(req[p].key, status, body, echo) :
                /\ Settle(p, r)
                /\ said' = IF r.err.failed THEN said
                           ELSE [said EXCEPT ![req[p].key] = @ \cup {r}]
    BY <2>1
  <2>3. /\ req[p].key \in Keys
        /\ UNCHANGED <<current, previous, orphans, misses, expiries>>
        /\ credits' \in [Keys -> Nat]
    BY <1>3 DEF ServeCall, TypeOK, cacheVars
  <2>4. /\ r \in Results
        /\ r.err.repeats = {}
        /\ ~r.err.failed => r.err = NoError
    BY <2>3, InterpretedFacts
  <2>5. /\ \A k \in Keys : said[k] \subseteq said'[k]
        /\ \A k \in Keys : \A s \in said'[k] : s \in said[k] \/ (s = r /\ ~r.err.failed)
        /\ ~r.err.failed => r \in said'[req[p].key]
        /\ said' \in [Keys -> SUBSET Results]
    BY <2>2, <2>3, <2>4 DEF TypeOK
  <2>s. /\ req'[p] = [pc |-> "store", key |-> req[p].key, result |-> r]
        /\ \A q \in Requests : q # p => req'[q] = req[q]
    BY <2>2, <2>4, SettleKeepsTypes
  <2>6. TypeOK'
    BY <2>2, <2>3, <2>4, <2>5, SettleKeepsTypes DEF TypeOK
  <2>7. /\ DOMAIN current \subseteq Keys /\ DOMAIN previous \subseteq Keys
    BY DEF TypeOK, Generations
  <2>8. SaidInv'
    <3>1. \A k \in Keys : \A s \in said'[k] : s.err = NoError
      BY <2>4, <2>5 DEF SaidInv
    <3>2. \A q \in Requests :
            req'[q].pc \in {"store", "answered"} /\ ~req'[q].result.err.failed =>
                req'[q].result \in said'[req'[q].key]
      <4> TAKE q \in Requests
      <4>1. CASE q = p
        <5>1. req'[q].result = r /\ req'[q].key = req[p].key
          BY <2>s, <4>1
        <5> QED
          BY <2>5, <5>1
      <4>2. CASE q # p
        <5>1. req'[q] = req[q] /\ req[q].key \in Keys
          BY <2>s, <4>2 DEF TypeOK
        <5> QED
          BY <2>5, <5>1 DEF SaidInv
      <4> QED
        BY <4>1, <4>2
    <3> QED
      BY <2>3, <2>5, <2>7, <3>1, <3>2 DEF SaidInv
  <2>9. KeyNeverRepeated'
    <3>1. ASSUME NEW q \in Requests
          PROVE  req'[q].result.err.repeats = {}
      <4>1. CASE q = p
        BY <2>4, <2>s, <4>1
      <4>2. CASE q # p
        BY <2>s, <4>2 DEF KeyNeverRepeated
      <4> QED
        BY <4>1, <4>2
    <3> QED
      BY <3>1 DEF KeyNeverRepeated
  <2> QED
    BY <2>6, <2>8, <2>9
<1>4. ASSUME NEW p \in Requests, BreakCall(p) \/ TimeOut(p)
      PROVE  Inv'
  <2>1. /\ Settle(p, Failure({"query"})) /\ req[p].key \in Keys
        /\ UNCHANGED <<current, previous, said, credits, misses, expiries>>
        /\ orphans' \in [Keys -> Nat]
    BY <1>4 DEF BreakCall, TimeOut, TypeOK, cacheVars
  <2>2. {"query"} \in SUBSET WholeForms
    BY DEF WholeForms
  <2>3. /\ Failure({"query"}) \in Results
        /\ Failure({"query"}).err.failed
        /\ Failure({"query"}).err.repeats = {}
    BY <2>2, FailureFacts
  <2>4. TypeOK'
    BY <2>1, <2>3, SettleKeepsTypes DEF TypeOK
  <2> DEFINE r == Failure({"query"})
  <2>r. r \in Results /\ Settle(p, r)
    BY <2>1, <2>3
  <2> HIDE DEF r
  <2>t. /\ req'[p] = [pc |-> "store", key |-> req[p].key, result |-> r]
        /\ \A q \in Requests : q # p => req'[q] = req[q]
    BY <2>r, SettleKeepsTypes
  <2>s. /\ req'[p].result = Failure({"query"})
        /\ \A q \in Requests : q # p => req'[q] = req[q]
    BY <2>t DEF r
  <2>5. SaidInv'
    <3>1. ASSUME NEW q \in Requests, ~req'[q].result.err.failed
          PROVE  q # p
      BY <2>3, <2>s, <3>1
    <3> QED
      BY <2>1, <2>s, <3>1 DEF SaidInv
  <2>6. KeyNeverRepeated'
    <3>1. ASSUME NEW q \in Requests
          PROVE  req'[q].result.err.repeats = {}
      <4>1. CASE q = p
        BY <2>3, <2>s, <4>1
      <4>2. CASE q # p
        BY <2>s, <4>2 DEF KeyNeverRepeated
      <4> QED
        BY <4>1, <4>2
    <3> QED
      BY <3>1 DEF KeyNeverRepeated
  <2> QED
    BY <2>4, <2>5, <2>6
<1>5. ASSUME NEW k \in Keys, ServeOrphan(k)
      PROVE  Inv'
  <2>1. TypeOK'
    BY <1>5 DEF ServeOrphan, TypeOK, cacheVars
  <2> QED
    BY <1>5, <2>1 DEF ServeOrphan, cacheVars, SaidInv, KeyNeverRepeated
<1>6. ASSUME NEW p \in Requests, StoreResult(p)
      PROVE  Inv'
  <2>1. /\ req[p].pc = "store" /\ req[p].key \in Keys /\ req[p].result \in Results
        /\ UNCHANGED <<said, orphans, credits, misses, expiries, failures>>
        /\ req' = [req EXCEPT ![p].pc = "answered"]
    BY <1>6 DEF StoreResult, TypeOK, counters
  <2>2. /\ current' \in Generations /\ previous' \in Generations
        /\ \A l \in DOMAIN current' : current'[l] \in said[l]
        /\ \A l \in DOMAIN previous' : previous'[l] \in said[l]
    <3>1. CASE req[p].result.err.failed
      BY <1>6, <3>1 DEF StoreResult, cacheVars, TypeOK, SaidInv
    <3>2. CASE ~req[p].result.err.failed
      <4>1. CachePut(req[p].key, req[p].result)
        BY <1>6, <3>2 DEF StoreResult
      <4>2. req[p].result \in said[req[p].key]
        BY <2>1, <3>2 DEF SaidInv
      <4> QED
        BY <2>1, <4>1, <4>2, PutFacts DEF SaidInv
    <3> QED
      BY <3>1, <3>2
  <2>3. TypeOK'
    BY <2>1, <2>2 DEF TypeOK
  <2>4. SaidInv'
    BY <2>1, <2>2 DEF SaidInv, TypeOK
  <2>5. KeyNeverRepeated'
    BY <2>1 DEF KeyNeverRepeated, TypeOK
  <2> QED
    BY <2>3, <2>4, <2>5
<1>7. ASSUME NEW p \in Requests, FinishRequest(p)
      PROVE  Inv'
  <2>1. /\ UNCHANGED <<current, previous, said, orphans, credits, misses, expiries, failures>>
        /\ req' = [req EXCEPT ![p] = IdleRequest]
    BY <1>7 DEF FinishRequest, cacheVars, counters
  <2>2. IdleRequest.key \in Keys
    BY APIAssumption DEF IdleRequest, Request
  <2>3. TypeOK'
    BY <2>1, <2>2, ResultFacts DEF TypeOK, IdleRequest, Request
  <2>4. SaidInv'
    BY <2>1 DEF SaidInv, TypeOK, IdleRequest, Request
  <2>5. KeyNeverRepeated'
    BY <2>1, ResultFacts DEF KeyNeverRepeated, TypeOK, IdleRequest, Request
  <2> QED
    BY <2>3, <2>4, <2>5
<1> QED
  BY <1>1, <1>2, <1>3, <1>4, <1>5, <1>6, <1>7 DEF Next, RequestStep

LEMMA InvHolds == Spec => []Inv
BY InvInit, InvNext, PTL DEF Spec

(* Types are kept in every behaviour, in particular the results that calls
   leave behind and what the cache makes of them. *)
THEOREM APITypeCorrect == Spec => []TypeOK
<1>1. Inv => TypeOK
  BY DEF Inv
<1> QED
  BY <1>1, InvHolds, PTL

(* Whatever the service answers, breaks off or leaves to time out, the cache
   holds only what it has said about the address. *)
THEOREM CacheHoldsAnswers == Spec => []CachedIsAnswer
<1>1. Inv => CachedIsAnswer
  <2> SUFFICES ASSUME Inv PROVE CachedIsAnswer
    OBVIOUS
  <2>1. \A k \in Keys : Cached(k) => EntryOf(k) \in said[k]
    BY DEF Inv, SaidInv, Cached, EntryOf
  <2>2. \A p \in Requests : req[p].pc = "answered" /\ ~req[p].result.err.failed =>
            req[p].result \in said[req[p].key]
    BY DEF Inv, SaidInv
  <2> QED
    BY <2>1, <2>2 DEF CachedIsAnswer
<1> QED
  BY <1>1, InvHolds, PTL

(* No error of a lookup repeats the API key, whatever a service sends, as far as
   it echoes the key in a form that redact replaces (provider.go 356-388; the
   limit on the body's length is left out). *)
THEOREM KeyStaysSecret == Spec => []KeyNeverRepeated
<1>1. Inv => KeyNeverRepeated
  BY DEF Inv
<1> QED
  BY <1>1, InvHolds, PTL

-----------------------------------------------------------------------------
(* The requests whose calls for an address are under way, and those that may
   still put an answer for it into the cache. *)
Calling(k) == {p \in Requests : req[p].pc = "call" /\ req[p].key = k}
Pending(k) ==
    {p \in Requests : /\ req[p].key = k
                      /\ \/ req[p].pc = "call"
                         \/ req[p].pc = "store" /\ ~req[p].result.err.failed}

RoomForAll == CacheEnabled /\ Cardinality(Keys) <= MaxEntries

(* Every call under way was counted and will be charged at most once.  With
   room for all addresses, an address not yet cached was missed as often as
   lookups of it failed or are still under way. *)
CreditInv ==
    \A k \in Keys :
        /\ credits[k] + orphans[k] + Cardinality(Calling(k)) <= misses[k] + expiries[k]
        /\ RoomForAll =>
              /\ misses[k] <= failures[k] + Cardinality(Requests)
              /\ ~Cached(k) => misses[k] <= failures[k] + Cardinality(Pending(k))

LEMMA CountFacts ==
    ASSUME NEW k
    PROVE  /\ IsFiniteSet(Calling(k)) /\ Cardinality(Calling(k)) \in Nat
           /\ IsFiniteSet(Pending(k)) /\ Cardinality(Pending(k)) \in Nat
           /\ Cardinality(Requests) \in Nat
           /\ Cardinality(Pending(k)) <= Cardinality(Requests)
<1>1. IsFiniteSet(Requests)
  BY APIAssumption
<1>2. Calling(k) \subseteq Requests /\ Pending(k) \subseteq Requests
  BY DEF Calling, Pending
<1>3. IsFiniteSet(Calling(k))
  BY <1>1, <1>2, FS_Subset
<1>4. IsFiniteSet(Pending(k)) /\ Cardinality(Pending(k)) <= Cardinality(Requests)
  BY <1>1, <1>2, FS_Subset
<1> QED
  BY <1>1, <1>3, <1>4, FS_CardinalityType

(* The same of the next state. *)
LEMMA CountFactsNext ==
    ASSUME NEW k
    PROVE  /\ Cardinality(Calling(k)') \in Nat
           /\ Cardinality(Pending(k)') \in Nat
           /\ Cardinality(Pending(k)') <= Cardinality(Requests)
<1>1. IsFiniteSet(Requests)
  BY APIAssumption
<1>2. Calling(k)' \subseteq Requests /\ Pending(k)' \subseteq Requests
  BY DEF Calling, Pending
<1>3. IsFiniteSet(Calling(k)')
  BY <1>1, <1>2, FS_Subset
<1>4. IsFiniteSet(Pending(k)') /\ Cardinality(Pending(k)') <= Cardinality(Requests)
  BY <1>1, <1>2, FS_Subset
<1> QED
  BY <1>3, <1>4, FS_CardinalityType

(* A put forgets no address as long as a generation has room for all: the one
   that is full has all of them, and is kept. *)
LEMMA PutForgetsNothing ==
    ASSUME TypeOK, RoomForAll, NEW k \in Keys, NEW r, CachePut(k, r), NEW l \in Keys
    PROVE  /\ Cached(l) => Cached(l)'
           /\ Cached(k)'
<1>1. DOMAIN current \subseteq Keys /\ IsFiniteSet(Keys)
  BY APIAssumption DEF TypeOK, Generations
<1>2. IsFiniteSet(DOMAIN current) /\ Cardinality(DOMAIN current) \in Nat
      /\ Cardinality(Keys) \in Nat /\ MaxEntries \in Nat
  BY <1>1, FS_Subset, FS_CardinalityType, CacheAssumption
<1>3. CASE Full
  <2>1. Cardinality(DOMAIN current) >= Cardinality(Keys)
    BY <1>2, <1>3 DEF Full, RoomForAll
  <2>2. Cardinality(DOMAIN current) <= Cardinality(Keys)
    BY <1>1, FS_Subset
  <2>3. Cardinality(DOMAIN current) = Cardinality(Keys)
    BY <1>2, <2>1, <2>2
  <2>4. DOMAIN current = Keys
    BY <1>1, <2>3, FS_Subset
  <2>5. previous' = current
    BY <1>3 DEF CachePut, RoomForAll
  <2> QED
    BY <2>4, <2>5 DEF Cached
<1>4. CASE ~Full
  <2>1. DOMAIN current' = DOMAIN current \cup {k} /\ previous' = previous
    BY <1>4 DEF CachePut, RoomForAll
  <2> QED
    BY <2>1 DEF Cached
<1> QED
  BY <1>3, <1>4

(* A call begins. *)
LEMMA CallBegins ==
    ASSUME TypeOK, NEW p \in Requests, NEW k \in Keys, req[p].pc = "idle",
           req' = [req EXCEPT ![p] = Request("call", k, NoData)]
    PROVE  /\ Cardinality(Calling(k)') = Cardinality(Calling(k)) + 1
           /\ Cardinality(Pending(k)') = Cardinality(Pending(k)) + 1
           /\ \A l \in Keys \ {k} : Calling(l)' = Calling(l) /\ Pending(l)' = Pending(l)
<1>1. /\ req'[p].pc = "call" /\ req'[p].key = k
      /\ \A q \in Requests : q # p => req'[q] = req[q]
  BY DEF TypeOK, Request
<1>2. Calling(k)' = Calling(k) \cup {p} /\ p \notin Calling(k)
  BY <1>1 DEF Calling
<1>3. Pending(k)' = Pending(k) \cup {p} /\ p \notin Pending(k)
  BY <1>1 DEF Pending
<1>4. \A l \in Keys \ {k} : Calling(l)' = Calling(l) /\ Pending(l)' = Pending(l)
  BY <1>1 DEF Calling, Pending
<1> QED
  BY <1>2, <1>3, <1>4, CountFacts, FS_AddElement

(* A call ends with a result. *)
LEMMA CallEnds ==
    ASSUME TypeOK, NEW p \in Requests, NEW r \in Results, req[p].pc = "call", Settle(p, r),
           NEW k \in Keys, req[p].key = k
    PROVE  /\ Cardinality(Calling(k)') = Cardinality(Calling(k)) - 1
           /\ IF r.err.failed
              THEN /\ Cardinality(Pending(k)') = Cardinality(Pending(k)) - 1
                   /\ failures'[k] = failures[k] + 1
              ELSE Pending(k)' = Pending(k) /\ failures'[k] = failures[k]
           /\ \A l \in Keys \ {k} : /\ Calling(l)' = Calling(l)
                                    /\ Pending(l)' = Pending(l)
                                    /\ failures'[l] = failures[l]
<1>1. /\ req'[p] = [pc |-> "store", key |-> k, result |-> r]
      /\ \A q \in Requests : q # p => req'[q] = req[q]
  BY SettleKeepsTypes
<1>2. Calling(k)' = Calling(k) \ {p} /\ p \in Calling(k) /\ p \in Pending(k)
  BY <1>1 DEF Calling, Pending
<1>3. Cardinality(Calling(k)') = Cardinality(Calling(k)) - 1
  BY <1>2, CountFacts, FS_RemoveElement
<1>p. Cardinality(Pending(k) \ {p}) = Cardinality(Pending(k)) - 1
  BY <1>2, CountFacts, FS_RemoveElement
<1>4. ASSUME r.err.failed = TRUE
      PROVE  /\ Cardinality(Pending(k)') = Cardinality(Pending(k)) - 1
             /\ failures'[k] = failures[k] + 1
  <2>1. Pending(k)' = Pending(k) \ {p}
    BY <1>1, <1>4 DEF Pending
  <2>3. failures'[k] = failures[k] + 1
    BY <1>1, <1>4 DEF Settle, TypeOK
  <2> QED
    BY <1>p, <2>1, <2>3
<1>5. ASSUME r.err.failed = FALSE
      PROVE  Pending(k)' = Pending(k) /\ failures'[k] = failures[k]
  <2>1. Pending(k)' = Pending(k)
    BY <1>1, <1>2, <1>5 DEF Pending
  <2> QED
    BY <2>1, <1>5 DEF Settle
<1>b. r.err.failed \in BOOLEAN
  BY DEF Results
<1>6. \A l \in Keys \ {k} : /\ Calling(l)' = Calling(l)
                            /\ Pending(l)' = Pending(l)
                            /\ failures'[l] = failures[l]
  BY <1>1 DEF Calling, Pending, Settle, TypeOK
<1> QED
  BY <1>3, <1>4, <1>5, <1>6, <1>b

(* The second part of CreditInv, for one address. *)
MissInv(k) ==
    RoomForAll =>
        /\ misses[k] <= failures[k] + Cardinality(Requests)
        /\ ~Cached(k) => misses[k] <= failures[k] + Cardinality(Pending(k))

LEMMA CreditInit == Init => CreditInv
<1> SUFFICES ASSUME Init, NEW k \in Keys
             PROVE  /\ credits[k] + orphans[k] + Cardinality(Calling(k)) <= misses[k] + expiries[k]
                    /\ MissInv(k)
  BY DEF CreditInv, MissInv
<1>1. Calling(k) = {} /\ Cardinality({}) = 0
  BY FS_EmptySet DEF Init, IdleRequest, Request, Calling
<1>2. credits[k] = 0 /\ orphans[k] = 0 /\ misses[k] = 0 /\ expiries[k] = 0 /\ failures[k] = 0
  BY DEF Init
<1>3. Cardinality(Pending(k)) \in Nat /\ Cardinality(Requests) \in Nat
  BY CountFacts
<1> QED
  BY <1>1, <1>2, <1>3 DEF MissInv

(* A step that ends a call without a charge, or moves the charge to an
   orphan, and leaves the cache alone. *)
LEMMA EndKeepsCredits ==
    ASSUME TypeOK, CreditInv, NEW p \in Requests, NEW r \in Results,
           req[p].pc = "call", Settle(p, r), UNCHANGED <<cacheVars, misses, expiries>>,
           credits' \in [Keys -> Nat], orphans' \in [Keys -> Nat],
           \A l \in Keys : credits'[l] + orphans'[l] <= credits[l] + orphans[l]
                                + (IF l = req[p].key THEN 1 ELSE 0)
    PROVE  CreditInv'
<1>1. PICK k \in Keys : k = req[p].key
  BY DEF TypeOK
<1> SUFFICES ASSUME NEW l \in Keys
             PROVE  /\ credits'[l] + orphans'[l] + Cardinality(Calling(l)')
                         <= misses'[l] + expiries'[l]
                    /\ MissInv(l)'
  BY DEF CreditInv, MissInv
<1>2. /\ credits[l] \in Nat /\ orphans[l] \in Nat /\ misses[l] \in Nat
      /\ expiries[l] \in Nat /\ failures[l] \in Nat
      /\ credits'[l] \in Nat /\ orphans'[l] \in Nat
  BY DEF TypeOK
<1>3. /\ Cardinality(Calling(l)) \in Nat /\ Cardinality(Calling(l)') \in Nat
      /\ Cardinality(Pending(l)) \in Nat /\ Cardinality(Pending(l)') \in Nat
      /\ Cardinality(Requests) \in Nat
  BY CountFacts, CountFactsNext
<1>4. /\ misses'[l] = misses[l] /\ expiries'[l] = expiries[l]
      /\ Cached(l)' = Cached(l)
  BY DEF cacheVars, Cached
<1>5. /\ credits[l] + orphans[l] + Cardinality(Calling(l)) <= misses[l] + expiries[l]
      /\ MissInv(l)
  BY DEF CreditInv, MissInv
<1>6. CASE l = k
  <2>1. credits'[l] + orphans'[l] <= credits[l] + orphans[l] + 1
    BY <1>1, <1>6
  <2>2. /\ Cardinality(Calling(l)') = Cardinality(Calling(l)) - 1
        /\ IF r.err.failed
           THEN /\ Cardinality(Pending(l)') = Cardinality(Pending(l)) - 1
                /\ failures'[l] = failures[l] + 1
           ELSE Pending(l)' = Pending(l) /\ failures'[l] = failures[l]
    BY <1>1, <1>6, CallEnds
  <2>3. credits'[l] + orphans'[l] + Cardinality(Calling(l)') <= misses'[l] + expiries'[l]
    BY <1>2, <1>3, <1>4, <1>5, <2>1, <2>2
  <2>4. MissInv(l)'
    <3> SUFFICES ASSUME RoomForAll
                 PROVE  /\ misses'[l] <= failures'[l] + Cardinality(Requests)
                        /\ ~Cached(l)' => misses'[l] <= failures'[l] + Cardinality(Pending(l)')
      BY DEF MissInv, RoomForAll, CacheEnabled
    <3>1. /\ misses[l] <= failures[l] + Cardinality(Requests)
          /\ ~Cached(l) => misses[l] <= failures[l] + Cardinality(Pending(l))
      BY <1>5 DEF MissInv
    <3> QED
      BY <1>2, <1>3, <1>4, <2>2, <3>1
  <2> QED
    BY <2>3, <2>4
<1>7. CASE l # k
  <2>1. credits'[l] + orphans'[l] <= credits[l] + orphans[l]
    BY <1>1, <1>2, <1>7
  <2>2. Calling(l)' = Calling(l) /\ Pending(l)' = Pending(l) /\ failures'[l] = failures[l]
    BY <1>1, <1>7, CallEnds
  <2>3. MissInv(l)'
    BY <1>4, <1>5, <2>2 DEF MissInv, RoomForAll, CacheEnabled
  <2> QED
    BY <1>2, <1>3, <1>4, <1>5, <2>1, <2>2, <2>3
<1> QED
  BY <1>6, <1>7

(* A step that changes no count, forgets no address, and takes from Pending
   only requests whose address is cached afterwards. *)
LEMMA RestKeepsCredits ==
    ASSUME TypeOK, CreditInv, UNCHANGED <<misses, expiries, failures>>,
           \A l \in Keys : credits'[l] + orphans'[l] = credits[l] + orphans[l],
           \A l \in Keys : Calling(l)' = Calling(l),
           RoomForAll => \A l \in Keys : /\ Cached(l) => Cached(l)'
                                         /\ Cached(l)' \/ Pending(l)' = Pending(l)
    PROVE  CreditInv'
<1> SUFFICES ASSUME NEW l \in Keys
             PROVE  /\ credits'[l] + orphans'[l] + Cardinality(Calling(l)')
                         <= misses'[l] + expiries'[l]
                    /\ MissInv(l)'
  BY DEF CreditInv, MissInv
<1>1. /\ credits'[l] + orphans'[l] = credits[l] + orphans[l]
      /\ Calling(l)' = Calling(l)
      /\ misses'[l] = misses[l] /\ expiries'[l] = expiries[l] /\ failures'[l] = failures[l]
  OBVIOUS
<1>2. /\ credits[l] + orphans[l] + Cardinality(Calling(l)) <= misses[l] + expiries[l]
      /\ MissInv(l)
  BY DEF CreditInv, MissInv
<1>3. credits'[l] + orphans'[l] + Cardinality(Calling(l)') <= misses'[l] + expiries'[l]
  BY <1>1, <1>2
<1>4. RoomForAll' = RoomForAll
  BY DEF RoomForAll, CacheEnabled
<1>5. MissInv(l)'
  BY <1>1, <1>2, <1>4 DEF MissInv
<1> QED
  BY <1>3, <1>5

LEMMA CreditNext == Inv /\ CreditInv /\ [Next]_vars => CreditInv'
<1> SUFFICES ASSUME Inv, CreditInv, [Next]_vars PROVE CreditInv'
  OBVIOUS
<1>t. TypeOK
  BY DEF Inv
<1>1. CASE UNCHANGED vars
  BY <1>1 DEF vars, cacheVars, counters, CreditInv, Calling, Pending, RoomForAll,
              CacheEnabled, Cached
<1>2. ASSUME NEW p \in Requests, NEW k \in Keys, GetCached(p, k)
      PROVE  CreditInv'
  <2>1. /\ req[p].pc = "idle"
        /\ UNCHANGED <<current, previous, orphans, credits, failures>>
    BY <1>2 DEF GetCached, cacheVars
  <2>2. CASE /\ req' = [req EXCEPT ![p] = Request("answered", k, EntryOf(k))]
             /\ UNCHANGED <<misses, expiries>>
    <3>1. \A q \in Requests : q # p => req'[q] = req[q]
      BY <1>t, <2>2 DEF TypeOK
    <3>2. req'[p].pc = "answered"
      BY <1>t, <2>2 DEF TypeOK, Request
    <3>3. \A l \in Keys : Calling(l)' = Calling(l) /\ Pending(l)' = Pending(l)
      BY <2>1, <3>1, <3>2 DEF Calling, Pending
    <3>4. \A l \in Keys : Cached(l)' = Cached(l)
      BY <2>1 DEF Cached
    <3> QED
      BY <1>t, <2>1, <2>2, <3>3, <3>4, RestKeepsCredits
  <2>3. CASE /\ req' = [req EXCEPT ![p] = Request("call", k, NoData)]
             /\ IF Cached(k)
                THEN expiries' = [expiries EXCEPT ![k] = @ + 1] /\ UNCHANGED misses
                ELSE misses' = [misses EXCEPT ![k] = @ + 1] /\ UNCHANGED expiries
    <3> SUFFICES ASSUME NEW l \in Keys
                 PROVE  /\ credits'[l] + orphans'[l] + Cardinality(Calling(l)')
                             <= misses'[l] + expiries'[l]
                        /\ MissInv(l)'
      BY DEF CreditInv, MissInv
    <3>1. /\ credits[l] \in Nat /\ orphans[l] \in Nat /\ misses[l] \in Nat
          /\ expiries[l] \in Nat /\ failures[l] \in Nat
          /\ credits'[l] = credits[l] /\ orphans'[l] = orphans[l] /\ failures'[l] = failures[l]
      BY <1>t, <2>1 DEF TypeOK
    <3>2. /\ Cardinality(Calling(l)) \in Nat /\ Cardinality(Pending(l)) \in Nat
          /\ Cardinality(Requests) \in Nat /\ Cardinality(Pending(l)') <= Cardinality(Requests)
      BY CountFacts, CountFactsNext
    <3>3. /\ credits[l] + orphans[l] + Cardinality(Calling(l)) <= misses[l] + expiries[l]
          /\ MissInv(l)
      BY DEF CreditInv, MissInv
    <3>4. Cached(l)' = Cached(l) /\ RoomForAll' = RoomForAll
      BY <2>1 DEF Cached, RoomForAll, CacheEnabled
    <3>5. CASE l = k
      <4>1. /\ Cardinality(Calling(l)') = Cardinality(Calling(l)) + 1
            /\ Cardinality(Pending(l)') = Cardinality(Pending(l)) + 1
        BY <1>t, <2>1, <2>3, <3>5, CallBegins
      <4>2. \/ Cached(l) /\ misses'[l] = misses[l] /\ expiries'[l] = expiries[l] + 1
            \/ ~Cached(l) /\ misses'[l] = misses[l] + 1 /\ expiries'[l] = expiries[l]
        BY <1>t, <2>3, <3>5 DEF TypeOK
      <4>3. credits'[l] + orphans'[l] + Cardinality(Calling(l)') <= misses'[l] + expiries'[l]
        BY <3>1, <3>2, <3>3, <4>1, <4>2
      <4>4. MissInv(l)'
        <5> SUFFICES ASSUME RoomForAll
                     PROVE  /\ misses'[l] <= failures'[l] + Cardinality(Requests)
                            /\ ~Cached(l)' => misses'[l] <= failures'[l] + Cardinality(Pending(l)')
          BY <3>4 DEF MissInv
        <5>1. /\ misses[l] <= failures[l] + Cardinality(Requests)
              /\ ~Cached(l) => misses[l] <= failures[l] + Cardinality(Pending(l))
          BY <3>3 DEF MissInv
        <5> QED
          BY <3>1, <3>2, <3>4, <4>1, <4>2, <5>1
      <4> QED
        BY <4>3, <4>4
    <3>6. CASE l # k
      <4>1. Calling(l)' = Calling(l) /\ Pending(l)' = Pending(l)
        BY <1>t, <2>1, <2>3, <3>6, CallBegins
      <4>2. misses'[l] = misses[l] /\ expiries'[l] = expiries[l]
        BY <1>t, <2>3, <3>6 DEF TypeOK
      <4> QED
        BY <3>1, <3>3, <3>4, <4>1, <4>2 DEF MissInv
    <3> QED
      BY <3>5, <3>6
  <2> QED
    BY <1>2, <2>2, <2>3 DEF GetCached
<1>3. ASSUME NEW p \in Requests, ServeCall(p)
      PROVE  CreditInv'
  <2>1. PICK status \in {"200", "404", "other"},
             body \in {"payload", "message", "unparsable"}, echo \in Echoes :
             \E r \in Interpreted(req[p].key, status, body, echo) : Settle(p, r)
    BY <1>3 DEF ServeCall
  <2>2. PICK r \in Interpreted(req[p].key, status, body, echo) : Settle(p, r)
    BY <2>1
  <2>3. /\ req[p].pc = "call" /\ req[p].key \in Keys
        /\ UNCHANGED <<cacheVars, orphans, misses, expiries>>
        /\ credits' = [credits EXCEPT ![req[p].key] = @ + 1]
    BY <1>t, <1>3 DEF ServeCall, TypeOK
  <2>4. r \in Results
    BY <2>3, InterpretedFacts
  <2>5. /\ credits' \in [Keys -> Nat] /\ orphans' \in [Keys -> Nat]
        /\ \A l \in Keys : credits'[l] + orphans'[l] <= credits[l] + orphans[l]
                               + (IF l = req[p].key THEN 1 ELSE 0)
    BY <1>t, <2>3 DEF TypeOK
  <2> QED
    BY <1>t, <2>2, <2>3, <2>4, <2>5, EndKeepsCredits
<1>4. ASSUME NEW p \in Requests, BreakCall(p) \/ TimeOut(p)
      PROVE  CreditInv'
  <2>1. /\ req[p].pc = "call" /\ req[p].key \in Keys
        /\ Settle(p, Failure({"query"}))
        /\ UNCHANGED <<cacheVars, credits, misses, expiries>>
        /\ orphans' = orphans \/ orphans' = [orphans EXCEPT ![req[p].key] = @ + 1]
    BY <1>t, <1>4 DEF BreakCall, TimeOut, TypeOK
  <2>2. {"query"} \in SUBSET WholeForms
    BY DEF WholeForms
  <2>3. Failure({"query"}) \in Results
    BY <2>2, FailureFacts
  <2>4. /\ credits' \in [Keys -> Nat] /\ orphans' \in [Keys -> Nat]
        /\ \A l \in Keys : credits'[l] + orphans'[l] <= credits[l] + orphans[l]
                               + (IF l = req[p].key THEN 1 ELSE 0)
    <3>1. credits' = credits /\ credits \in [Keys -> Nat] /\ orphans \in [Keys -> Nat]
      BY <1>t, <2>1 DEF TypeOK
    <3>2. CASE orphans' = orphans
      BY <3>1, <3>2
    <3>3. CASE orphans' = [orphans EXCEPT ![req[p].key] = @ + 1]
      BY <2>1, <3>1, <3>3
    <3> QED
      BY <2>1, <3>2, <3>3
  <2> QED
    BY <1>t, <2>1, <2>3, <2>4, EndKeepsCredits
<1>5. ASSUME NEW k \in Keys, ServeOrphan(k)
      PROVE  CreditInv'
  <2>1. UNCHANGED <<current, previous, req, misses, expiries, failures>>
    BY <1>5 DEF ServeOrphan, cacheVars
  <2>2. \A l \in Keys : credits'[l] + orphans'[l] = credits[l] + orphans[l]
    BY <1>t, <1>5 DEF ServeOrphan, TypeOK
  <2>3. \A l \in Keys : /\ Calling(l)' = Calling(l) /\ Pending(l)' = Pending(l)
                        /\ Cached(l)' = Cached(l)
    BY <2>1 DEF Calling, Pending, Cached
  <2> QED
    BY <1>t, <2>1, <2>2, <2>3, RestKeepsCredits
<1>6. ASSUME NEW p \in Requests, StoreResult(p)
      PROVE  CreditInv'
  <2>1. /\ req[p].pc = "store" /\ req[p].key \in Keys
        /\ UNCHANGED <<orphans, credits, misses, expiries, failures>>
        /\ req' = [req EXCEPT ![p].pc = "answered"]
    BY <1>t, <1>6 DEF StoreResult, TypeOK, counters
  <2>2. /\ req'[p].pc = "answered" /\ req'[p].key = req[p].key
        /\ req'[p].result = req[p].result
        /\ \A q \in Requests : q # p => req'[q] = req[q]
    BY <1>t, <2>1 DEF TypeOK
  <2>3. \A l \in Keys : Calling(l)' = Calling(l)
    BY <2>1, <2>2 DEF Calling
  <2>4. ASSUME RoomForAll, NEW l \in Keys
        PROVE  /\ Cached(l) => Cached(l)'
               /\ Cached(l)' \/ Pending(l)' = Pending(l)
    <3>1. CASE req[p].result.err.failed
      <4>1. Pending(l)' = Pending(l)
        BY <2>1, <2>2, <3>1 DEF Pending
      <4>2. Cached(l)' = Cached(l)
        BY <1>6, <3>1 DEF StoreResult, cacheVars, Cached
      <4> QED
        BY <4>1, <4>2
    <3>2. CASE ~req[p].result.err.failed
      <4>1. PICK k \in Keys : k = req[p].key
        BY <2>1
      <4>2. CachePut(k, req[p].result)
        BY <1>6, <3>2, <4>1 DEF StoreResult
      <4>3. (Cached(l) => Cached(l)') /\ Cached(k)'
        BY <1>t, <2>4, <4>2, PutForgetsNothing
      <4>4. l # k => Pending(l)' = Pending(l)
        BY <2>2, <4>1 DEF Pending
      <4> QED
        BY <4>3, <4>4
    <3> QED
      BY <3>1, <3>2
  <2> QED
    BY <1>t, <2>1, <2>3, <2>4, RestKeepsCredits
<1>7. ASSUME NEW p \in Requests, FinishRequest(p)
      PROVE  CreditInv'
  <2>1. /\ req[p].pc = "answered"
        /\ UNCHANGED <<current, previous, orphans, credits, misses, expiries, failures>>
        /\ req' = [req EXCEPT ![p] = IdleRequest]
    BY <1>7 DEF FinishRequest, cacheVars, counters
  <2>2. /\ req'[p].pc = "idle"
        /\ \A q \in Requests : q # p => req'[q] = req[q]
    BY <1>t, <2>1 DEF TypeOK, IdleRequest, Request
  <2>3. \A l \in Keys : /\ Calling(l)' = Calling(l) /\ Pending(l)' = Pending(l)
                        /\ Cached(l)' = Cached(l)
    BY <2>1, <2>2 DEF Calling, Pending, Cached
  <2> QED
    BY <1>t, <2>1, <2>3, RestKeepsCredits
<1> QED
  BY <1>1, <1>2, <1>3, <1>4, <1>5, <1>6, <1>7 DEF Next, RequestStep

(* However calls fail, time out and are served late, an address costs no more
   than the lookups that missed it, and with room in the cache no more misses
   than failures and requests in flight together, for any numbers of both. *)
THEOREM CreditsAreBounded == Spec => []CreditsBounded
<1>1. Inv /\ CreditInv => CreditsBounded
  <2> SUFFICES ASSUME Inv, CreditInv, NEW k \in Keys
               PROVE  /\ credits[k] + orphans[k] <= misses[k] + expiries[k]
                      /\ RoomForAll => misses[k] <= failures[k] + Cardinality(Requests)
    BY DEF CreditsBounded, RoomForAll
  <2>1. /\ credits[k] \in Nat /\ orphans[k] \in Nat /\ misses[k] \in Nat
        /\ expiries[k] \in Nat /\ Cardinality(Calling(k)) \in Nat
    BY CountFacts DEF Inv, TypeOK
  <2>2. credits[k] + orphans[k] + Cardinality(Calling(k)) <= misses[k] + expiries[k]
    BY DEF CreditInv
  <2> QED
    BY <2>1, <2>2 DEF CreditInv
<1> QED
  BY <1>1, CreditInit, CreditNext, InvHolds, PTL DEF Spec
=============================================================================
