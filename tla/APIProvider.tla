---------------------------- MODULE APIProvider ----------------------------
(***************************************************************************)
(* The plugin in api mode: requests that resolve addresses through the     *)
(* cache and, when they miss, through one call each of the REST service    *)
(* (Plugin.resolve around apiProvider.lookup).                             *)
(*                                                                         *)
(* The service is external.  It may answer late, with any status, or       *)
(* never; it charges a credit for every call that reaches it, those        *)
(* included whose caller has given up.  A request waits until the answer,  *)
(* the client's timeout, or the end of its own context.                    *)
(*                                                                         *)
(* An error's text matters in one way: which forms of the API key it       *)
(* repeats.  The key is in every URL, and a service may echo it.           *)
(***************************************************************************)
EXTENDS ResultCache

CONSTANTS
    Requests,    \* requests that may be in flight
    Keys,        \* client addresses
    Extract(_),  \* the fields that an address's payload yields
    HasTimeout,  \* apiTimeout is not "0"
    Echoes,      \* what forms of the key a service's answer may repeat
    MaxCalls     \* bound on the calls for each address

ASSUME APIAssumption ==
    /\ HasTimeout \in BOOLEAN
    /\ MaxCalls \in [Keys -> Nat]
    /\ IsFiniteSet(Requests) /\ IsFiniteSet(Keys) /\ Keys # {}
    /\ Echoes \subseteq SUBSET {"raw", "query", "path"}

VARIABLES
    req,      \* the requests
    orphans,  \* calls under way whose callers have given up, per address
    said,     \* what the service has said about each address
    credits,  \* calls the service has charged, per address
    misses,   \* lookups that found nothing in the cache, per address
    expiries, \* lookups that found an expired entry, per address
    failures  \* lookups that ended in an error, per address

counters == <<credits, misses, expiries, failures>>
vars == <<cacheVars, req, orphans, said, counters>>

-----------------------------------------------------------------------------
(* The key as it is, escaped for a query or a path, or cut short. *)
WholeForms == {"raw", "query", "path"}
Forms == WholeForms \cup {"cut"}

NoError == [failed |-> FALSE, repeats |-> {}]
Empty == [x \in {} |-> x]

Result(fields, found, err) == [fields |-> fields, found |-> found, err |-> err]
NoData == Result(Empty, FALSE, NoError)

Request(pc, k, result) == [pc |-> pc, key |-> k, result |-> result]
IdleRequest == Request("idle", CHOOSE k \in Keys : TRUE, NoData)

Init ==
    /\ CacheInit
    /\ req = [p \in Requests |-> IdleRequest]
    /\ orphans = [k \in Keys |-> 0]
    /\ said = [k \in Keys |-> {}]
    /\ credits = [k \in Keys |-> 0]
    /\ misses = [k \in Keys |-> 0]
    /\ expiries = [k \in Keys |-> 0]
    /\ failures = [k \in Keys |-> 0]

-----------------------------------------------------------------------------
(* Replacing looks for whole keys. *)
redact(repeats) == repeats \ WholeForms

(* The first line, cut at 200 bytes, which may be in the middle of a key. *)
firstLine(repeats) ==
    IF repeats = {} THEN {{}} ELSE SUBSET (repeats \cup {"cut"})

StatusTextCutFirst(echo) ==  \* as a bug: redacted only after it is cut
    {redact(text) : text \in firstLine(echo)}

(* The text of the error for an unexpected status. *)
StatusText(echo) == firstLine(redact(echo))

FailureNil(repeats) ==  \* as a bug: the nil map is handed on
    Result([x \in {"nil"} |-> <<>>], FALSE, [failed |-> TRUE, repeats |-> redact(repeats)])

(* lookup's deferred function redacts whatever error it returns; resolve
   turns the nil fields into none. *)
Failure(repeats) ==
    Result(Empty, FALSE, [failed |-> TRUE, repeats |-> redact(repeats)])

(* The rest of lookup, after the body is read: the results that the status
   and the body lead to.  Only 404 says that the address has no data. *)
Interpreted(k, status, body, echo) ==
    CASE status = "404" -> {NoData}
      [] status = "other" -> {Failure(text) : text \in StatusText(echo)}
      [] status = "200" /\ body = "unparsable" -> {Failure({})}
      [] status = "200" /\ body = "message" -> {Failure(echo)}
      [] status = "200" /\ body = "payload" -> {Result(Extract(k), TRUE, NoError)}

(* The request p goes on with a result. *)
Settle(p, result) ==
    /\ req' = [req EXCEPT ![p] = Request("store", req[p].key, result)]
    /\ failures' = IF result.err.failed
                   THEN [failures EXCEPT ![req[p].key] = @ + 1] ELSE failures

-----------------------------------------------------------------------------
(* resolve: cache.get.  The entry found may be expired, at any time. *)
GetCached(p, k) ==
    /\ req[p].pc = "idle"
    /\ \/ /\ Cached(k)
          /\ req' = [req EXCEPT ![p] = Request("answered", k, EntryOf(k))]
          /\ UNCHANGED <<misses, expiries>>
       \/ /\ misses[k] + expiries[k] < MaxCalls[k]
          /\ req' = [req EXCEPT ![p] = Request("call", k, NoData)]
          /\ IF Cached(k)
             THEN expiries' = [expiries EXCEPT ![k] = @ + 1] /\ UNCHANGED misses
             ELSE misses' = [misses EXCEPT ![k] = @ + 1] /\ UNCHANGED expiries
    /\ UNCHANGED <<cacheVars, orphans, said, credits, failures>>

(* The call reaches the service and is answered in time. *)
ServeCall(p) ==
    /\ req[p].pc = "call"
    /\ \E status \in {"200", "404", "other"},
          body \in {"payload", "message", "unparsable"}, echo \in Echoes :
          \E result \in Interpreted(req[p].key, status, body, echo) :
             /\ Settle(p, result)
             /\ said' = IF result.err.failed THEN said
                        ELSE [said EXCEPT ![req[p].key] = @ \cup {result}]
    /\ credits' = [credits EXCEPT ![req[p].key] = @ + 1]
    /\ UNCHANGED <<cacheVars, orphans, misses, expiries>>

(* client.Do or the read of the body fails.  The error of client.Do has the
   URL in it; the call may be charged all the same, now or later. *)
BreakCall(p) ==
    /\ req[p].pc = "call"
    /\ Settle(p, Failure({"query"}))
    /\ \/ UNCHANGED orphans
       \/ orphans' = [orphans EXCEPT ![req[p].key] = @ + 1]
    /\ UNCHANGED <<cacheVars, said, credits, misses, expiries>>

TimeOutIgnored(p) ==  \* as a bug: an http.Client without a timeout
    FALSE /\ UNCHANGED vars

(* The client's timeout passes: the same error, while the call goes on. *)
TimeOut(p) ==
    /\ HasTimeout
    /\ req[p].pc = "call"
    /\ Settle(p, Failure({"query"}))
    /\ orphans' = [orphans EXCEPT ![req[p].key] = @ + 1]
    /\ UNCHANGED <<cacheVars, said, credits, misses, expiries>>

(* The service deals with a call that nobody waits for. *)
ServeOrphan(k) ==
    /\ orphans[k] > 0
    /\ orphans' = [orphans EXCEPT ![k] = @ - 1]
    /\ credits' = [credits EXCEPT ![k] = @ + 1]
    /\ UNCHANGED <<cacheVars, req, said, misses, expiries, failures>>

StoreIfFound(p) ==  \* as a bug: an address without data is not remembered
    /\ req[p].pc = "store"
    /\ IF ~req[p].result.found THEN UNCHANGED cacheVars
       ELSE CachePut(req[p].key, req[p].result)
    /\ req' = [req EXCEPT ![p].pc = "answered"]
    /\ UNCHANGED <<orphans, said, counters>>

StoreAnything(p) ==  \* as a bug: a failure is remembered as "no data"
    /\ req[p].pc = "store"
    /\ CachePut(req[p].key, [req[p].result EXCEPT !.err = NoError])
    /\ req' = [req EXCEPT ![p].pc = "answered"]
    /\ UNCHANGED <<orphans, said, counters>>

(* The rest of resolve: an answer without an error is cached. *)
StoreResult(p) ==
    /\ req[p].pc = "store"
    /\ IF req[p].result.err.failed THEN UNCHANGED cacheVars
       ELSE CachePut(req[p].key, req[p].result)
    /\ req' = [req EXCEPT ![p].pc = "answered"]
    /\ UNCHANGED <<orphans, said, counters>>

FinishRequest(p) ==
    /\ req[p].pc = "answered"
    /\ req' = [req EXCEPT ![p] = IdleRequest]
    /\ UNCHANGED <<cacheVars, orphans, said, counters>>

-----------------------------------------------------------------------------
RequestStep(p) == TimeOut(p) \/ StoreResult(p) \/ FinishRequest(p)

Next ==
    \/ \E p \in Requests :
          \/ \E k \in Keys : GetCached(p, k)
          \/ ServeCall(p)
          \/ BreakCall(p)
          \/ RequestStep(p)
    \/ \E k \in Keys : ServeOrphan(k)

Spec == Init /\ [][Next]_vars

(* A request that can go on does, and a timer that is set fires.  Nothing
   obliges the service to answer. *)
FairSpec == Spec /\ \A p \in Requests : WF_vars(RequestStep(p))

-----------------------------------------------------------------------------
Results == [fields : {Empty} \cup {Extract(k) : k \in Keys}, found : BOOLEAN,
            err : [failed : BOOLEAN, repeats : SUBSET Forms]]
Generations == UNION {[held -> Results] : held \in SUBSET Keys}

(* Every variable keeps its type; resolve hands out fields, never nil. *)
TypeOK ==
    /\ current \in Generations /\ previous \in Generations
    /\ req \in [Requests -> [pc : {"idle", "call", "store", "answered"},
                             key : Keys, result : Results]]
    /\ said \in [Keys -> SUBSET Results]
    /\ orphans \in [Keys -> Nat] /\ credits \in [Keys -> Nat]
    /\ misses \in [Keys -> Nat] /\ expiries \in [Keys -> Nat]
    /\ failures \in [Keys -> Nat]

(* What the cache holds about an address, the service has said about it: not
   the outcome of a call that failed, and not another address's answer.  The
   same holds of what the requests that do not fail go on with
   (provider.go 384-400, plugin.go 365-379). *)
CachedIsAnswer ==
    /\ \A k \in Keys : Cached(k) => EntryOf(k) \in said[k]
    /\ \A p \in Requests :
          req[p].pc = "answered" /\ ~req[p].result.err.failed =>
              req[p].result \in said[req[p].key]

(* "Every request that misses the cache costs a credit" (provider.go 287-288),
   and no more than one, however many calls time out and are served later.
   As long as a generation has room for every address, an address is missed
   again only after a failure, or by requests that are in flight together. *)
CreditsBounded ==
    \A k \in Keys :
        /\ credits[k] + orphans[k] <= misses[k] + expiries[k]
        /\ CacheEnabled /\ Cardinality(Keys) <= MaxEntries =>
              misses[k] <= failures[k] + Cardinality(Requests)

(* No error text has the API key in it, in any form (provider.go 329-347,
   388; security_test.go). *)
KeyNeverRepeated == \A p \in Requests : req[p].result.err.repeats = {}

(* With a timeout every request ends, whether or not the service answers
   (OPTIONS.md 147: "On timeout the lookup fails"). *)
RequestsEnd == \A p \in Requests : req[p].pc # "idle" ~> req[p].pc = "idle"
=============================================================================
