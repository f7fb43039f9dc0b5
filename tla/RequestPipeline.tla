-------------------------- MODULE RequestPipeline --------------------------
(***************************************************************************)
(* What happens to one request (Plugin.ServeHTTP, src/plugin.go): strip    *)
(* the managed headers, the gates that need no lookup, the lookup, the     *)
(* headers for the backend, the rules, and the end: forwarded or refused.  *)
(*                                                                         *)
(* The lookup is one step, with any of the outcomes that LookupService and *)
(* the API provider can produce.  What there is about an address comes in  *)
(* layers, in the order of their priority: one for each database that has  *)
(* the address, and within one for each further path that a field is read  *)
(* from.  A layer that cannot be read is passed over, with an error or     *)
(* without one, so a field may be missing, and may come from a lower layer *)
(* that says something else.  A header's value is abstracted to who wrote  *)
(* it and from what.                                                       *)
(***************************************************************************)
EXTENDS AccessRules, Sequences, Functions

CONSTANTS
    RuleConfigs,   \* the configured rules
    HeaderMaps,    \* header name -> field, as buildHeaderMap returns it
    Data,          \* the layers of an address that the databases know
    OtherHeader    \* an X-IPGeo-* header that the configuration does not set

DryRunHeader == "X-IPGeo-Dry-Run"

ASSUME PipelineAssumption ==
    /\ \A m \in HeaderMaps : {DryRunHeader, OtherHeader} \cap DOMAIN m = {}
    /\ OtherHeader # DryRunHeader
    /\ \A c \in RuleConfigs :
          /\ \A f \in ListFields : c.allowed[f] \cup c.blocked[f] \subseteq Texts
          /\ c.allowUnknown \in BOOLEAN
          /\ ValidRuleSet(newRuleSet(c))

VARIABLES
    plugin,    \* the Plugin: rules, headerMap and the switches
    addr,      \* the client's address, by the tests it passes
    stage,     \* how far ServeHTTP is
    headers,   \* the request's headers
    data,      \* the layers of the address, <<>> when it is unknown
    result,    \* what resolve returned
    outcome    \* "pending", "forwarded" or "refused"

vars == <<plugin, addr, stage, headers, data, result, outcome>>

-----------------------------------------------------------------------------
Plugins ==
    [rules : {newRuleSet(c) : c \in RuleConfigs}, headerMap : HeaderMaps,
     failOpen : BOOLEAN, allowPrivate : BOOLEAN, dryRun : BOOLEAN]

(* known is FALSE when clientIP returned nil; then the tests are false, too. *)
Addrs ==
    {a \in [known : BOOLEAN, inAllowedIPs : BOOLEAN, inBlockedIPs : BOOLEAN,
            local : BOOLEAN] :
        ~a.known => ~a.inAllowedIPs /\ ~a.inBlockedIPs /\ ~a.local}

HeaderNames(p) == DOMAIN p.headerMap \cup {DryRunHeader, OtherHeader}

managedByConfiguration(p) ==  \* as a bug: the plugin's own header left out
    DOMAIN p.headerMap

(* managedHeaderNames *)
managed(p) == DOMAIN p.headerMap \cup {DryRunHeader}

(* selectFields: what the headers and the rules need. *)
selectFields(p) ==
    ({p.headerMap[h] : h \in DOMAIN p.headerMap} \ {"ip"})
      \cup requiredFields(p.rules)

NoHeader == [by |-> "nobody", from |-> "none"]
Forged == [by |-> "client", from |-> "none"]
Written(from) == [by |-> "plugin", from |-> from]

(* The fields that some layer has. *)
Held(d) == UNION {DOMAIN d[k] : k \in DOMAIN d}

FirstWith(f, d) ==
    CHOOSE k \in DOMAIN d :
        f \in DOMAIN d[k] /\ \A j \in 1..(k - 1) : f \notin DOMAIN d[j]

(* extractFields when every read succeeds: the first layer that has a field
   supplies it. *)
Full(d) == [f \in Held(d) |-> d[FirstWith(f, d)][f]]

NoFields == [f \in {} |-> TRUE]
NoResult == [fields |-> NoFields, found |-> FALSE, err |-> FALSE]

Init ==
    /\ plugin \in Plugins
    /\ addr \in Addrs
    /\ stage = "strip"
    /\ headers \in [HeaderNames(plugin) -> {NoHeader, Forged}]
    /\ data = <<>>
    /\ result = NoResult
    /\ outcome = "pending"

-----------------------------------------------------------------------------
ForwardAndGoOn ==  \* as a bug: a return left out
    outcome' = "forwarded" /\ UNCHANGED stage

Forward ==
    /\ outcome' = "forwarded"
    /\ stage' = "done"

FinishForReal(allowed) ==  \* as a bug: dryRun not consulted
    IF allowed THEN Forward /\ UNCHANGED headers
    ELSE outcome' = "refused" /\ stage' = "done" /\ UNCHANGED headers

(* finish: a refusal is only noted in a header when dryRun is on. *)
Finish(allowed) ==
    IF allowed THEN Forward /\ UNCHANGED headers
    ELSE IF plugin.dryRun
    THEN Forward /\ headers' = [headers EXCEPT ![DryRunHeader] = Written("reason")]
    ELSE outcome' = "refused" /\ stage' = "done" /\ UNCHANGED headers

(* stripManagedHeaders *)
Strip ==
    /\ stage = "strip"
    /\ headers' = [h \in DOMAIN headers |->
                      IF h \in managed(plugin) THEN NoHeader ELSE headers[h]]
    /\ stage' = "gates"
    /\ UNCHANGED <<plugin, addr, data, result, outcome>>

UnknownAddress ==
    /\ stage = "gates"
    /\ ~addr.known
    /\ Finish(plugin.failOpen)
    /\ UNCHANGED <<plugin, addr, data, result>>

(* The gates in their order; only an address that passes them all is looked
   up. *)
Exempt == addr.known /\ addr.inAllowedIPs
Banned == addr.known /\ ~addr.inAllowedIPs /\ addr.inBlockedIPs
Private ==
    /\ addr.known /\ ~addr.inAllowedIPs /\ ~addr.inBlockedIPs
    /\ addr.local /\ plugin.allowPrivate
NeedsLookup == addr.known /\ ~Exempt /\ ~Banned /\ ~Private

PassGate ==
    /\ stage = "gates"
    /\ Exempt \/ Private
    /\ Forward
    /\ UNCHANGED <<plugin, addr, headers, data, result>>

BlockAddress ==
    /\ stage = "gates"
    /\ Banned
    /\ Finish(FALSE)
    /\ UNCHANGED <<plugin, addr, data, result>>

(* resolve: any of the fields asked for, each from any layer that has it,
   because those above may not have been read; an answer with fields is a found
   one (plugin.go 364-379 over provider.go 172-196). *)
Resolve ==
    /\ stage = "gates"
    /\ NeedsLookup
    /\ \E d \in Data \cup {<<>>} :
          /\ data' = d
          /\ \E got \in SUBSET (Held(d) \cap selectFields(plugin)) :
             \E from \in [got -> DOMAIN d], found, err \in BOOLEAN :
                /\ \A f \in got : f \in DOMAIN d[from[f]]
                /\ got # {} => found
                /\ found => d # <<>>
                /\ result' = [fields |-> [f \in got |-> d[from[f]][f]],
                              found |-> found, err |-> err]
    /\ stage' = "looked up"
    /\ UNCHANGED <<plugin, addr, headers, outcome>>

LookupFailed == result.err /\ DOMAIN result.fields = {}

(* Only an error that left no field at all is the end of the request. *)
GiveUp ==
    /\ stage = "looked up"
    /\ LookupFailed
    /\ Finish(plugin.failOpen)
    /\ UNCHANGED <<plugin, addr, data, result>>

(* applyHeaders sets a header unless its value is empty. *)
ApplyHeaders ==
    /\ stage = "looked up"
    /\ ~LookupFailed
    /\ headers' = [h \in DOMAIN headers |->
          IF h \in DOMAIN plugin.headerMap
             /\ plugin.headerMap[h] \in DOMAIN result.fields \cup {"ip"}
          THEN Written(plugin.headerMap[h]) ELSE headers[h]]
    /\ stage' = "rules"
    /\ UNCHANGED <<plugin, addr, data, result, outcome>>

ApplyRules ==
    /\ stage = "rules"
    /\ Finish(evaluate(plugin.rules, result.fields, result.found))
    /\ UNCHANGED <<plugin, addr, data, result>>

Next ==
    \/ Strip
    \/ UnknownAddress
    \/ PassGate
    \/ BlockAddress
    \/ Resolve
    \/ GiveUp
    \/ ApplyHeaders
    \/ ApplyRules

Spec == Init /\ [][Next]_vars
-----------------------------------------------------------------------------
(* The request's state keeps its shape; a result has fields only of those
   that were asked for. *)
TypeOK ==
    /\ plugin \in Plugins /\ addr \in Addrs
    /\ stage \in {"strip", "gates", "looked up", "rules", "done"}
    /\ outcome \in {"pending", "forwarded", "refused"}
    /\ stage = "done" <=> outcome # "pending"
    /\ DOMAIN headers = HeaderNames(plugin)
    /\ DOMAIN result.fields \subseteq Held(data) \cap selectFields(plugin)
    /\ {result.found, result.err} \subseteq BOOLEAN

(* The lookup answered with all that the databases have. *)
CompleteResult ==
    /\ ~result.err
    /\ result.fields = Restrict(Full(data), Held(data) \cap selectFields(plugin))
    /\ result.found = (data # <<>>)

(* The few fields resolved per request decide as all of the address's data
   would: requiredFields leaves out nothing that evaluate reads, the guard of
   blockBot included (rules.go 123-146 against 149-219). *)
DecidesOnAllData ==
    stage = "done" /\ NeedsLookup /\ CompleteResult /\ ~plugin.dryRun =>
        (outcome = "forwarded"
            <=> evaluate(plugin.rules, Full(data), data # <<>>))

(* On every way out of ServeHTTP, the backend sees a header that the plugin
   manages only if the plugin wrote it, from the field the configuration
   names, or for the dry run (plugin.go 321-322, 382-400, 409-413). *)
ManagedHeadersAuthentic ==
    outcome = "forwarded" => \A h \in DOMAIN plugin.headerMap \cup {DryRunHeader} :
        \/ headers[h] = NoHeader
        \/ h \in DOMAIN plugin.headerMap
             /\ headers[h] = Written(plugin.headerMap[h])
        \/ h = DryRunHeader /\ plugin.dryRun /\ headers[h] = Written("reason")

(* With dryRun no request is refused, whatever its way through ServeHTTP
   ("nothing is refused, blockedIPs included", OPTIONS.md; plugin.go
   409-413). *)
DryRunRefusesNothing == plugin.dryRun => outcome # "refused"

(* The strict reading of an allow list (allowUnknown and failOpen off): a
   request that is not exempt reaches the backend only if its country is
   known and listed, however the lookup failed (plugin.go 324-361, rules.go
   149-166). *)
StrictAllowList ==
    LET listed == plugin.rules.allowed["country_code"]
    IN outcome = "forwarded" /\ ~plugin.dryRun /\ ~plugin.failOpen
         /\ ~plugin.rules.allowUnknown /\ listed # {} /\ ~Exempt /\ ~Private
       => CodeOf("country_code", result.fields) \in listed

(* The mark that spares a crawler was not lost with what could not be read. *)
MarkKept ==
    (\E k \in DOMAIN data : truthy("is_known_good_bot", data[k]))
        => \/ truthy("is_known_good_bot", result.fields)
           \/ "is_known_good_bot" \notin requiredFields(plugin.rules)

(* An answer may be pieced together from what several databases say, with parts
   of each missing (provider.go 28-39, 179-195).  While unknowns are allowed, it
   refuses a request only if one of them taken alone would: neither a missing
   field nor the mixture refuses a request that all of them let in, but for a
   crawler whose mark was lost (rules.go 154-216). *)
RefusalIsSupported ==
    outcome = "refused" /\ NeedsLookup /\ ~LookupFailed
      /\ plugin.rules.allowUnknown /\ MarkKept
        => \E k \in DOMAIN data : ~evaluate(plugin.rules, data[k], TRUE)
-----------------------------------------------------------------------------
(* failOpen = false: "the request is blocked" when "the lookup itself fails:
   a broken database, ..." (OPTIONS.md). *)
FailClosed ==
    outcome = "forwarded" /\ result.err => plugin.failOpen \/ plugin.dryRun
=============================================================================
