--------------------------- MODULE PipelineProofs ---------------------------
(***************************************************************************)
(* Proofs about a request's way through ServeHTTP, for any rule sets,      *)
(* header maps and data.                                                   *)
(***************************************************************************)
EXTENDS RequestPipeline, TLAPS

-----------------------------------------------------------------------------
(* The rules on a part of the data *)

(* evaluate reads no field but those that requiredFields names, so it decides
   on any part of the data that has these as on all of it. *)
LEMMA EvaluateReadsRequired ==
    ASSUME NEW rs, NEW all, NEW S, NEW found,
           S \subseteq DOMAIN all,
           requiredFields(rs) \cap DOMAIN all \subseteq S
    PROVE  evaluate(rs, Restrict(all, S), found) <=> evaluate(rs, all, found)
<1> DEFINE part == Restrict(all, S)
<1>1. /\ DOMAIN part = S
      /\ \A f \in S : part[f] = all[f]
  BY DEF Restrict
<1>2. \A f \in requiredFields(rs) :
         /\ f \in DOMAIN part <=> f \in DOMAIN all
         /\ f \in DOMAIN part => part[f] = all[f]
  BY <1>1
<1> HIDE DEF part
<1>3. ASSUME NEW f \in ListFields
      PROVE  PassesLists(rs, f, part) <=> PassesLists(rs, f, all)
  <2>1. CASE rs.allowed[f] \cup rs.blocked[f] = {}
    BY <2>1 DEF PassesLists
  <2>2. CASE rs.allowed[f] \cup rs.blocked[f] # {}
    <3>1. f \in requiredFields(rs)
      BY <2>2 DEF requiredFields
    <3>2. CodeOf(f, part) = CodeOf(f, all)
      BY <1>2, <3>1 DEF CodeOf
    <3> QED
      BY <3>2 DEF PassesLists
  <2> QED
    BY <2>1, <2>2
<1>4. Flagged(rs, part) <=> Flagged(rs, all)
  <2>1. ASSUME NEW f \in requiredFields(rs)
        PROVE  truthy(f, part) <=> truthy(f, all)
    BY <1>2 DEF truthy
  <2>2. ASSUME NEW r \in rs.securityRules
        PROVE  /\ r.field \in requiredFields(rs)
               /\ \A u \in r.unless : u \in requiredFields(rs)
    BY DEF requiredFields
  <2> QED
    BY <2>1, <2>2 DEF Flagged
<1>5. ThreatTooHigh(rs, part) <=> ThreatTooHigh(rs, all)
  <2>1. rs.threatScoreAbove >= 0 => "threat_score" \in requiredFields(rs)
    BY DEF requiredFields
  <2> QED
    BY <1>2, <2>1 DEF ThreatTooHigh
<1>6. evaluate(rs, part, found) <=> evaluate(rs, all, found)
  BY <1>3, <1>4, <1>5 DEF evaluate
<1> QED
  BY <1>6 DEF part

-----------------------------------------------------------------------------
(* The invariant of the pipeline *)

Undecided ==
    \/ stage \in {"strip", "gates", "looked up", "rules"} /\ outcome = "pending"
    \/ stage = "done"

(* Only a request that was looked up, without failure, gets to the rules. *)
AtRules ==
    /\ stage \in {"looked up", "rules"} => NeedsLookup
    /\ stage = "rules" => ~LookupFailed

(* What the rules said is what was done. *)
RulesDecide ==
    stage = "done" /\ NeedsLookup /\ ~LookupFailed /\ ~plugin.dryRun =>
        (outcome = "forwarded"
            <=> evaluate(plugin.rules, result.fields, result.found))

(* Without rules to ask, only failOpen lets a request in that had to pass. *)
FailOpenDecides ==
    stage = "done" /\ ~Exempt /\ ~Private /\ (~NeedsLookup \/ LookupFailed)
      /\ ~plugin.dryRun /\ ~plugin.failOpen => outcome = "refused"

(* A resolved field is some layer's. *)
ResultFromData ==
    \A f \in DOMAIN result.fields :
        \E k \in DOMAIN data :
            f \in DOMAIN data[k] /\ result.fields[f] = data[k][f]

HeadersKept ==
    /\ plugin \in Plugins
    /\ DOMAIN headers = HeaderNames(plugin)

(* From the strip on, no managed header is the client's. *)
ManagedClean ==
    stage # "strip" => \A h \in managed(plugin) :
        \/ headers[h] = NoHeader
        \/ h \in DOMAIN plugin.headerMap
             /\ headers[h] = Written(plugin.headerMap[h])
        \/ h = DryRunHeader /\ plugin.dryRun /\ headers[h] = Written("reason")

PipelineInv ==
    /\ Undecided
    /\ AtRules
    /\ RulesDecide
    /\ FailOpenDecides
    /\ ResultFromData
    /\ HeadersKept
    /\ ManagedClean
    /\ DryRunRefusesNothing

LEMMA InitPipeline == Init => PipelineInv
BY DEF Init, PipelineInv, Undecided, AtRules, RulesDecide, FailOpenDecides,
       ResultFromData, NoResult, NoFields, HeadersKept, ManagedClean,
       DryRunRefusesNothing

(* finish does to the outcome and the headers what the switches say. *)
LEMMA FinishOutcome ==
    ASSUME NEW allowed \in BOOLEAN, Finish(allowed), HeadersKept,
           UNCHANGED plugin
    PROVE  /\ stage' = "done"
           /\ outcome' \in {"forwarded", "refused"}
           /\ plugin.dryRun => outcome' = "forwarded"
           /\ ~plugin.dryRun => (outcome' = "forwarded" <=> allowed)
           /\ HeadersKept'
           /\ \A h \in managed(plugin) :
                 \/ headers'[h] = headers[h]
                 \/ h = DryRunHeader /\ plugin.dryRun
                      /\ headers'[h] = Written("reason")
<1>1. DryRunHeader \in DOMAIN headers /\ managed(plugin) \subseteq DOMAIN headers
  BY DEF HeadersKept, HeaderNames, managed
<1>2. CASE allowed
  BY <1>2 DEF Finish, Forward, HeadersKept
<1>3. CASE ~allowed /\ plugin.dryRun
  BY <1>1, <1>3 DEF Finish, Forward, HeadersKept, HeaderNames
<1>4. CASE ~allowed /\ ~plugin.dryRun
  BY <1>4 DEF Finish, HeadersKept
<1> QED
  BY <1>2, <1>3, <1>4

LEMMA EvaluateIsBoolean ==
    ASSUME plugin \in Plugins, NEW fields, NEW found
    PROVE  evaluate(plugin.rules, fields, found) \in BOOLEAN
<1>1. PICK c \in RuleConfigs : plugin.rules = newRuleSet(c)
  BY DEF Plugins
<1>2. plugin.rules.allowUnknown \in BOOLEAN
  BY <1>1, PipelineAssumption DEF newRuleSet
<1> QED
  BY <1>2 DEF evaluate

(* Every end of a request through finish, before the lookup or after it. *)
LEMMA FinishPipeline ==
    ASSUME PipelineInv, NEW allowed \in BOOLEAN, Finish(allowed),
           stage # "strip",
           UNCHANGED <<plugin, addr, data, result>>,
           NeedsLookup /\ ~LookupFailed =>
               (allowed <=> evaluate(plugin.rules, result.fields, result.found)),
           ~NeedsLookup \/ LookupFailed => (allowed => plugin.failOpen)
    PROVE  PipelineInv'
<1>1. /\ stage' = "done"
      /\ outcome' \in {"forwarded", "refused"}
      /\ plugin.dryRun => outcome' = "forwarded"
      /\ ~plugin.dryRun => (outcome' = "forwarded" <=> allowed)
      /\ HeadersKept'
      /\ \A h \in managed(plugin) :
            \/ headers'[h] = headers[h]
            \/ h = DryRunHeader /\ plugin.dryRun
                 /\ headers'[h] = Written("reason")
  BY FinishOutcome DEF PipelineInv
<1>2. Undecided' /\ AtRules'
  BY <1>1 DEF Undecided, AtRules
<1>3. RulesDecide'
  BY <1>1, EvaluateIsBoolean
     DEF RulesDecide, NeedsLookup, Exempt, Banned, Private, LookupFailed,
         PipelineInv, HeadersKept
<1>4. FailOpenDecides'
  BY <1>1 DEF FailOpenDecides, NeedsLookup, Exempt, Banned, Private, LookupFailed
<1>5. ManagedClean'
  BY <1>1 DEF PipelineInv, ManagedClean, managed
<1>6. DryRunRefusesNothing'
  BY <1>1 DEF DryRunRefusesNothing
<1>7. ResultFromData'
  BY DEF PipelineInv, ResultFromData
<1> QED
  BY <1>1, <1>2, <1>3, <1>4, <1>5, <1>6, <1>7 DEF PipelineInv

(* What resolve returns, and what it leaves alone. *)
LEMMA ResolveEffect ==
    ASSUME Resolve
    PROVE  /\ \E got \in SUBSET (Held(data') \cap selectFields(plugin)) :
              \E from \in [got -> DOMAIN data'] :
                 /\ \A f \in got : f \in DOMAIN data'[from[f]]
                 /\ result'.fields = [f \in got |-> data'[from[f]][f]]
           /\ {result'.found, result'.err} \subseteq BOOLEAN
           /\ stage = "gates" /\ stage' = "looked up" /\ NeedsLookup
           /\ UNCHANGED <<plugin, addr, headers, outcome>>
<1>1. PICK got \in SUBSET (Held(data') \cap selectFields(plugin)) :
        \E from \in [got -> DOMAIN data'], found, err \in BOOLEAN :
            /\ \A f \in got : f \in DOMAIN data'[from[f]]
            /\ result' = [fields |-> [f \in got |-> data'[from[f]][f]],
                          found |-> found, err |-> err]
  BY DEF Resolve
<1>2. PICK from \in [got -> DOMAIN data'], found \in BOOLEAN, err \in BOOLEAN :
        /\ \A f \in got : f \in DOMAIN data'[from[f]]
        /\ result' = [fields |-> [f \in got |-> data'[from[f]][f]],
                      found |-> found, err |-> err]
  BY <1>1
<1>3. /\ result'.fields = [f \in got |-> data'[from[f]][f]]
      /\ result'.found = found /\ result'.err = err
  BY <1>2
<1>4. /\ stage = "gates" /\ stage' = "looked up" /\ NeedsLookup
      /\ UNCHANGED <<plugin, addr, headers, outcome>>
  BY DEF Resolve
<1> QED
  BY <1>2, <1>3, <1>4

LEMMA NextPipeline == PipelineInv /\ [Next]_vars => PipelineInv'
<1> SUFFICES ASSUME PipelineInv, [Next]_vars PROVE PipelineInv'
  OBVIOUS
<1>1. CASE Strip
  <2>1. stage = "strip" /\ stage' = "gates" /\ outcome' = outcome
    BY <1>1 DEF Strip
  <2>2. HeadersKept'
    BY <1>1 DEF Strip, PipelineInv, HeadersKept, HeaderNames
  <2>3. ManagedClean'
    BY <1>1 DEF Strip, PipelineInv, HeadersKept, HeaderNames, ManagedClean,
                managed
  <2>4. DryRunRefusesNothing'
    BY <1>1 DEF Strip, PipelineInv, DryRunRefusesNothing
  <2>5. ResultFromData'
    BY <1>1 DEF Strip, PipelineInv, ResultFromData
  <2> QED
    BY <2>1, <2>2, <2>3, <2>4, <2>5
       DEF PipelineInv, Undecided, AtRules, RulesDecide, FailOpenDecides
<1>2. CASE UnknownAddress
  <2>1. ~NeedsLookup /\ plugin.failOpen \in BOOLEAN
    BY <1>2 DEF UnknownAddress, NeedsLookup, PipelineInv, HeadersKept, Plugins
  <2> QED
    BY <1>2, <2>1, FinishPipeline DEF UnknownAddress
<1>3. CASE PassGate
  <2>1. ~NeedsLookup /\ (Exempt \/ Private)
    BY <1>3 DEF PassGate, NeedsLookup
  <2>2. /\ stage = "gates" /\ stage' = "done" /\ outcome' = "forwarded"
        /\ UNCHANGED <<plugin, addr, headers, data, result>>
    BY <1>3 DEF PassGate, Forward
  <2>3. RulesDecide' /\ AtRules' /\ Undecided' /\ DryRunRefusesNothing'
    BY <2>1, <2>2 DEF RulesDecide, AtRules, Undecided, DryRunRefusesNothing,
                      NeedsLookup, Exempt, Banned, Private
  <2>4. FailOpenDecides'
    BY <2>1, <2>2 DEF FailOpenDecides, Exempt, Private
  <2>5. HeadersKept' /\ ManagedClean'
    BY <2>2 DEF PipelineInv, HeadersKept, HeaderNames, ManagedClean, managed
  <2>6. ResultFromData'
    BY <2>2 DEF PipelineInv, ResultFromData
  <2> QED
    BY <2>3, <2>4, <2>5, <2>6 DEF PipelineInv
<1>4. CASE BlockAddress
  <2>1. ~NeedsLookup
    BY <1>4 DEF BlockAddress, NeedsLookup
  <2> QED
    BY <1>4, <2>1, FinishPipeline DEF BlockAddress
<1>5. CASE Resolve
  <2>1. /\ stage = "gates" /\ stage' = "looked up" /\ NeedsLookup
        /\ UNCHANGED <<plugin, addr, headers, outcome>>
    BY <1>5, ResolveEffect
  <2>2. ResultFromData'
    <3>1. PICK got : \E from \in [got -> DOMAIN data'] :
            /\ \A f \in got : f \in DOMAIN data'[from[f]]
            /\ result'.fields = [f \in got |-> data'[from[f]][f]]
      BY <1>5, ResolveEffect
    <3>2. PICK from \in [got -> DOMAIN data'] :
            /\ \A f \in got : f \in DOMAIN data'[from[f]]
            /\ result'.fields = [f \in got |-> data'[from[f]][f]]
      BY <3>1
    <3>3. ASSUME NEW f \in DOMAIN result'.fields
          PROVE  \E k \in DOMAIN data' :
                     f \in DOMAIN data'[k] /\ result'.fields[f] = data'[k][f]
      <4>1. f \in got
        BY <3>2
      <4>2. from[f] \in DOMAIN data' /\ f \in DOMAIN data'[from[f]]
        BY <3>2, <4>1
      <4>3. result'.fields[f] = data'[from[f]][f]
        BY <3>2, <4>1
      <4> QED
        BY <4>2, <4>3
    <3> QED
      BY <3>3 DEF ResultFromData
  <2> QED
    BY <2>1, <2>2 DEF PipelineInv, Undecided, AtRules, RulesDecide, FailOpenDecides,
                HeadersKept, HeaderNames, ManagedClean, managed, DryRunRefusesNothing,
                NeedsLookup, Exempt, Banned, Private
<1>6. CASE GiveUp
  <2>1. LookupFailed /\ plugin.failOpen \in BOOLEAN
    BY <1>6 DEF GiveUp, PipelineInv, HeadersKept, Plugins
  <2> QED
    BY <1>6, <2>1, FinishPipeline DEF GiveUp
<1>7. CASE ApplyHeaders
  <2>1. /\ stage = "looked up" /\ stage' = "rules" /\ ~LookupFailed
        /\ UNCHANGED <<plugin, addr, data, result, outcome>>
    BY <1>7 DEF ApplyHeaders
  <2>2. HeadersKept'
    BY <1>7 DEF ApplyHeaders, PipelineInv, HeadersKept, HeaderNames
  <2>3. ManagedClean'
    BY <1>7, <2>1 DEF ApplyHeaders, PipelineInv, HeadersKept, HeaderNames,
                      ManagedClean, managed
  <2>4. AtRules'
    BY <2>1 DEF PipelineInv, AtRules, LookupFailed, NeedsLookup, Exempt, Banned,
                Private
  <2>5. ResultFromData'
    BY <2>1 DEF PipelineInv, ResultFromData
  <2> QED
    BY <2>1, <2>2, <2>3, <2>4, <2>5
       DEF PipelineInv, Undecided, RulesDecide, FailOpenDecides,
           DryRunRefusesNothing
<1>8. CASE ApplyRules
  <2>1. evaluate(plugin.rules, result.fields, result.found) \in BOOLEAN
    BY EvaluateIsBoolean DEF PipelineInv, HeadersKept
  <2>2. NeedsLookup /\ ~LookupFailed
    BY <1>8 DEF ApplyRules, PipelineInv, AtRules
  <2> QED
    BY <1>8, <2>1, <2>2, FinishPipeline DEF ApplyRules
<1>9. CASE UNCHANGED vars
  BY <1>9 DEF vars, PipelineInv, Undecided, AtRules, RulesDecide,
              FailOpenDecides, ResultFromData, HeadersKept, HeaderNames,
              ManagedClean, managed, DryRunRefusesNothing, NeedsLookup, Exempt,
              Banned, Private, LookupFailed
<1> QED
  BY <1>1, <1>2, <1>3, <1>4, <1>5, <1>6, <1>7, <1>8, <1>9 DEF Next

LEMMA PipelineInvariance == Spec => []PipelineInv
BY InitPipeline, NextPipeline, PTL DEF Spec

-----------------------------------------------------------------------------
(* On every way out of ServeHTTP, what the backend sees under a managed name is
   the plugin's, from the configured field, or absent. *)
THEOREM HeadersAreAuthentic == Spec => []ManagedHeadersAuthentic
<1>1. ASSUME PipelineInv, outcome = "forwarded" PROVE stage # "strip"
  BY <1>1 DEF PipelineInv, Undecided
<1>2. PipelineInv => ManagedHeadersAuthentic
  BY <1>1 DEF PipelineInv, ManagedClean, ManagedHeadersAuthentic, managed
<1> QED
  BY <1>2, PipelineInvariance, PTL

(* With dryRun nothing is refused, on any path. *)
THEOREM DryRunIsHarmless == Spec => []DryRunRefusesNothing
<1>1. PipelineInv => DryRunRefusesNothing
  BY DEF PipelineInv
<1> QED
  BY <1>1, PipelineInvariance, PTL

(* The fields that selectFields asks for decide as all data would, for any
   rules: requiredFields leaves out nothing that evaluate reads. *)
THEOREM SelectedFieldsDecide == Spec => []DecidesOnAllData
<1>1. ASSUME PipelineInv, stage = "done", NeedsLookup, CompleteResult,
             ~plugin.dryRun
      PROVE  outcome = "forwarded"
               <=> evaluate(plugin.rules, Full(data), data # <<>>)
  <2> DEFINE S == Held(data) \cap selectFields(plugin)
  <2>1. outcome = "forwarded"
          <=> evaluate(plugin.rules, Restrict(Full(data), S), data # <<>>)
    BY <1>1 DEF PipelineInv, RulesDecide, CompleteResult, LookupFailed
  <2>2. DOMAIN Full(data) = Held(data)
    BY DEF Full
  <2>3. /\ S \subseteq DOMAIN Full(data)
        /\ requiredFields(plugin.rules) \cap DOMAIN Full(data) \subseteq S
    BY <2>2 DEF selectFields
  <2>4. evaluate(plugin.rules, Restrict(Full(data), S), data # <<>>)
          <=> evaluate(plugin.rules, Full(data), data # <<>>)
    BY <2>3, EvaluateReadsRequired
  <2> QED
    BY <2>1, <2>4
<1>2. PipelineInv => DecidesOnAllData
  BY <1>1 DEF DecidesOnAllData
<1> QED
  BY <1>2, PipelineInvariance, PTL

(* With a country list and nothing left open, a request that is not exempt
   reaches the backend only with a known and listed country. *)
THEOREM AllowListIsStrict == Spec => []StrictAllowList
<1> DEFINE listed == plugin.rules.allowed["country_code"]
<1>1. ASSUME PipelineInv, outcome = "forwarded", ~plugin.dryRun,
             ~plugin.failOpen, ~plugin.rules.allowUnknown, listed # {},
             ~Exempt, ~Private
      PROVE  CodeOf("country_code", result.fields) \in listed
  <2>1. stage = "done"
    BY <1>1 DEF PipelineInv, Undecided
  <2>2. NeedsLookup /\ ~LookupFailed
    BY <1>1, <2>1 DEF PipelineInv, FailOpenDecides
  <2>3. evaluate(plugin.rules, result.fields, result.found)
    BY <1>1, <2>1, <2>2 DEF PipelineInv, RulesDecide
  <2>4. PassesLists(plugin.rules, "country_code", result.fields)
    BY <1>1, <2>3 DEF evaluate, ListFields
  <2> QED
    BY <1>1, <2>4 DEF PassesLists
<1>2. PipelineInv => StrictAllowList
  BY <1>1 DEF StrictAllowList
<1> QED
  BY <1>2, PipelineInvariance, PTL

(* Where unknowns are allowed, fields that are each of some layer pass whenever
   every layer does, but for the mark that spares a crawler. *)
LEMMA MixturePasses ==
    ASSUME PipelineInv, NEW found, plugin.rules.allowUnknown, MarkKept,
           \A k \in DOMAIN data : evaluate(plugin.rules, data[k], TRUE)
    PROVE  evaluate(plugin.rules, result.fields, found)
<1> DEFINE rs == plugin.rules
           mixed == result.fields
<1>1. \A f \in DOMAIN mixed :
        \E k \in DOMAIN data : f \in DOMAIN data[k] /\ mixed[f] = data[k][f]
  BY DEF PipelineInv, ResultFromData
<1>2. PICK c \in RuleConfigs : rs = newRuleSet(c)
  BY DEF PipelineInv, HeadersKept, Plugins
<1>3. \A r \in rs.securityRules : r.unless \subseteq {"is_known_good_bot"}
  BY <1>2 DEF newRuleSet, SecurityRules
<1>4. ASSUME NEW f \in ListFields PROVE PassesLists(rs, f, mixed)
  <2>1. CASE f \in DOMAIN mixed
    <3>1. PICK k \in DOMAIN data : f \in DOMAIN data[k] /\ mixed[f] = data[k][f]
      BY <1>1, <2>1
    <3>2. PassesLists(rs, f, data[k])
      BY DEF evaluate
    <3>3. CodeOf(f, mixed) = CodeOf(f, data[k])
      BY <2>1, <3>1 DEF CodeOf
    <3> QED
      BY <3>2, <3>3 DEF PassesLists
  <2>2. CASE f \notin DOMAIN mixed
    BY <2>2 DEF PassesLists, CodeOf
  <2> QED
    BY <2>1, <2>2
<1>5. ~Flagged(rs, mixed)
  <2> SUFFICES ASSUME NEW r \in rs.securityRules, truthy(r.field, mixed),
                      \A u \in r.unless : ~truthy(u, mixed)
               PROVE  FALSE
    BY DEF Flagged
  <2>1. PICK k \in DOMAIN data :
          r.field \in DOMAIN data[k] /\ mixed[r.field] = data[k][r.field]
    BY <1>1 DEF truthy
  <2>2. truthy(r.field, data[k])
    BY <2>1 DEF truthy
  <2>3. \A u \in r.unless : u \in requiredFields(rs)
    BY DEF requiredFields
  <2>4. \A u \in r.unless : ~truthy(u, data[k])
    BY <1>3, <2>3 DEF MarkKept
  <2> QED
    BY <2>2, <2>4 DEF evaluate, Flagged
<1>6. ~ThreatTooHigh(rs, mixed)
  <2> SUFFICES ASSUME ThreatTooHigh(rs, mixed) PROVE FALSE
    OBVIOUS
  <2>1. PICK k \in DOMAIN data :
          /\ "threat_score" \in DOMAIN data[k]
          /\ mixed["threat_score"] = data[k]["threat_score"]
    BY <1>1 DEF ThreatTooHigh
  <2>2. ThreatTooHigh(rs, data[k])
    BY <2>1 DEF ThreatTooHigh
  <2> QED
    BY <2>2 DEF evaluate
<1> QED
  BY <1>4, <1>5, <1>6 DEF evaluate

(* An answer pieced together from several databases, with parts of each missing,
   refuses nobody whom each of them alone would let in, while unknowns are
   allowed and no crawler's mark was lost. *)
THEOREM RefusalsAreSupported == Spec => []RefusalIsSupported
<1>1. PipelineInv => RefusalIsSupported
  <2> SUFFICES ASSUME PipelineInv, outcome = "refused", NeedsLookup,
                      ~LookupFailed, plugin.rules.allowUnknown, MarkKept,
                      \A k \in DOMAIN data : evaluate(plugin.rules, data[k], TRUE)
               PROVE  FALSE
    BY DEF RefusalIsSupported
  <2>1. stage = "done" /\ ~plugin.dryRun
    BY DEF PipelineInv, Undecided, DryRunRefusesNothing
  <2>2. ~evaluate(plugin.rules, result.fields, result.found)
    BY <2>1 DEF PipelineInv, RulesDecide
  <2> QED
    BY <2>2, MixturePasses
<1> QED
  BY <1>1, PipelineInvariance, PTL

-----------------------------------------------------------------------------
(* The shape of the request's state.  finish ends the request on each of its
   three ways and keeps the names of the headers. *)
LEMMA FinishTypes ==
    ASSUME TypeOK, NEW allowed, Finish(allowed),
           UNCHANGED <<plugin, addr, data, result>>
    PROVE  TypeOK'
<1>1. /\ stage' = "done"
      /\ outcome' \in {"forwarded", "refused"}
      /\ DOMAIN headers' = DOMAIN headers
  BY DEF Finish, Forward
<1> QED
  BY <1>1 DEF TypeOK, HeaderNames, selectFields

LEMMA NextTypes == TypeOK /\ [Next]_vars => TypeOK'
<1> SUFFICES ASSUME TypeOK, [Next]_vars PROVE TypeOK'
  OBVIOUS
<1>1. CASE Strip
  <2>1. DOMAIN headers' = DOMAIN headers
    BY <1>1 DEF Strip
  <2> QED
    BY <1>1, <2>1 DEF Strip, TypeOK, HeaderNames, selectFields
<1>2. CASE UnknownAddress \/ BlockAddress \/ GiveUp \/ ApplyRules
  BY <1>2, FinishTypes DEF UnknownAddress, BlockAddress, GiveUp, ApplyRules
<1>3. CASE PassGate
  BY <1>3 DEF PassGate, Forward, TypeOK, HeaderNames, selectFields
<1>4. CASE Resolve
  <2>1. /\ stage = "gates" /\ stage' = "looked up"
        /\ UNCHANGED <<plugin, addr, headers, outcome>>
        /\ {result'.found, result'.err} \subseteq BOOLEAN
    BY <1>4, ResolveEffect
  <2>2. DOMAIN result'.fields \subseteq Held(data') \cap selectFields(plugin)
    BY <1>4, ResolveEffect
  <2> QED
    BY <2>1, <2>2 DEF TypeOK, HeaderNames, selectFields
<1>5. CASE ApplyHeaders
  <2>1. DOMAIN headers' = DOMAIN headers
    BY <1>5 DEF ApplyHeaders
  <2> QED
    BY <1>5, <2>1 DEF ApplyHeaders, TypeOK, HeaderNames, selectFields
<1>6. CASE UNCHANGED vars
  BY <1>6 DEF vars, TypeOK, HeaderNames, selectFields
<1> QED
  BY <1>1, <1>2, <1>3, <1>4, <1>5, <1>6 DEF Next

(* The request's state keeps its shape: it is done exactly when it has an
   outcome, and what resolve returns are fields that were asked for and that
   some layer has (plugin.go 321-377). *)
THEOREM PipelineTypes == Spec => []TypeOK
<1>1. Init => TypeOK
  BY DEF Init, TypeOK, NoResult, NoFields
<1> QED
  BY <1>1, NextTypes, PTL DEF Spec
=============================================================================
