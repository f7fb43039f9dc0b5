--------------------------- MODULE StartupProofs ---------------------------
(***************************************************************************)
(* Proofs about New, for any configurations, catalogue and presets: which  *)
(* configurations it accepts, what a failure leaves behind, and that the   *)
(* header map does not depend on the order in which Go iterates over the   *)
(* headers option.                                                         *)
(*                                                                         *)
(* The argument: each value of pc stands for the checks that have passed   *)
(* (Passed), for the databases that may be open (Resources), and for the   *)
(* entries of the headers option that are merged (HeadersSoFar).           *)
(***************************************************************************)
EXTENDS Startup, TLAPS, FiniteSetTheorems

AfterSettings == {"open", "watch", "api", "finish", "ready"}

(* The defaults change nothing but the mode, the preset and the status. *)
LEMMA Defaults ==
    ASSUME config \in Configs
    PROVE  /\ cfg.headers = config.headers /\ cfg.databases = config.databases
           /\ cfg.rulesValid = config.rulesValid /\ cfg.listsValid = config.listsValid
           /\ cfg.cacheTTL = config.cacheTTL /\ cfg.redirect = config.redirect
           /\ cfg.refreshInterval = config.refreshInterval
           /\ cfg.apiTimeout = config.apiTimeout /\ cfg.apiKey = config.apiKey
           /\ cfg.endpointValid = config.endpointValid
           /\ config.mode # "" => cfg.mode = config.mode
           /\ config.mode = "" => cfg.mode = "api" \/ cfg.mode = "mmdb"
           /\ config.mode = "" =>
                 (cfg.mode = "api" <=> config.apiKey /\ config.databases = 0)
           /\ cfg.preset = IF config.preset = "" THEN "minimal" ELSE config.preset
           /\ cfg.status = IF config.status = 0 THEN 403 ELSE config.status
           /\ cfg.databases \in Nat
           /\ DOMAIN cfg.headers \subseteq STRING \X STRING
<1>1. IsConfig(config)
  BY StartupAssumption
<1> QED
  BY <1>1 DEF IsConfig, withDefaults, cfg

-----------------------------------------------------------------------------
(* The checks New has behind it at each point. *)
SoundEntry(h) == h[2] # "" => cfg.headers[h] \in Catalog \cup {"", "ip"}

MMDBSound == cfg.mode = "mmdb" /\ cfg.databases > 0
APISound ==
    /\ cfg.mode = "api"
    /\ ValidDuration(cfg.apiTimeout) /\ cfg.apiKey /\ cfg.endpointValid

Passed ==
    /\ pc \notin {"rules", "failed"} =>
          cfg.rulesValid /\ cfg.preset \in DOMAIN PresetFields
    /\ \A h \in DOMAIN cfg.headers \ left : SoundEntry(h)
    /\ pc \in AfterSettings =>
          left = {} /\ cfg.listsValid /\ ValidDuration(cfg.cacheTTL) /\ StatusAccepted
    /\ pc \in {"open", "watch"} => MMDBSound
    /\ pc = "api" => cfg.mode = "api"
    /\ pc \in {"finish", "ready"} =>
          \/ MMDBSound /\ ValidDuration(cfg.refreshInterval)
          \/ APISound

(* The databases are opened in their order; only New's last steps start
   goroutines. *)
Resources ==
    /\ opened \cup broken \subseteq 1..cfg.databases
    /\ pc \in {"rules", "headers", "api"} => opened = {}
    /\ pc = "open" => \E n \in Nat : n < cfg.databases /\ opened = 1..n
    /\ pc = "failed" => opened = {} \/ LateRefusal
    /\ broken # {} => pc = "failed"
    /\ watcher \in {"none", "running", "ended"}
    /\ closer \in {"none", "running", "ended"}
    /\ watcher # "none" => pc \in {"finish", "ready"}
    /\ closer # "none" => pc = "ready"
    /\ interval = 0 \/ interval >= Minute
    /\ cancelled \in BOOLEAN

Refused == pc = "failed" => ~Sound(config) \/ broken # {}

NewInv ==
    /\ config \in Configs
    /\ pc \in AfterSettings \cup {"rules", "headers", "failed"}
    /\ left \subseteq DOMAIN cfg.headers
    /\ Passed
    /\ Resources
    /\ Refused

(* A configuration that passed every check is sound, and one that fails one of
   them is not. *)
LEMMA SoundMeansPassed ==
    ASSUME config \in Configs
    PROVE  Sound(config) <=>
             /\ cfg.rulesValid /\ cfg.preset \in DOMAIN PresetFields
             /\ \A h \in DOMAIN cfg.headers : SoundEntry(h)
             /\ cfg.listsValid /\ ValidDuration(cfg.cacheTTL) /\ StatusAccepted
             /\ (MMDBSound /\ ValidDuration(cfg.refreshInterval)) \/ APISound
<1>1. /\ cfg.headers = config.headers /\ cfg.databases = config.databases
      /\ cfg.rulesValid = config.rulesValid /\ cfg.listsValid = config.listsValid
      /\ cfg.cacheTTL = config.cacheTTL /\ cfg.redirect = config.redirect
      /\ cfg.refreshInterval = config.refreshInterval
      /\ cfg.apiTimeout = config.apiTimeout /\ cfg.apiKey = config.apiKey
      /\ cfg.endpointValid = config.endpointValid
      /\ config.mode # "" => cfg.mode = config.mode
      /\ config.mode = "" => cfg.mode = "api" \/ cfg.mode = "mmdb"
      /\ config.mode = "" =>
            (cfg.mode = "api" <=> config.apiKey /\ config.databases = 0)
      /\ cfg.preset = IF config.preset = "" THEN "minimal" ELSE config.preset
      /\ cfg.status = IF config.status = 0 THEN 403 ELSE config.status
  BY Defaults
<1>2. config.status \in Int /\ config.databases \in Nat /\ config.apiKey \in BOOLEAN
  BY StartupAssumption DEF IsConfig
<1>3. cfg.preset \in DOMAIN PresetFields
        <=> config.preset \in DOMAIN PresetFields \cup {""}
  BY <1>1, StartupAssumption
<1>4. cfg.status \in 100..599 <=> config.status \in {0} \cup 100..599
  <2>1. /\ config.status \in Int
        /\ cfg.status = IF config.status = 0 THEN 403 ELSE config.status
    BY <1>1, <1>2
  <2>2. CASE config.status = 0
    BY <2>1, <2>2
  <2>3. CASE config.status # 0
    BY <2>1, <2>3
  <2> QED
    BY <2>2, <2>3
<1>5. (cfg.mode = "mmdb" /\ cfg.databases > 0)
        <=> (config.mode \in {"", "mmdb"} /\ config.databases > 0)
  <2>1. config.databases > 0 => config.databases # 0
    BY <1>2
  <2>2. config.mode \in {"", "mmdb"} /\ config.databases > 0 => cfg.mode = "mmdb"
    BY <1>1, <2>1, Zenon
  <2>3. cfg.mode = "mmdb" => config.mode \in {"", "mmdb"}
    BY <1>1, Zenon
  <2> QED
    BY <1>1, <2>2, <2>3, Zenon
<1>6. (cfg.mode = "api" /\ cfg.apiKey)
        <=> /\ config.mode = "api" \/ (config.mode = "" /\ config.databases = 0)
            /\ config.apiKey
  BY <1>1, <1>2
<1>7. /\ cfg.rulesValid <=> config.rulesValid
      /\ cfg.listsValid <=> config.listsValid
      /\ cfg.redirect <=> config.redirect
      /\ cfg.endpointValid <=> config.endpointValid
  BY <1>1, Zenon
<1>8. (\A h \in DOMAIN cfg.headers : SoundEntry(h))
        <=> (\A h \in DOMAIN config.headers :
               h[2] # "" => config.headers[h] \in Catalog \cup {"", "ip"})
  BY <1>1, Zenon DEF SoundEntry
<1>9. ValidDuration(cfg.cacheTTL) <=> ValidDuration(config.cacheTTL)
  BY <1>1, Zenon
<1>10. ValidDuration(cfg.refreshInterval) <=> ValidDuration(config.refreshInterval)
  BY <1>1, Zenon
<1>11. ValidDuration(cfg.apiTimeout) <=> ValidDuration(config.apiTimeout)
  BY <1>1, Zenon
<1>12. (MMDBSound /\ ValidDuration(cfg.refreshInterval)) \/ APISound
        <=> \/ /\ config.mode \in {"", "mmdb"} /\ config.databases > 0
               /\ ValidDuration(config.refreshInterval)
            \/ /\ config.mode = "api" \/ (config.mode = "" /\ config.databases = 0)
               /\ config.apiKey /\ config.endpointValid
               /\ ValidDuration(config.apiTimeout)
  BY <1>5, <1>6, <1>7, <1>10, <1>11, Zenon DEF MMDBSound, APISound
<1>13. StatusAccepted <=> config.redirect \/ config.status \in {0} \cup 100..599
  BY <1>4, <1>7, Zenon DEF StatusAccepted
<1> QED
  BY <1>3, <1>7, <1>8, <1>9, <1>12, <1>13, Zenon DEF Sound

LEMMA InitNew == Init => NewInv
<1> SUFFICES ASSUME Init PROVE NewInv
  OBVIOUS
<1>1. config \in Configs /\ left = DOMAIN cfg.headers
  BY Defaults DEF Init
<1>2. Passed
  BY <1>1 DEF Init, Passed, AfterSettings
<1>3. Resources /\ Refused
  BY DEF Init, Resources, Refused
<1> QED
  BY <1>1, <1>2, <1>3 DEF Init, NewInv

(* Steps that only move pc, or leave New alone. *)
LEMMA CheckRulesNew == NewInv /\ CheckRules => NewInv'
<1> SUFFICES ASSUME NewInv, CheckRules PROVE NewInv'
  OBVIOUS
<1>1. cfg' = cfg /\ UNCHANGED <<config, left, opened, broken, interval, watcher,
                               closer, cancelled>>
  BY DEF CheckRules, cfg
<1>2. pc = "rules" /\ pc' \in {"headers", "failed"}
  BY DEF CheckRules
<1>3. pc' = "headers" => cfg.rulesValid /\ cfg.preset \in DOMAIN PresetFields
  BY DEF CheckRules
<1>4. pc' = "failed" => ~Sound(config)
  BY SoundMeansPassed DEF CheckRules, NewInv
<1>5. Passed'
  BY <1>1, <1>2, <1>3 DEF NewInv, Passed, AfterSettings, SoundEntry
<1>6. Resources'
  BY <1>1, <1>2 DEF NewInv, Resources
<1>7. Refused'
  BY <1>1, <1>4 DEF Refused
<1> QED
  BY <1>1, <1>2, <1>5, <1>6, <1>7 DEF NewInv

LEMMA AddHeaderNew ==
    ASSUME NewInv, NEW h \in left, AddHeader(h)
    PROVE  NewInv'
<1>1. cfg' = cfg /\ UNCHANGED <<config, opened, broken, interval, watcher, closer,
                               cancelled>>
  BY DEF AddHeader, cfg
<1>2. h \in DOMAIN cfg.headers /\ pc = "headers"
  BY DEF NewInv, AddHeader
<1>3. CASE ~SoundEntry(h)
  <2>1. pc' = "failed" /\ left' = left
    BY <1>3 DEF AddHeader, SoundEntry
  <2>2. ~Sound(config)
    BY <1>2, <1>3, SoundMeansPassed DEF NewInv
  <2>3. Passed' /\ Resources' /\ Refused'
    BY <1>1, <1>2, <2>1, <2>2
       DEF NewInv, Passed, Resources, Refused, AfterSettings, SoundEntry
  <2> QED
    BY <1>1, <2>1, <2>3 DEF NewInv
<1>4. CASE SoundEntry(h)
  <2>1. pc' = pc /\ left' = left \ {h}
    BY <1>4 DEF AddHeader, SoundEntry
  <2>2. Passed'
    BY <1>1, <1>2, <1>4, <2>1 DEF NewInv, Passed, AfterSettings, SoundEntry
  <2>3. Resources' /\ Refused'
    BY <1>1, <1>2, <2>1 DEF NewInv, Resources, Refused
  <2> QED
    BY <1>1, <2>1, <2>2, <2>3 DEF NewInv
<1> QED
  BY <1>3, <1>4

LEMMA CheckSettingsNew == NewInv /\ CheckSettings => NewInv'
<1> SUFFICES ASSUME NewInv, CheckSettings PROVE NewInv'
  OBVIOUS
<1>1. cfg' = cfg /\ UNCHANGED <<config, left, opened, broken, interval, watcher,
                               closer, cancelled>>
  BY DEF CheckSettings, cfg
<1>2. pc = "headers" /\ left = {} /\ opened = {} /\ cfg.databases \in Nat
  BY Defaults DEF CheckSettings, NewInv, Resources
<1> DEFINE Settings ==
      cfg.listsValid /\ ValidDuration(cfg.cacheTTL) /\ StatusAccepted
<1>3. \/ pc' = "open" /\ Settings /\ cfg.mode = "mmdb" /\ cfg.databases # 0
      \/ pc' = "api" /\ Settings /\ cfg.mode = "api"
      \/ /\ pc' = "failed"
         /\ \/ ~Settings
            \/ cfg.mode = "mmdb" /\ cfg.databases = 0
            \/ cfg.mode \notin {"mmdb", "api"}
  BY Zenon DEF CheckSettings
<1>4. cfg.databases # 0 => 0 < cfg.databases
  BY <1>2
<1>5. cfg.databases = 0 => ~(cfg.databases > 0)
  BY <1>2
<1>6. pc' = "failed" => ~Sound(config)
  BY <1>3, <1>5, SoundMeansPassed DEF NewInv, MMDBSound, APISound
<1>7. Passed'
  BY <1>1, <1>2, <1>3, <1>4
     DEF NewInv, Passed, AfterSettings, SoundEntry, StatusAccepted, MMDBSound
<1>8. Resources'
  <2>1. pc' = "open" => \E n \in Nat : n < cfg.databases /\ opened = 1..n
    <3> SUFFICES ASSUME pc' = "open" PROVE 0 < cfg.databases /\ opened = 1..0
      OBVIOUS
    <3> QED
      BY <1>2, <1>3, <1>4
  <2> QED
    BY <1>1, <1>2, <1>3, <2>1 DEF NewInv, Resources
<1>9. Refused'
  BY <1>1, <1>6 DEF Refused
<1> QED
  BY <1>1, <1>3, <1>7, <1>8, <1>9 DEF NewInv, AfterSettings

(* The next database is the one after those that are open. *)
LEMMA OpenDatabaseNew == NewInv /\ OpenDatabase => NewInv'
<1> SUFFICES ASSUME NewInv, OpenDatabase PROVE NewInv'
  OBVIOUS
<1>1. cfg' = cfg /\ UNCHANGED <<config, left, interval, watcher, closer, cancelled>>
  BY DEF OpenDatabase, cfg
<1>2. pc = "open"
  BY DEF OpenDatabase
<1>3. PICK n \in Nat : n < cfg.databases /\ opened = 1..n
  BY <1>2 DEF NewInv, Resources
<1>4. Cardinality(opened) = n
  <2>1. Cardinality(1..n) = IF 1 > n THEN 0 ELSE n - 1 + 1
    BY FS_Interval
  <2> QED
    BY <1>3, <2>1
<1>5. cfg.databases \in Nat /\ n + 1 \in 1..cfg.databases
  <2>1. cfg.databases \in Nat
    BY Defaults DEF NewInv
  <2> QED
    BY <1>3, <2>1
<1>6. CASE /\ opened' = opened \cup {n + 1}
           /\ pc' = IF n + 1 = cfg.databases THEN "watch" ELSE "open"
           /\ UNCHANGED broken
  <2>1. opened' = 1..(n + 1) /\ opened' \subseteq 1..cfg.databases
    BY <1>3, <1>5, <1>6
  <2>2. pc' = "open" => n + 1 \in Nat /\ n + 1 < cfg.databases
    BY <1>3, <1>5, <1>6
  <2>3. pc' \in {"watch", "open"}
    BY <1>6
  <2>4. Passed'
    BY <1>1, <1>2, <2>3
       DEF NewInv, Passed, AfterSettings, SoundEntry, StatusAccepted, MMDBSound
  <2>5. Resources'
    BY <1>1, <1>2, <1>6, <2>1, <2>2, <2>3 DEF NewInv, Resources
  <2> QED
    BY <1>1, <2>3, <2>4, <2>5 DEF NewInv, AfterSettings, Refused
<1>7. CASE broken' = {n + 1} /\ opened' = {} /\ pc' = "failed"
  <2>1. Passed'
    BY <1>1, <1>7 DEF NewInv, Passed, AfterSettings, SoundEntry
  <2>2. Resources' /\ Refused'
    BY <1>1, <1>2, <1>5, <1>7 DEF NewInv, Resources, Refused
  <2> QED
    BY <1>1, <1>7, <2>1, <2>2 DEF NewInv
<1> QED
  BY <1>4, <1>6, <1>7 DEF OpenDatabase

LEMMA StartWatcherNew == NewInv /\ StartWatcher => NewInv'
<1> SUFFICES ASSUME NewInv, StartWatcher PROVE NewInv'
  OBVIOUS
<1>1. cfg' = cfg /\ UNCHANGED <<config, left, opened, broken, closer, cancelled>>
  BY DEF StartWatcher, cfg
<1>2. pc = "watch" /\ MMDBSound
  BY DEF StartWatcher, NewInv, Passed
<1>3. CASE ~ValidDuration(cfg.refreshInterval)
  <2>1. pc' = "failed" /\ UNCHANGED <<interval, watcher>>
    BY <1>3 DEF StartWatcher
  <2>2. LateRefusal' /\ ~Sound(config)
    BY <1>1, <1>2, <1>3, SoundMeansPassed
       DEF NewInv, LateRefusal, MMDBSound, APISound
  <2>3. Passed' /\ Resources' /\ Refused'
    BY <1>1, <1>2, <2>1, <2>2
       DEF NewInv, Passed, Resources, Refused, AfterSettings, SoundEntry
  <2> QED
    BY <1>1, <2>1, <2>3 DEF NewInv
<1>4. CASE ValidDuration(cfg.refreshInterval)
  <2> DEFINE refresh == parseDuration(cfg.refreshInterval, 0)
  <2>1. refresh \in Int /\ refresh >= 0
    <3>1. config.refreshInterval \in Durations
      BY StartupAssumption DEF NewInv, IsConfig
    <3>2. cfg.refreshInterval = config.refreshInterval
      BY Defaults DEF NewInv
    <3> QED
      BY <1>4, <3>1, <3>2 DEF ValidDuration, parseDuration, Durations
  <2> HIDE DEF refresh
  <2>2. /\ pc' = "finish"
        /\ interval' = IF refresh > 0 /\ refresh < Minute THEN Minute ELSE refresh
        /\ watcher' = IF refresh > 0 THEN "running" ELSE "none"
    BY <1>4 DEF StartWatcher, refresh
  <2>3. interval' = 0 \/ interval' >= Minute
    BY <2>1, <2>2 DEF Minute
  <2>4. watcher' \in {"none", "running"}
    BY <2>2
  <2>5. Passed'
    BY <1>1, <1>2, <1>4, <2>2
       DEF NewInv, Passed, AfterSettings, SoundEntry, StatusAccepted, MMDBSound
  <2>6. Resources'
    BY <1>1, <1>2, <2>2, <2>3, <2>4 DEF NewInv, Resources, Minute
  <2> QED
    BY <1>1, <2>2, <2>5, <2>6 DEF NewInv, AfterSettings, Refused
<1> QED
  BY <1>3, <1>4

LEMMA StartAPINew == NewInv /\ StartAPI => NewInv'
<1> SUFFICES ASSUME NewInv, StartAPI PROVE NewInv'
  OBVIOUS
<1>1. cfg' = cfg /\ UNCHANGED <<config, left, opened, broken, interval, watcher,
                               closer, cancelled>>
  BY DEF StartAPI, cfg
<1>2. pc = "api" /\ cfg.mode = "api"
  BY DEF StartAPI, NewInv, Passed
<1>3. CASE APISound
  <2>1. pc' = "finish"
    BY <1>3 DEF StartAPI, APISound
  <2>2. Passed' /\ Resources' /\ Refused'
    BY <1>1, <1>2, <1>3, <2>1
       DEF NewInv, Passed, Resources, Refused, AfterSettings, SoundEntry,
           StatusAccepted, APISound
  <2> QED
    BY <1>1, <2>1, <2>2 DEF NewInv, AfterSettings
<1>4. CASE ~APISound
  <2>1. pc' = "failed"
    BY <1>2, <1>4 DEF StartAPI, APISound
  <2>2. ~Sound(config)
    BY <1>2, <1>4, SoundMeansPassed DEF NewInv, MMDBSound
  <2>3. Passed' /\ Resources' /\ Refused'
    BY <1>1, <1>2, <2>1, <2>2
       DEF NewInv, Passed, Resources, Refused, AfterSettings, SoundEntry
  <2> QED
    BY <1>1, <2>1, <2>3 DEF NewInv
<1> QED
  BY <1>3, <1>4

(* New's last step, and what the context and the two goroutines do. *)
LEMMA GoroutineNew ==
    NewInv /\ (StartCloser \/ CancelContext \/ Close \/ StopWatching) => NewInv'
<1> SUFFICES ASSUME NewInv, StartCloser \/ CancelContext \/ Close \/ StopWatching
             PROVE  NewInv'
  OBVIOUS
<1>1. /\ cfg' = cfg
      /\ UNCHANGED <<config, left, broken, interval>>
      /\ pc' = pc \/ (pc = "finish" /\ pc' = "ready")
  BY DEF StartCloser, CancelContext, Close, StopWatching, newVars, cfg
<1>2. Passed'
  BY <1>1 DEF NewInv, Passed, AfterSettings, SoundEntry, StatusAccepted,
              MMDBSound, APISound
<1>3. Refused'
  BY <1>1 DEF NewInv, Refused
<1>4. Resources'
  <2>1. CASE StartCloser
    BY <1>1, <2>1 DEF StartCloser, NewInv, Resources
  <2>2. CASE CancelContext
    BY <1>1, <2>2 DEF CancelContext, newVars, NewInv, Resources, LateRefusal
  <2>3. CASE Close
    <3>1. pc = "ready"
      BY <2>3 DEF Close, NewInv, Resources
    <3> QED
      BY <1>1, <2>3, <3>1 DEF Close, NewInv, Resources
  <2>4. CASE StopWatching
    BY <1>1, <2>4 DEF StopWatching, newVars, NewInv, Resources, LateRefusal
  <2> QED
    BY <2>1, <2>2, <2>3, <2>4
<1> QED
  BY <1>1, <1>2, <1>3, <1>4 DEF NewInv, AfterSettings

LEMMA NewInvariance == Spec => []NewInv
<1>1. NewInv /\ [Next]_vars => NewInv'
  <2> SUFFICES ASSUME NewInv, [Next]_vars PROVE NewInv'
    OBVIOUS
  <2>1. CASE NewStep
    BY <2>1, CheckRulesNew, AddHeaderNew, CheckSettingsNew, OpenDatabaseNew,
       StartWatcherNew, StartAPINew, GoroutineNew DEF NewStep
  <2>2. CASE CancelContext \/ Close \/ StopWatching
    BY <2>2, GoroutineNew
  <2>3. CASE UNCHANGED vars
    <3>1. cfg' = cfg /\ UNCHANGED <<newVars, watcher, closer, cancelled>>
      BY <2>3 DEF vars, newVars, cfg
    <3>2. Passed'
      BY <3>1 DEF newVars, NewInv, Passed, SoundEntry, StatusAccepted, MMDBSound,
                  APISound
    <3>3. Resources' /\ Refused'
      BY <3>1 DEF newVars, NewInv, Resources, Refused, LateRefusal
    <3> QED
      BY <3>1, <3>2, <3>3 DEF newVars, NewInv
  <2> QED
    BY <2>1, <2>2, <2>3 DEF Next
<1> QED
  BY <1>1, InitNew, PTL DEF Spec

(* A New that fails leaves no goroutine behind and no database open, unless it
   is refreshInterval that it refuses, for any number of databases and whatever
   step fails (plugin.go 183-272, provider.go 138-148). *)
THEOREM FailureIsClean == Spec => []FailureHoldsNothing
<1>1. NewInv => FailureHoldsNothing
  BY DEF NewInv, Resources, FailureHoldsNothing
<1> QED
  BY <1>1, NewInvariance, PTL

(* New returns a plugin for the sound configurations whose databases open, and
   an error for the others, for every configuration (plugin.go 183-272). *)
THEOREM SoundIsAccepted == Spec => []AcceptsTheSound
<1>1. NewInv => AcceptsTheSound
  <2> SUFFICES ASSUME NewInv, pc = "ready" PROVE Sound(config) /\ broken = {}
    BY DEF NewInv, Refused, AcceptsTheSound
  <2>1. broken = {}
    BY DEF NewInv, Resources
  <2>2. Sound(config)
    BY SoundMeansPassed DEF NewInv, Passed, AfterSettings
  <2> QED
    BY <2>1, <2>2
<1> QED
  BY <1>1, NewInvariance, PTL

-----------------------------------------------------------------------------
(* The header map.  Only canonical names and the preset's X-IPGeo-IP are in it,
   so that a name has one entry that the options decide: the last merged of
   those that spell it, or the preset's. *)
Seen(name) == {h \in DOMAIN cfg.headers \ left : h[2] = name}

AsPreset(name) ==
    /\ headerNameForField(name) \in DOMAIN headerMap
          <=> name \in PresetFields[cfg.preset]
    /\ headerNameForField(name) \in DOMAIN headerMap =>
          headerMap[headerNameForField(name)] = name

AsEntry(h) ==
    IF cfg.headers[h] = "" THEN CanonicalHeaderKey(h) \notin DOMAIN headerMap
    ELSE /\ CanonicalHeaderKey(h) \in DOMAIN headerMap
         /\ headerMap[CanonicalHeaderKey(h)] = cfg.headers[h]

NamesAndFields ==
    \A k \in DOMAIN headerMap :
        /\ k = headerNameForField(k[2]) \/ k = PresetIP
        /\ headerMap[k] \in Catalog \cup {"ip"}

KeepsPresetIP ==
    /\ PresetIP \in DOMAIN headerMap <=> cfg.preset = "full"
    /\ PresetIP \in DOMAIN headerMap => headerMap[PresetIP] = "ip"

Merging == pc \notin {"rules", "failed"}

HeadersSoFar ==
    /\ pc = "rules" => left = DOMAIN cfg.headers
    /\ NamesAndFields
    /\ Merging => KeepsPresetIP
    /\ Merging => \A name \in Names \ {""} :
          IF Seen(name) = {} THEN AsPreset(name)
                             ELSE \E h \in Seen(name) : AsEntry(h)

(* What buildHeaderMap starts with. *)
LEMMA PresetMap ==
    ASSUME NEW preset \in DOMAIN PresetFields
    PROVE  LET map == addPresetHeaders(preset) IN
           /\ \A k \in DOMAIN map :
                 /\ k = headerNameForField(k[2]) \/ k = PresetIP
                 /\ map[k] \in Catalog \cup {"ip"}
           /\ \A name :
                 /\ headerNameForField(name) \in DOMAIN map
                       <=> name \in PresetFields[preset]
                 /\ headerNameForField(name) \in DOMAIN map =>
                       map[headerNameForField(name)] = name
           /\ PresetIP \in DOMAIN map <=> preset = "full"
           /\ PresetIP \in DOMAIN map => map[PresetIP] = "ip"
<1> DEFINE names == {headerNameForField(f) : f \in PresetFields[preset]}
           base == [h \in names |-> h[2]]
           map == addPresetHeaders(preset)
<1>1. \A f : headerNameForField(f) \in names <=> f \in PresetFields[preset]
  BY DEF headerNameForField
<1>2. PresetIP \notin names
  BY DEF headerNameForField, PresetIP
<1>3. \A h \in names : h = headerNameForField(h[2]) /\ h[2] \in Catalog
  <2> SUFFICES ASSUME NEW f \in PresetFields[preset]
               PROVE  /\ headerNameForField(f)[2] = f
                      /\ f \in Catalog
    OBVIOUS
  <2> QED
    BY StartupAssumption DEF headerNameForField
<1>4. \A f : headerNameForField(f)[2] = f /\ headerNameForField(f) # PresetIP
  BY DEF headerNameForField, PresetIP
<1>5. map = IF preset = "full" THEN With(base, PresetIP, "ip") ELSE base
  BY DEF addPresetHeaders
<1> HIDE DEF names, map
<1>6. DOMAIN base = names /\ \A h \in names : base[h] = h[2]
  OBVIOUS
<1> HIDE DEF base
<1>7. CASE preset = "full"
  <2>1. /\ DOMAIN map = names \cup {PresetIP}
        /\ map[PresetIP] = "ip"
        /\ \A h \in names : map[h] = h[2]
    BY <1>2, <1>5, <1>6, <1>7 DEF With
  <2> QED
    BY <1>1, <1>3, <1>4, <1>7, <2>1 DEF map
<1>8. CASE preset # "full"
  BY <1>1, <1>2, <1>3, <1>4, <1>5, <1>6, <1>8 DEF map
<1> QED
  BY <1>7, <1>8

LEMMA InitHeaders == Init => HeadersSoFar
BY Defaults DEF Init, HeadersSoFar, NamesAndFields, Merging

LEMMA CheckRulesHeaders ==
    ASSUME NewInv, HeadersSoFar, CheckRules
    PROVE  HeadersSoFar'
<1>1. cfg' = cfg /\ left' = left
  BY DEF CheckRules, cfg
<1>2. CASE pc' = "failed"
  BY <1>2 DEF CheckRules, HeadersSoFar, NamesAndFields, Merging
<1>3. CASE pc' = "headers"
  <2>1. /\ headerMap' = addPresetHeaders(cfg.preset)
        /\ cfg.preset \in DOMAIN PresetFields
    BY <1>3 DEF CheckRules
  <2>2. NamesAndFields' /\ KeepsPresetIP'
    BY <1>1, <2>1, PresetMap DEF NamesAndFields, KeepsPresetIP
  <2>3. \A name : AsPreset(name)'
    BY <1>1, <2>1, PresetMap DEF AsPreset
  <2>4. \A name : Seen(name)' = {}
    <3>1. left = DOMAIN cfg.headers
      BY DEF CheckRules, HeadersSoFar
    <3> QED
      BY <1>1, <3>1 DEF Seen
  <2> QED
    BY <1>3, <2>2, <2>3, <2>4 DEF HeadersSoFar
<1> QED
  BY <1>2, <1>3 DEF CheckRules

(* Merging an entry leaves every other name alone. *)
LEMMA MergedMap ==
    ASSUME NEW h, NEW field, headerMap' = Merged(h, field)
    PROVE  LET key == CanonicalHeaderKey(h) IN
           /\ \A k : k # key =>
                 /\ k \in DOMAIN headerMap' <=> k \in DOMAIN headerMap
                 /\ k \in DOMAIN headerMap => headerMap'[k] = headerMap[k]
           /\ field = "" => key \notin DOMAIN headerMap'
           /\ field # "" => key \in DOMAIN headerMap' /\ headerMap'[key] = field
<1> DEFINE key == CanonicalHeaderKey(h)
<1>1. CASE field = ""
  <2>1. headerMap' = [k \in DOMAIN headerMap \ {key} |-> headerMap[k]]
    BY <1>1 DEF Merged, Without
  <2> HIDE DEF key
  <2>2. /\ DOMAIN headerMap' = DOMAIN headerMap \ {key}
        /\ \A k \in DOMAIN headerMap \ {key} : headerMap'[k] = headerMap[k]
    BY <2>1
  <2> QED
    BY <1>1, <2>2 DEF key
<1>2. CASE field # ""
  <2>1. headerMap' = [k \in DOMAIN headerMap \cup {key} |->
                         IF k = key THEN field ELSE headerMap[k]]
    BY <1>2 DEF Merged, With
  <2> HIDE DEF key
  <2>2. /\ DOMAIN headerMap' = DOMAIN headerMap \cup {key}
        /\ headerMap'[key] = field
        /\ \A k \in DOMAIN headerMap : k # key => headerMap'[k] = headerMap[k]
    BY <2>1
  <2> QED
    BY <1>2, <2>2 DEF key
<1> QED
  BY <1>1, <1>2

LEMMA AddHeaderHeaders ==
    ASSUME NewInv, HeadersSoFar, NEW h \in left, AddHeader(h)
    PROVE  HeadersSoFar'
<1>1. cfg' = cfg /\ pc = "headers" /\ h \in DOMAIN cfg.headers
  BY DEF AddHeader, cfg, NewInv
<1>2. CASE ~SoundEntry(h)
  <2>1. pc' = "failed" /\ headerMap' = headerMap
    BY <1>2 DEF AddHeader, SoundEntry
  <2> QED
    BY <2>1 DEF HeadersSoFar, NamesAndFields, Merging
<1>3. CASE h[2] = ""
  <2>1. pc' = pc /\ headerMap' = headerMap /\ left' = left \ {h}
    BY <1>3 DEF AddHeader
  <2>2. \A name \in Names \ {""} : Seen(name)' = Seen(name)
    BY <1>1, <1>3, <2>1 DEF Seen
  <2>3. /\ \A name : AsPreset(name) => AsPreset(name)'
        /\ \A e : AsEntry(e) => AsEntry(e)'
    BY <1>1, <2>1 DEF AsPreset, AsEntry
  <2>4. NamesAndFields' /\ KeepsPresetIP'
    BY <1>1, <2>1 DEF HeadersSoFar, Merging, NamesAndFields, KeepsPresetIP
  <2>5. Names' = Names
    BY <1>1 DEF Names
  <2> QED
    BY <1>1, <2>1, <2>2, <2>3, <2>4, <2>5 DEF HeadersSoFar, Merging
<1>4. CASE SoundEntry(h) /\ h[2] # ""
  <2> DEFINE field == cfg.headers[h]
             key == CanonicalHeaderKey(h)
  <2>1. /\ pc' = pc /\ left' = left \ {h}
        /\ headerMap' = Merged(h, field)
        /\ field \in Catalog \cup {"", "ip"}
    BY <1>4 DEF AddHeader, SoundEntry
  <2>2. /\ key[2] = h[2] /\ key = headerNameForField(h[2]) /\ key # PresetIP
        /\ \A name : name # h[2] => headerNameForField(name) # key
    BY DEF CanonicalHeaderKey, headerNameForField, PresetIP
  <2> HIDE DEF field
  <2>3. /\ \A k : k # key =>
              /\ k \in DOMAIN headerMap' <=> k \in DOMAIN headerMap
              /\ k \in DOMAIN headerMap => headerMap'[k] = headerMap[k]
        /\ field = "" => key \notin DOMAIN headerMap'
        /\ field # "" => key \in DOMAIN headerMap' /\ headerMap'[key] = field
    BY <2>1, MergedMap
  <2> HIDE DEF key
  <2>4. NamesAndFields'
    <3> SUFFICES ASSUME NEW k \in DOMAIN headerMap'
                 PROVE  /\ k = headerNameForField(k[2]) \/ k = PresetIP
                        /\ headerMap'[k] \in Catalog \cup {"ip"}
      BY DEF NamesAndFields
    <3>1. CASE k = key
      BY <2>1, <2>2, <2>3, <3>1
    <3>2. CASE k # key
      BY <2>3, <3>2 DEF HeadersSoFar, NamesAndFields
    <3> QED
      BY <3>1, <3>2
  <2>5. KeepsPresetIP'
    BY <1>1, <2>2, <2>3 DEF HeadersSoFar, Merging, KeepsPresetIP
  <2>6. ASSUME NEW name \in Names \ {""}
        PROVE  (IF Seen(name) = {} THEN AsPreset(name)
                                   ELSE \E e \in Seen(name) : AsEntry(e))'
    <3>1. CASE name = h[2]
      <4>1. h \in Seen(name)'
        BY <1>1, <2>1, <3>1 DEF Seen
      <4>2. AsEntry(h)'
        BY <1>1, <2>3 DEF AsEntry, field, key
      <4> QED
        BY <4>1, <4>2
    <3>2. CASE name # h[2]
      <4>1. Seen(name)' = Seen(name)
        BY <1>1, <2>1, <3>2 DEF Seen
      <4>2. AsPreset(name) => AsPreset(name)'
        BY <1>1, <2>2, <2>3, <3>2 DEF AsPreset
      <4>3. ASSUME NEW e \in Seen(name), AsEntry(e) PROVE AsEntry(e)'
        <5>1. CanonicalHeaderKey(e) # key
          BY <2>2, <3>2 DEF Seen, CanonicalHeaderKey, headerNameForField
        <5> QED
          BY <1>1, <2>3, <4>3, <5>1 DEF AsEntry
      <4> QED
        BY <1>1, <4>1, <4>2, <4>3 DEF HeadersSoFar, Merging
    <3> QED
      BY <3>1, <3>2
  <2>7. Names' = Names
    BY <1>1 DEF Names
  <2> QED
    BY <1>1, <2>1, <2>4, <2>5, <2>6, <2>7 DEF HeadersSoFar, Merging
<1> QED
  BY <1>2, <1>3, <1>4

(* What is left of New does not touch the map. *)
LEMMA MapKept ==
    ASSUME HeadersSoFar, UNCHANGED <<config, headerMap, left>>,
           pc' = "rules" => pc = "rules", Merging' => Merging
    PROVE  HeadersSoFar'
<1>1. cfg' = cfg
  BY DEF cfg
<1>2. /\ \A name : Seen(name)' = Seen(name)
      /\ \A name : AsPreset(name) => AsPreset(name)'
      /\ \A e : AsEntry(e) => AsEntry(e)'
  BY <1>1 DEF Seen, AsPreset, AsEntry
<1>3. NamesAndFields' /\ (KeepsPresetIP => KeepsPresetIP')
  BY <1>1 DEF HeadersSoFar, NamesAndFields, KeepsPresetIP
<1>4. Names' = Names
  BY <1>1 DEF Names
<1> QED
  BY <1>1, <1>2, <1>3, <1>4 DEF HeadersSoFar

LEMMA HeadersInvariance == Spec => []HeadersSoFar
<1>1. NewInv /\ HeadersSoFar /\ [Next]_vars => HeadersSoFar'
  <2> SUFFICES ASSUME NewInv, HeadersSoFar, [Next]_vars PROVE HeadersSoFar'
    OBVIOUS
  <2>1. CASE CheckSettings \/ OpenDatabase \/ StartWatcher \/ StartAPI \/ StartCloser
    <3>1. UNCHANGED <<config, headerMap, left>> /\ Merging
      BY <2>1 DEF CheckSettings, OpenDatabase, StartWatcher, StartAPI, StartCloser,
                  Merging
    <3>2. pc' # "rules"
      BY <2>1 DEF CheckSettings, OpenDatabase, StartWatcher, StartAPI, StartCloser
    <3> QED
      BY <3>1, <3>2, MapKept
  <2>2. CASE CancelContext \/ Close \/ StopWatching \/ UNCHANGED vars
    <3>1. UNCHANGED <<config, headerMap, left, pc>>
      BY <2>2 DEF CancelContext, Close, StopWatching, vars, newVars
    <3>2. Merging' => Merging
      BY <3>1 DEF Merging
    <3> QED
      BY <3>1, <3>2, MapKept
  <2> QED
    BY <2>1, <2>2, CheckRulesHeaders, AddHeaderHeaders DEF Next, NewStep
<1> QED
  BY <1>1, InitHeaders, NewInvariance, PTL DEF Spec

(* One canonical entry and the preset's X-IPGeo-IP are all that is sent under
   a name. *)
LEMMA SentIsCanonical ==
    ASSUME NEW map, NEW name,
           \A k \in DOMAIN map : k = headerNameForField(k[2]) \/ k = PresetIP
    PROVE  LET key == headerNameForField(name)
               own == IF key \in DOMAIN map THEN {map[key]} ELSE {}
               ip == IF name = "ip" /\ PresetIP \in DOMAIN map
                     THEN {map[PresetIP]} ELSE {}
           IN {map[h] : h \in {k \in DOMAIN map : k[2] = name}} = own \cup ip
<1> DEFINE key == headerNameForField(name)
<1>1. key[2] = name /\ PresetIP[2] = "ip"
  BY DEF headerNameForField, PresetIP
<1>2. \A k \in DOMAIN map : k[2] = name <=> k = key \/ (k = PresetIP /\ name = "ip")
  BY <1>1
<1> QED
  BY <1>2

(* The header map is what the options say, in any order of iteration, for any
   presets, any entries and any number of spellings (plugin.go 486-527). *)
THEOREM HeadersFollowOptions == Spec => []HeadersAsConfigured
<1>1. ASSUME NewInv, HeadersSoFar, HeadersDone, NEW name \in Names \ {""}
      PROVE  LET said == {{cfg.headers[h]} \ {""} : h \in Naming(name)}
                 kept == IF name = "ip" THEN ByPreset("ip") ELSE {}
             IN IF said = {} THEN SentUnder(name) = ByPreset(name)
                ELSE SentUnder(name) \in {fields \cup kept : fields \in said}
  <2> DEFINE key == headerNameForField(name)
             said == {{cfg.headers[h]} \ {""} : h \in Naming(name)}
             kept == IF name = "ip" THEN ByPreset("ip") ELSE {}
             own == IF key \in DOMAIN headerMap THEN {headerMap[key]} ELSE {}
             ip == IF name = "ip" /\ cfg.preset = "full" THEN {"ip"} ELSE {}
             theirs == IF name \in PresetFields[cfg.preset] THEN {name} ELSE {}
  <2>1. cfg.preset \in DOMAIN PresetFields /\ Merging /\ left = {}
    BY <1>1 DEF HeadersDone, NewInv, Passed, Merging
  <2>2. SentUnder(name) = own \cup ip
    <3>1. \A k \in DOMAIN headerMap : k = headerNameForField(k[2]) \/ k = PresetIP
      BY <1>1 DEF HeadersSoFar, NamesAndFields
    <3>2. SentUnder(name)
            = own \cup IF name = "ip" /\ PresetIP \in DOMAIN headerMap
                      THEN {headerMap[PresetIP]} ELSE {}
      BY <3>1, SentIsCanonical DEF SentUnder
    <3> QED
      BY <1>1, <2>1, <3>2 DEF HeadersSoFar, KeepsPresetIP
  <2>3. ByPreset(name) = theirs \cup ip
    <3> DEFINE preset == cfg.preset
               map == addPresetHeaders(preset)
    <3>1. preset \in DOMAIN PresetFields
      BY <2>1
    <3>2. ByPreset(name) = {map[h] : h \in {k \in DOMAIN map : k[2] = name}}
      BY DEF ByPreset
    <3> HIDE DEF preset
    <3>3. /\ \A k \in DOMAIN map : k = headerNameForField(k[2]) \/ k = PresetIP
          /\ \A n : /\ headerNameForField(n) \in DOMAIN map
                         <=> n \in PresetFields[preset]
                    /\ headerNameForField(n) \in DOMAIN map =>
                         map[headerNameForField(n)] = n
          /\ PresetIP \in DOMAIN map <=> preset = "full"
          /\ PresetIP \in DOMAIN map => map[PresetIP] = "ip"
      BY <3>1, PresetMap
    <3> HIDE DEF map
    <3>4. ByPreset(name)
            = (IF key \in DOMAIN map THEN {map[key]} ELSE {})
              \cup IF name = "ip" /\ PresetIP \in DOMAIN map
                   THEN {map[PresetIP]} ELSE {}
      BY <3>2, <3>3, SentIsCanonical
    <3> QED
      BY <3>3, <3>4 DEF preset
  <2>4. kept = ip
    <3>1. CASE name = "ip"
      <4>1. theirs = {}
        BY <2>1, <3>1, StartupAssumption
      <4> QED
        BY <2>3, <3>1, <4>1
    <3>2. CASE name # "ip"
      BY <3>2
    <3> QED
      BY <3>1, <3>2
  <2>5. Seen(name) = Naming(name)
    BY <2>1 DEF Seen, Naming
  <2> HIDE DEF kept, ip
  <2>6. CASE Naming(name) = {}
    <3>1. AsPreset(name)
      BY <1>1, <2>1, <2>5, <2>6 DEF HeadersSoFar
    <3>2. own = theirs
      BY <3>1 DEF AsPreset
    <3>3. said = {}
      BY <2>6
    <3> QED
      BY <2>2, <2>3, <3>2, <3>3
  <2>7. CASE Naming(name) # {}
    <3>1. PICK h \in Naming(name) : AsEntry(h)
      BY <1>1, <2>1, <2>5, <2>7 DEF HeadersSoFar
    <3>2. CanonicalHeaderKey(h) = key
      BY DEF Naming, CanonicalHeaderKey, headerNameForField
    <3>3. own = {cfg.headers[h]} \ {""}
      BY <3>1, <3>2 DEF AsEntry
    <3>4. own \in said
      BY <3>3
    <3> HIDE DEF said, own
    <3> QED
      BY <2>2, <2>4, <3>4 DEF said, kept
  <2> QED
    BY <2>6, <2>7
<1>2. NewInv /\ HeadersSoFar => HeadersAsConfigured
  BY <1>1 DEF HeadersAsConfigured
<1> QED
  BY <1>2, NewInvariance, HeadersInvariance, PTL

(* The variables of New keep their types: headers carry fields of the
   catalogue or the address, the databases open or broken are configured ones,
   and a watcher checks at most once a minute (plugin.go 183-313). *)
THEOREM StartupTypes == Spec => []TypeOK
<1>1. NewInv /\ HeadersSoFar => TypeOK
  BY DEF NewInv, Resources, HeadersSoFar, NamesAndFields, TypeOK, AfterSettings
<1> QED
  BY <1>1, NewInvariance, HeadersInvariance, PTL
=============================================================================
