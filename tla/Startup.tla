------------------------------ MODULE Startup ------------------------------
(***************************************************************************)
(* Building the middleware: New with its checks and error exits, the       *)
(* header map from the preset and the headers option (a Go map, iterated   *)
(* in any order), the opening of the databases, the goroutines that New    *)
(* starts, and their end when the context is cancelled.                    *)
(*                                                                         *)
(* A header name is a pair of its spelling and the name without regard to  *)
(* case; <<"canonical", n>> is the form http.CanonicalHeaderKey returns.   *)
(* A duration is unset, invalid or a number of seconds.  Rules and address *)
(* lists count as valid or not (AccessRules and ClientIP model them).      *)
(***************************************************************************)
EXTENDS Integers, FiniteSets

CONSTANTS
    Configs,      \* the configurations tried
    Catalog,      \* the fields of the catalogue
    PresetFields  \* preset -> its fields

Durations == [kind : {"unset", "invalid", "value"}, seconds : Int]

(* What a configuration is made of: options as Traefik has decoded them, the
   headers option a map from names (see above) to fields.  Presets name fields
   of the catalogue, which "ip" is none of. *)
IsConfig(c) ==
    /\ DOMAIN c.headers \subseteq STRING \X STRING
    /\ c \in [mode : STRING, apiKey : BOOLEAN, databases : Nat, preset : STRING,
              headers : {c.headers}, rulesValid : BOOLEAN, listsValid : BOOLEAN,
              cacheTTL : Durations, status : Int, redirect : BOOLEAN,
              refreshInterval : Durations, apiTimeout : Durations,
              endpointValid : BOOLEAN]

ASSUME StartupAssumption ==
    /\ \A c \in Configs : IsConfig(c)
    /\ Catalog \subseteq STRING /\ {"", "ip"} \cap Catalog = {}
    /\ "minimal" \in DOMAIN PresetFields
    /\ \A preset \in DOMAIN PresetFields : PresetFields[preset] \subseteq Catalog

VARIABLES
    config,     \* the configuration, as Traefik hands it over
    pc,         \* how far New is
    headerMap,  \* buildHeaderMap's `out`
    left,       \* entries of cfg.headers that its loop has not seen
    opened,     \* databases with an open reader
    broken,     \* databases that could not be opened
    interval,   \* seconds between two checks of the watcher; 0 without one
    watcher,    \* the watch goroutine: "none", "running" or "ended"
    closer,     \* the goroutine that waits for the context
    cancelled   \* the context is cancelled

newVars == <<config, pc, headerMap, left, opened, broken, interval>>
vars == <<newVars, watcher, closer, cancelled>>

-----------------------------------------------------------------------------
Minute == 60
Duration(kind, seconds) == [kind |-> kind, seconds |-> seconds]

(* parseDuration accepts what is unset and what is a duration >= 0. *)
ValidDuration(d) ==
    d.kind = "unset" \/ (d.kind = "value" /\ d.seconds >= 0)
parseDuration(d, fallback) == IF d.kind = "unset" THEN fallback ELSE d.seconds

withDefaultsModeLast(c) ==  \* as a bug: a key does not choose the mode
    [c EXCEPT !.mode = IF c.mode = "" THEN "mmdb" ELSE @,
              !.preset = IF @ = "" THEN "minimal" ELSE @,
              !.status = IF @ = 0 THEN 403 ELSE @]

(* An API key without databases chooses the mode that is left open. *)
withDefaults(c) ==
    [c EXCEPT !.mode = IF c.mode # "" THEN @
                       ELSE IF c.apiKey /\ c.databases = 0 THEN "api" ELSE "mmdb",
              !.preset = IF @ = "" THEN "minimal" ELSE @,
              !.status = IF @ = 0 THEN 403 ELSE @]

cfg == withDefaults(config)

CanonicalHeaderKey(h) == <<"canonical", h[2]>>
headerNameForField(field) == <<"canonical", field>>
PresetIP == <<"X-IPGeo-IP", "ip">>  \* not the canonical spelling

(* out[h] = field, delete(out, h) *)
With(map, h, field) ==
    [k \in DOMAIN map \cup {h} |-> IF k = h THEN field ELSE map[k]]
Without(map, h) == [k \in DOMAIN map \ {h} |-> map[k]]

addPresetHeaders(preset) ==
    LET names == {headerNameForField(f) : f \in PresetFields[preset]}
        map == [h \in names |-> h[2]]
    IN IF preset = "full" THEN With(map, PresetIP, "ip") ELSE map

Init ==
    /\ config \in Configs
    /\ pc = "rules"
    /\ headerMap = [h \in {} |-> ""]
    /\ left = DOMAIN config.headers
    /\ opened = {} /\ broken = {}
    /\ interval = 0
    /\ watcher = "none" /\ closer = "none"
    /\ cancelled = FALSE

-----------------------------------------------------------------------------
(* newRuleSet, and the preset of buildHeaderMap. *)
CheckRules ==
    /\ pc = "rules"
    /\ IF cfg.rulesValid /\ cfg.preset \in DOMAIN PresetFields
       THEN pc' = "headers" /\ headerMap' = addPresetHeaders(cfg.preset)
       ELSE pc' = "failed" /\ UNCHANGED headerMap
    /\ UNCHANGED <<config, left, opened, broken, interval, watcher, closer, cancelled>>

MergedVerbatim(h, field) ==  \* as a bug: names kept as they are spelled
    IF field = "" THEN Without(headerMap, h) ELSE With(headerMap, h, field)

(* An entry without a field removes a header, any other sets one. *)
Merged(h, field) ==
    IF field = "" THEN Without(headerMap, CanonicalHeaderKey(h))
                  ELSE With(headerMap, CanonicalHeaderKey(h), field)

(* One turn of the loop over cfg.Headers; names that are blank are skipped. *)
AddHeader(h) ==
    /\ pc = "headers"
    /\ h \in left
    /\ LET field == cfg.headers[h]
       IN IF h[2] # "" /\ field \notin Catalog \cup {"", "ip"}
          THEN pc' = "failed" /\ UNCHANGED <<headerMap, left>>
          ELSE /\ headerMap' = IF h[2] = "" THEN headerMap ELSE Merged(h, field)
               /\ left' = left \ {h}
               /\ UNCHANGED pc
    /\ UNCHANGED <<config, opened, broken, interval, watcher, closer, cancelled>>

StatusAccepted == cfg.redirect \/ cfg.status \in 100..599

(* The checks up to the choice of the provider, in New's order. *)
CheckSettings ==
    /\ pc = "headers"
    /\ left = {}
    /\ pc' = IF ~(cfg.listsValid /\ ValidDuration(cfg.cacheTTL) /\ StatusAccepted)
             THEN "failed"
             ELSE CASE cfg.mode = "mmdb" -> IF cfg.databases = 0 THEN "failed" ELSE "open"
                    [] cfg.mode = "api" -> "api"
                    [] OTHER -> "failed"
    /\ UNCHANGED <<config, headerMap, left, opened, broken, interval, watcher,
                   closer, cancelled>>

OpenDatabaseKeepOthers ==  \* as a bug: those opened before stay open
    /\ pc = "open"
    /\ \/ /\ opened' = opened \cup {Cardinality(opened) + 1}
          /\ pc' = IF Cardinality(opened) + 1 = cfg.databases THEN "watch" ELSE "open"
          /\ UNCHANGED broken
       \/ /\ broken' = {Cardinality(opened) + 1}
          /\ pc' = "failed"
          /\ UNCHANGED opened
    /\ UNCHANGED <<config, headerMap, left, interval, watcher, closer, cancelled>>

(* newMMDBProvider opens the next database, or fails to and closes those it
   has opened. *)
OpenDatabase ==
    /\ pc = "open"
    /\ LET d == Cardinality(opened) + 1
       IN \/ /\ opened' = opened \cup {d}
             /\ pc' = IF d = cfg.databases THEN "watch" ELSE "open"
             /\ UNCHANGED broken
          \/ /\ broken' = {d}
             /\ opened' = {}
             /\ pc' = "failed"
    /\ UNCHANGED <<config, headerMap, left, interval, watcher, closer, cancelled>>

StartWatcherUnclamped ==  \* as a bug: any interval is taken
    /\ pc = "watch"
    /\ IF ~ValidDuration(cfg.refreshInterval)
       THEN pc' = "failed" /\ UNCHANGED <<interval, watcher>>
       ELSE /\ pc' = "finish"
            /\ interval' = parseDuration(cfg.refreshInterval, 0)
            /\ watcher' = IF interval' > 0 THEN "running" ELSE "none"
    /\ UNCHANGED <<config, headerMap, left, opened, broken, closer, cancelled>>

(* refreshInterval is read only now, with the databases open. *)
StartWatcher ==
    /\ pc = "watch"
    /\ LET refresh == parseDuration(cfg.refreshInterval, 0)
       IN IF ~ValidDuration(cfg.refreshInterval)
          THEN pc' = "failed" /\ UNCHANGED <<interval, watcher>>
          ELSE /\ pc' = "finish"
               /\ interval' = IF refresh > 0 /\ refresh < Minute THEN Minute ELSE refresh
               /\ watcher' = IF refresh > 0 THEN "running" ELSE "none"
    /\ UNCHANGED <<config, headerMap, left, opened, broken, closer, cancelled>>

(* newAPIProvider *)
StartAPI ==
    /\ pc = "api"
    /\ pc' = IF ValidDuration(cfg.apiTimeout) /\ cfg.apiKey /\ cfg.endpointValid
             THEN "finish" ELSE "failed"
    /\ UNCHANGED <<config, headerMap, left, opened, broken, interval, watcher,
                   closer, cancelled>>

StartCloserIfWatching ==  \* as a bug: only the watcher brings a goroutine
    /\ pc = "finish"
    /\ pc' = "ready"
    /\ closer' = watcher
    /\ UNCHANGED <<config, headerMap, left, opened, broken, interval, watcher, cancelled>>

StartCloser ==
    /\ pc = "finish"
    /\ pc' = "ready"
    /\ closer' = "running"
    /\ UNCHANGED <<config, headerMap, left, opened, broken, interval, watcher, cancelled>>

(* The context may be cancelled at any time, before New has returned too. *)
CancelContext ==
    /\ ~cancelled
    /\ cancelled' = TRUE
    /\ UNCHANGED <<newVars, watcher, closer>>

(* provider.close(); LookupService has its steps. *)
Close ==
    /\ closer = "running"
    /\ cancelled
    /\ opened' = {}
    /\ closer' = "ended"
    /\ UNCHANGED <<config, pc, headerMap, left, broken, interval, watcher, cancelled>>

StopWatching ==
    /\ watcher = "running"
    /\ cancelled
    /\ watcher' = "ended"
    /\ UNCHANGED <<newVars, closer, cancelled>>

NewStep ==
    \/ CheckRules
    \/ \E h \in left : AddHeader(h)
    \/ CheckSettings
    \/ OpenDatabase
    \/ StartWatcher
    \/ StartAPI
    \/ StartCloser

Next == NewStep \/ CancelContext \/ Close \/ StopWatching

Spec == Init /\ [][Next]_vars

(* The goroutine that runs New and the two that New starts are scheduled. *)
FairSpec == Spec /\ WF_vars(NewStep) /\ WF_vars(Close) /\ WF_vars(StopWatching)

-----------------------------------------------------------------------------
(* The variables keep their types. *)
TypeOK ==
    /\ pc \in {"rules", "headers", "open", "watch", "api", "finish", "failed", "ready"}
    /\ \A h \in DOMAIN headerMap : headerMap[h] \in Catalog \cup {"ip"}
    /\ left \subseteq DOMAIN cfg.headers
    /\ opened \cup broken \subseteq 1..cfg.databases
    /\ interval = 0 \/ interval >= Minute
    /\ watcher \in {"none", "running", "ended"}
    /\ closer \in {"none", "running", "ended"}
    /\ cancelled \in BOOLEAN

(* New read the refreshInterval too late to fail cleanly. *)
LateRefusal == ~ValidDuration(cfg.refreshInterval)

(* A New that fails leaves no reader open and no goroutine behind, whichever
   of its steps failed and however many databases it had opened, unless it is
   refreshInterval that it refuses (plugin.go 243-250, provider.go 138-148):
   Traefik tries again with every change of its configuration. *)
FailureHoldsNothing ==
    pc = "failed" =>
        /\ watcher = "none" /\ closer = "none"
        /\ opened = {} \/ LateRefusal

(* What a configuration must be for New to accept it: the options that its
   mode reads are valid, wherever New looks at them, or left to a default.
   Without a mode, databases decide for mmdb and an API key alone for api. *)
Sound(c) ==
    /\ c.rulesValid /\ c.listsValid
    /\ c.preset \in DOMAIN PresetFields \cup {""}
    /\ \A h \in DOMAIN c.headers : h[2] # "" => c.headers[h] \in Catalog \cup {"", "ip"}
    /\ ValidDuration(c.cacheTTL)
    /\ c.redirect \/ c.status \in {0} \cup 100..599
    /\ \/ /\ c.mode \in {"", "mmdb"} /\ c.databases > 0
          /\ ValidDuration(c.refreshInterval)
       \/ /\ c.mode = "api" \/ (c.mode = "" /\ c.databases = 0)
          /\ c.apiKey /\ c.endpointValid /\ ValidDuration(c.apiTimeout)

(* New accepts the sound configurations whose databases open, and no others,
   although its checks come one by one between its defaults and its effects
   (plugin.go 183-272, 432-482). *)
AcceptsTheSound ==
    /\ pc = "ready" => Sound(config) /\ broken = {}
    /\ pc = "failed" => ~Sound(config) \/ broken # {}

(* The entries of the headers option that name a header, in any spelling. *)
Naming(name) == {h \in DOMAIN cfg.headers : h[2] = name}

(* The fields that the backend may see under a name: http.Header.Set makes
   all spellings one. *)
SentUnder(name) == {headerMap[h] : h \in {k \in DOMAIN headerMap : k[2] = name}}

HeadersDone == left = {} /\ pc \notin {"rules", "failed"}
Names == Catalog \cup {"ip"} \cup {h[2] : h \in DOMAIN cfg.headers}
ByPreset(name) == {addPresetHeaders(cfg.preset)[h] :
                      h \in {k \in DOMAIN addPresetHeaders(cfg.preset) : k[2] = name}}

(* The header map is what the options say, in whatever order Go iterates over
   them: an entry decides over the preset, and names that no entry mentions
   are the preset's.  Entries that spell one name in two ways leave it to the
   order; the preset's X-IPGeo-IP stays, whatever an entry says of it
   (plugin.go 486-527). *)
HeadersAsConfigured ==
    HeadersDone => \A name \in Names \ {""} :
        LET said == {{cfg.headers[h]} \ {""} : h \in Naming(name)}
            kept == IF name = "ip" THEN ByPreset("ip") ELSE {}
        IN IF said = {} THEN SentUnder(name) = ByPreset(name)
           ELSE SentUnder(name) \in {fields \cup kept : fields \in said}

(* Once the context is cancelled, New comes to an end and so do both of its
   goroutines, and no database stays open, although the cancellation may come
   before either of them is started (plugin.go 251-256, 309-313). *)
CancelledEnds ==
    cancelled ~> /\ pc \in {"ready", "failed"}
                 /\ watcher # "running" /\ closer # "running"
                 /\ opened = {} \/ (pc = "failed" /\ LateRefusal)

-----------------------------------------------------------------------------
(* "An empty value removes a header the preset added" (plugin.go 513), unless
   another spelling of the name sets it. *)
EmptyValueRemoves ==
    HeadersDone => \A h \in DOMAIN cfg.headers :
        cfg.headers[h] = "" /\ Naming(h[2]) = {h} => SentUnder(h[2]) = {}
=============================================================================
