----------------------------- MODULE MCStartup -----------------------------
(* Configurations that differ in the header options, and configurations that
   differ in everything else. *)
EXTENDS Startup, TLC

MCCatalog == {"asn", "city_name", "is_vpn"}
MCPresetFields ==
    "none" :> {} @@ "minimal" :> {"asn"} @@ "standard" :> {"asn", "is_vpn"}
    @@ "full" :> MCCatalog

Seconds(n) == Duration("value", n)
Unset == Duration("unset", 0)
Invalid == Duration("invalid", 0)

Default ==
    [mode |-> "mmdb", apiKey |-> FALSE, databases |-> 1, preset |-> "",
     headers |-> [h \in {} |-> ""], rulesValid |-> TRUE, listsValid |-> TRUE,
     cacheTTL |-> Seconds(3600), status |-> 0, redirect |-> FALSE,
     refreshInterval |-> Unset, apiTimeout |-> Unset, endpointValid |-> TRUE]

(* Two spellings of one preset header, the preset's own spelling of the IP
   header, a header of the operator's, and a blank name. *)
Spelled == {<<"canonical", "asn">>, <<"lower", "asn">>, PresetIP,
            <<"lower", "own">>, <<"blank", "">>}
Entries == UNION {[names -> {"", "ip", "asn", "city_name", "bogus"}] :
                     names \in {s \in SUBSET Spelled : Cardinality(s) <= 2}}
HeaderConfigs ==
    {[Default EXCEPT !.preset = preset, !.headers = headers] :
        preset \in {"", "none", "standard", "full", "other"}, headers \in Entries}

OtherConfigs ==
    {[Default EXCEPT !.mode = mode, !.apiKey = key, !.databases = n,
        !.refreshInterval = refresh, !.status = status, !.redirect = redirect,
        !.cacheTTL = ttl,
        !.apiTimeout = timeout, !.endpointValid = endpoint] :
        mode \in {"", "mmdb", "api", "other"}, key \in BOOLEAN, n \in 0..2,
        refresh \in {Unset, Seconds(0), Seconds(30), Seconds(90), Seconds(-1), Invalid},
        status \in {0, 99, 599, 600}, redirect \in BOOLEAN,
        ttl \in {Unset, Seconds(0), Invalid}, timeout \in {Unset, Seconds(-1)},
        endpoint \in BOOLEAN}

BrokenLists ==
    {[Default EXCEPT !.databases = 2, !.rulesValid = rules, !.listsValid = lists] :
        rules \in BOOLEAN, lists \in BOOLEAN}

MCConfigs == HeaderConfigs \cup OtherConfigs \cup BrokenLists
=============================================================================
