------------------------- MODULE MCRequestPipeline -------------------------
(* Rule sets that use each kind of rule, alone and together, with lists spelt
   differently from the data; addresses known in full, in part, or not,
   to one database or to several that contradict each other. *)
EXTENDS RequestPipeline, TLC

T(code, spelling) == [code |-> code, spelling |-> spelling]

NoRules ==
    [allowed |-> [f \in ListFields |-> {}], blocked |-> [f \in ListFields |-> {}],
     block |-> {}, blockKnownGoodBots |-> FALSE, blockThreatScoreAbove |-> 0,
     allowUnknown |-> TRUE]

BasicRules ==
    {NoRules,
     [NoRules EXCEPT !.allowed["country_code"] = {T("c1", "other")}],
     [NoRules EXCEPT !.blocked["country_code"] = {T("c1", "other")},
                     !.blocked["asn"] = {T("c2", "normal"), T("0", "normal")}],
     [NoRules EXCEPT !.allowed["asn"] = {T("0", "other")},
                     !.allowed["continent_code"] = {T("c2", "normal")}],
     [NoRules EXCEPT !.block = {"is_bot", "is_tor"}],
     [NoRules EXCEPT !.block = {"is_bot"}, !.blockKnownGoodBots = TRUE,
                     !.blockThreatScoreAbove = 1],
     [NoRules EXCEPT !.blockThreatScoreAbove = 2, !.block = {"is_bot"},
                     !.allowed["country_code"] = {T("c1", "normal")}]}

MCRuleConfigs ==
    BasicRules \cup {[c EXCEPT !.allowUnknown = FALSE] : c \in BasicRules}

MCHeaderMaps ==
    {[h \in {} |-> "ip"],
     [h \in {"X-IPGeo-Country-Code", "X-IPGeo-IP", "X-City"} |->
         CASE h = "X-IPGeo-Country-Code" -> "country_code"
           [] h = "X-IPGeo-IP" -> "ip"
           [] OTHER -> "city_name"]}

MCData ==
    {<<[country_code |-> T("c1", "normal"), asn |-> T("0", "normal"),
        city_name |-> T("c1", "normal")]>>,
     <<[country_code |-> T("c2", "other"), continent_code |-> T("c2", "other"),
        asn |-> T("c2", "other"), threat_score |-> 2]>>,
     <<[country_code |-> T("c1", "other"), is_bot |-> TRUE,
        is_known_good_bot |-> TRUE, is_tor |-> FALSE]>>,
     <<[is_bot |-> TRUE, is_known_good_bot |-> FALSE, threat_score |-> 3]>>,
     <<[is_tor |-> TRUE, threat_score |-> 0]>>,
     <<[country_code |-> T("c2", "normal"), asn |-> T("0", "normal")],
       [country_code |-> T("c1", "other"), asn |-> T("c2", "normal"),
        threat_score |-> 3]>>,
     <<[is_bot |-> FALSE, threat_score |-> 0],
       [is_bot |-> TRUE, is_known_good_bot |-> TRUE, threat_score |-> 2],
       [is_known_good_bot |-> FALSE, country_code |-> T("c1", "normal")]>>}
=============================================================================
