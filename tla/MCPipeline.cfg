SPECIFICATION Spec
CONSTANTS
    Codes = {"c1", "c2"}
    RuleConfigs <- MCRuleConfigs
    HeaderMaps <- MCHeaderMaps
    Data <- MCData
    OtherHeader = "X-IPGeo-Other"
INVARIANTS TypeOK DecidesOnAllData ManagedHeadersAuthentic DryRunRefusesNothing StrictAllowList RefusalIsSupported
CHECK_DEADLOCK FALSE
