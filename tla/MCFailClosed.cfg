SPECIFICATION Spec
CONSTANTS
    Codes = {"c1", "c2"}
    RuleConfigs <- MCRuleConfigs
    HeaderMaps <- MCHeaderMaps
    Data <- MCData
    OtherHeader = "X-IPGeo-Other"
INVARIANTS FailClosed
CHECK_DEADLOCK FALSE
