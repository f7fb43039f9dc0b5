SPECIFICATION FairSpec
CONSTANTS
    Configs <- MCConfigs
    Catalog <- MCCatalog
    PresetFields <- MCPresetFields
INVARIANTS TypeOK FailureHoldsNothing AcceptsTheSound HeadersAsConfigured
PROPERTIES CancelledEnds
CHECK_DEADLOCK FALSE
