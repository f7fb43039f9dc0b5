SPECIFICATION Spec
CONSTANTS
    Configs <- HeaderConfigs
    Catalog <- MCCatalog
    PresetFields <- MCPresetFields
INVARIANTS EmptyValueRemoves
CHECK_DEADLOCK FALSE
