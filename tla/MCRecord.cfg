SPECIFICATION Spec
CONSTANTS
    Width = 3
    V4Width = 1
    NodeCount = 2
    Separator = 3
    Offsets = {0, 2}
    MaxDepth = 3
    WindowSize = 3
    SeekFieldThreshold = 8
    TailLength = 4
    SectionsOf <- MCSectionsOf
    FieldDefs <- MCFieldDefs
    Settings <- MCSettings
    Before <- MCBefore
INVARIANTS LongestPrefixMatch StrategiesAgree FlagsKeepMeaning
CHECK_DEADLOCK FALSE
