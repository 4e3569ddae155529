\* One key, two values, every configuration that hides expired keys.
SPECIFICATION ObservedSpec
CONSTANTS
    Key = {k1}
    Client = {}
    Value = {v1, v2}
    EmptyStr = empty
    NoValue = none
    ExpireTimes = {0, 1}
    Ticks = {1}
    MaxClock = 1
    ReplCap = 0
    Modes <- HidingModes
SYMMETRY ValueSymmetry
PROPERTIES
    ImplementsLogicalStore
