\* Every rule on every drawn world.
SPECIFICATION RuleSpec
CONSTANTS
    Key = {k1, k2}
    Client = {c1, c2}
    Value = {v1, empty}
    EmptyStr = empty
    NoValue = none
    ExpireTimes = {0, 1, 2}
    Ticks = {}
    MaxClock = 2
    ReplCap = 2
    Modes <- DrawnModes
    Spread = 2
SYMMETRY ClientSymmetry
CHECK_DEADLOCK FALSE
INVARIANTS
    RulesHold
    F01RuleFails
