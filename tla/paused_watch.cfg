\* FINDINGS.md F-01: does every ordinary write path lazy-expire first?
SPECIFICATION Spec
CONSTANTS
    Key = {k1}
    Client = {c1, c2}
    Value = {v1}
    EmptyStr = empty
    NoValue = none
    ExpireTimes = {1}
    Ticks = {1}
    MaxClock = 2
    ReplCap = 0
    Modes <- PausedMaster
SYMMETRY Symmetry
INVARIANTS
    WriteDirtiesEveryWatcher
