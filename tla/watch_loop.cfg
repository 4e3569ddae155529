\* Three watchers, two keys: every way the loop over a list can go.
SPECIFICATION LoopSpec
CONSTANTS
    Key = {k1, k2}
    Client = {c1, c2, c3}
    Value = {v1}
    EmptyStr = empty
    NoValue = none
    Nobody = nobody
    ExpireTimes = {0}
    Ticks = {}
    MaxClock = 1
    ReplCap = 0
    Modes <- MasterOnly
SYMMETRY Symmetry
INVARIANTS
    ReturnsWhatWatchSays
    LoopVisitsWatchersOnce
PROPERTIES
    ImplementsWatchCalls
