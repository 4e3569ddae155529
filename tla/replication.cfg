\* Two keys, a log of up to six effects, two clocks; nobody watches.
SPECIFICATION ReplSpec
CONSTANTS
    Key = {k1, k2}
    Client = {}
    Value = {v1}
    EmptyStr = empty
    NoValue = none
    ExpireTimes = {0, 1}
    Ticks = {1}
    MaxClock = 2
    ReplCap = 6
    Modes <- DrawnModes
INVARIANTS
    ChangesArePropagatedOnce
    ReplicaConverges
    ReplicaRelaysTheLog
PROPERTIES
    ReplicaDeletesOnOrder
