\* Schedules of three steps on two keys, on a server that may get one slot wrong.
SPECIFICATION FairDiffSpec
CONSTANTS
    Key = {k1, k2}
    Client = {}
    Value = {v1}
    NoValue = NoValue
    EmptyStr = EmptyStr
    ExpireTimes <- MCExpireTimes
    Ticks = {}
    MaxClock = 0
    ReplCap = 0
    Modes <- MCModes
    Base = 1
    Past <- MCPast
    Soon = 2
    Far = 11
    TickMs = 3
    MaxDrift = 1
    Steps = 3
    MayDeviate = TRUE
CHECK_DEADLOCK FALSE
INVARIANTS DiffTypeOK LockStep NoFalseAlarm AgreedMeansEqual
PROPERTIES SnapshotObserves EveryScheduleIsDecided
