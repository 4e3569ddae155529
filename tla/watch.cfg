\* Two keys and two clients, every drawn mode whose write lookups delete, with the
\* history of what each client saw.
SPECIFICATION CasSpec
CONSTANTS
    Key = {k1, k2}
    Client = {c1, c2}
    Value = {v1, v2}
    EmptyStr = empty
    NoValue = none
    ExpireTimes = {0, 1}
    Ticks = {1}
    MaxClock = 2
    ReplCap = 0
    Modes <- DrawnForcingModes
SYMMETRY Symmetry
INVARIANTS
    TypeOK
    ExpiresSubsetOfKeys
    WatchTableConsistent
    NoStaleExpiredFlag
    WriteDirtiesEveryWatcher
    WatchSeesEveryChange
PROPERTIES
    DirtyingClearsWatches
