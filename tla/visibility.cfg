\* Every configuration of role, caller and switches: who sees which key.
SPECIFICATION Spec
CONSTANTS
    Key = {k1, k2}
    Client = {c1}
    Value = {v1}
    EmptyStr = empty
    NoValue = none
    ExpireTimes = {1}
    Ticks = {1}
    MaxClock = 2
    ReplCap = 0
    Modes <- AllModes
SYMMETRY KeySymmetry
INVARIANTS
    KeysAgreesWithGet
    ActiveCycleReconcilesDbSize
    PttlIsUnambiguous
    OnlySetRevives
    ReplicaWaitsForWrites
