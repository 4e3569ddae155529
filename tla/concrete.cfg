\* The words and shifts of the source; every rule over seven seeds.
SPECIFICATION DriverSpec
CONSTANTS
    Width = 64
    ShiftA = 12
    ShiftB = 25
    ShiftC = 27
    Golden <- MCGolden
    N = 7
    MaxFailures = 3
    Scripts <- MCScripts
CHECK_DEADLOCK FALSE
INVARIANTS
    StatusIsHonest
    FailuresReproduce
    NeverZero
    StreamsInPairs
PROPERTIES
    EveryRunEnds
