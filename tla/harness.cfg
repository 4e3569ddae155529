\* Two tests in parallel, with servers that boot, answer, fall silent, die
\* or never come up, in a process that may be killed and run again.
SPECIFICATION HarnessSpec
CONSTANTS
    t1 = t1
    t2 = t2
    Test = {t1, t2}
    Offset <- MCOffset
    MaxTries = 3
    MaxKills = 2
CHECK_DEADLOCK FALSE
INVARIANTS
    OwnServer
    NoServerLeftBehind
PROPERTIES
    TestsEndUnlessHeldUp
