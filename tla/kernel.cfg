SPECIFICATION FairSpec
CONSTANTS
    c1 = c1
    c2 = c2
    t1 = t1
    t2 = t2
    Core = {c1, c2}
    Thread = {t1, t2}
    Loads = 2
    Clock <- TheClock
    Process <- TheProcess
    Storage <- TheStorage
    Port <- ThePort
    StorageClock <- TheStorageClock
    PortClock <- ThePortClock
    Sensitive <- TheSensitive
    Setups <- SlowCores
    StepCycles = {0, 3}
    MaxStops = 1
INVARIANTS
    AwakeWhileHolding
    IdleMeansDone
PROPERTIES
    AnswersInOrder
CHECK_DEADLOCK FALSE
