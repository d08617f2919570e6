CONSTANTS
    t1 = t1
    t2 = t2
    a1 = a1
    a2 = a2
    Thread = {t1, t2}
    Addr = {a1, a2}
    None = None
    NumSets = 1
    Assoc = 1
    SetIndex <- OneSet
    BufferSize = 2
    MaxRequests = 1
    PipeDepth = 1
    Programs = {a1}
    MaxWrites = 1
    MaxEvents = 1
SPECIFICATION FairSpec
INVARIANTS
    ListsSound LinesHeld WaitersAnswered
PROPERTY ReadyRuns
