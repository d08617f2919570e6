CONSTANTS
    p1 = p1
    p2 = p2
    Parent = {p1, p2}
    None = None
    NumFamilies = 2
    NumThreads = 2
    NumBlocks = 3
    BlockSize = 2
    IntegerWidth = 4
    LoadBalanceThreshold = 0
    NumCores = 2
    Workloads <- EndingWorkloads
    MaxReads = 1
    MaxWrites = 0
    Stale = {FALSE}
SPECIFICATION FairSpec
PROPERTY FamiliesEnd
CHECK_DEADLOCK FALSE
