CONSTANTS
    p1 = p1
    p2 = p2
    Parent = {p1, p2}
    None = None
    NumFamilies = 2
    NumThreads = 3
    NumBlocks = 4
    BlockSize = 2
    IntegerWidth = 4
    LoadBalanceThreshold = 1
    NumCores = 4
    Workloads <- AllWorkloads
    MaxReads = 1
    MaxWrites = 1
    Stale = {FALSE}
SPECIFICATION Spec
INVARIANTS
    RunAtMostOnce SyncMeansOver AllReturned ThreadsInOrder ContextsAccounted MessagesSound
