SPECIFICATION Spec
CONSTANTS
    NumCaches = 2
    CachesPerDir = 2
    NumRoots = 1
    Addrs = {0, 1}
    Bytes = {0}
    Values = {1}
    NoVal = NoVal
    None = None
    NodeBufferSize = 2
    Assoc = 1
    SetOf <- OneSet
    OutputQueueSize = 1
    InputQueueSize = 1
    Inject = FALSE
    RequestBufferSize = 1
    Readers <- Crossed
    Writers <- FirstLine
    Writes <- FirstByte
    MaxUnacked = 2
    MaxTokens = 2
INVARIANTS
    OneRequestPerPendingLine
    WritesAckedOnce
    OnePriorityToken
CHECK_DEADLOCK FALSE
