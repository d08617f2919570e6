CONSTANTS
    Device = {0, 1, 2, 3}
    CPU = 0
    RPCDev = 1
    ROMDev = 2
    RTCDev = 3
    Buffered = {1, 2, 3}
    TakesInterrupts = {0}
    InBuffer = 1
    OutBuffer = 1
    Thread = {1, 2}
    Reg = {1, 2, 3, 4}
    Addr = {0, 1, 2, 3, 4, 5, 6, 7, 8, 9, 10, 11, 12, 13}
    None = None
    NoByte = NoByte
    Workloads <- MCWorkloads
    RequestBuffer = 2
    WritebackQueue = 3
    IncomingQueue = 1
    NumChannels = 2
    NotificationQueue = 2
    RequestQueue = 1
    ResponseQueue = 2
    LineSize = 2
    MaxArg1 = 4
    MaxArg2 = 4
    RPCQueue = 1
    Image <- Image5
    MaxElapsed = 2
SPECIFICATION FairSpec
PROPERTY ScriptsEnd
INVARIANT CompletionMeansWritten
INVARIANT AnswersMatch
CHECK_DEADLOCK FALSE
