CONSTANTS
    Byte = {0}
    NoVal = NoVal
    None = None
    NumSets = 1
    Assoc = 1
    LookupBuffer = 1
    ReadBuffer = 1
    WriteBuffer = 1
    WritebackBuffer = 1
    OutgoingBuffer = 2
    NumClients = 2
    Addr = {1, 2}
    Val <- Values
    InitLine <- ZeroLine
    BufferSize = 1
    MaxRequests <- Requests
    NumBanks = 2
    BankSelection = "DIRECT"
    NumInterfaces = 2
    InterfaceSelection = "DIRECT"
    LineSize = 2
    RowOf <- TwoRows
    Bursts = 2
    ResponseBuffer = 1
    tRCD = 1
    tRP = 1
    tCL = 1
    tWR = 0
    tCCD = 0
    tCWL = 0
    tRAS = 0
    Kinds <- AllKinds
    Operand = {1}
    Size <- OneRegister
    Writers <- Stores
    Creators <- Bundles
    MaxStores = 2
SPECIFICATION FairSpec
INVARIANT CopiesMatchMemory
PROPERTY ServesMemory
PROPERTY LoadsEnd
CHECK_DEADLOCK FALSE
