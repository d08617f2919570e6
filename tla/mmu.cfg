CONSTANTS
    Byte = {0}
    NoVal = NoVal
    None = None
    NumSets = 1
    Assoc = 2
    LookupBuffer = 2
    ReadBuffer = 1
    WriteBuffer = 1
    WritebackBuffer = 1
    OutgoingBuffer = 1
    TableLines <- Lines
    PageSize <- Sizes
    OutFifo = 2
    InFifo = 1
    Levels = 3
    Section = {0, 1, 2}
    MaxTables = 12
    PageLines = 2
    Context = 0
    TableOffset = 2
    TablesAt = 0
    Mappings <- Tree
    Direct = {1}
    LoadAddr <- Loads
    StoreAddr = {8, 12}
    Operand = {1, 2}
    Strategies = {"LRU"}
    ChannelSize = 1
    Invalidations <- OfLargePage
SPECIFICATION FairSpec
INVARIANT TranslationsAgree
INVARIANT AnswersSound
PROPERTY LoadsEnd
CHECK_DEADLOCK FALSE
