CONSTANTS
    Thread = {0, 1}
    Reg = {1, 2, 3, 4}
    Unit = {1, 2}
    Isas = {"mtalpha", "mtsparc"}
    MaxLen = 4
    MaxStalls = 1
    InputQueueSize = 1
    None = None
    Length <- MCLength
    Local <- MCLocal
    UnitFor <- MCUnitFor
    Pipelined <- MCPipelined
    Code <- MCCode
SPECIFICATION FairSpec
INVARIANTS
    OperandsInOrder
    RegistersSound
PROPERTY SuspendedWakes
