SPECIFICATION Spec
CONSTANTS
    NumFamilies = 3
    NumThreads = 4
    NumBlocks = 4
    BlockSize = 4
    MaxPhys = 3
    Counts <- AllBodies
CONSTRAINT FewReserved
INVARIANTS PoolsExact ReservationHonoured
CHECK_DEADLOCK FALSE
