SPECIFICATION Spec
CONSTANTS
    SubidBase = 256
    MaxSubids = 16
    MaxOids = 16
    MaxValues = 128
    PacketRoom = 110
    Tables <- SdkTables
    Probes <- AllProbes
    Roots <- WalkRoots
    Repetitions = {1, 7, 40}
INVARIANTS TypeOK GetIsExact NextIsSuccessor BulkIsRepeatedNext WalkIsComplete
PROPERTY WalkMoves
CHECK_DEADLOCK FALSE
