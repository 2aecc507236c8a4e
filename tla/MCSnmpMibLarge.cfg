SPECIFICATION Spec
CONSTANTS
    SubidBase = 256
    MaxSubids = 16
    MaxOids = 16
    MaxValues = 128
    PacketRoom = 110
    Tables <- SdkTables
    Probes <- LargeProbes
    Roots = {}
    Repetitions = {}
INVARIANT NextIsSuccessor
CHECK_DEADLOCK FALSE
