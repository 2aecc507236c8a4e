SPECIFICATION SerialSpec
CONSTANTS
    Order <- ThreeFields
    Readers = {}
    MaxPolls = 2
    PartOf <- FieldParts
    ReadCap = 3
    MaxPending = 2
    MaxLost = 0
    Late = TRUE
    SerialFaults = {}
INVARIANT ShownIsStatus
CHECK_DEADLOCK FALSE
