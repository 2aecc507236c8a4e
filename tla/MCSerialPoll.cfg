SPECIFICATION SerialFairSpec
CONSTANTS
    Order <- TwoFields
    Readers = {"agent"}
    MaxPolls = 2
    PartOf <- FieldParts
    ReadCap = 3
    MaxPending = 2
    MaxLost = 1
    Late = TRUE
    SerialFaults = {"open", "write", "select", "read"}
INVARIANTS SerialTypeOK SnapshotWindow SnapshotsAdvance PromptShown StatusInv
PROPERTY PollsGoOn
CHECK_DEADLOCK FALSE
