SPECIFICATION SdkFairSpec
CONSTANTS
    Order <- TwoPlaces
    Readers = {"agent"}
    MaxPolls = 2
    AgentThread = "agent"
    Timeout = 2
    MaxStep = 2
    MaxSets = 1
    MaxTime = 4
    Conns = {"c1", "c2"}
    MaxWorkers = 2
    Commands <- DryCommand
    Descriptors = 3
    ServerFaults = {"thread"}
    Budgets <- AllBudgets
INVARIANTS SdkTypeOK MibFresh ServedOnce LostForCause ReplyRecent
PROPERTIES MibAdvances MibCatchesUp CommandsSettled SignalStopsAgent
CHECK_DEADLOCK FALSE
