SPECIFICATION Spec
CONSTANTS
    MaxPacket = 300
    MinPacket = 25
    MaxOids = 3
    MaxSubids = 16
    MaxString = 64
    IntBytes = 3
    Messages <- AllMessages
    Forms = {0, 1, 2}
    Results <- AllResults
INVARIANTS TypeOK ReadAsMeant AnswerAsMeant WholeIsComplete
