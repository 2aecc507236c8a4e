SPECIFICATION Spec
CONSTANTS
    c1 = c1  c2 = c2  c3 = c3  c4 = c4
    p1 = p1  p2 = p2  p3 = p3  p4 = p4
    Conns = {c1, c2}
    Ptrs = {p1, p2}
    NoSock = NoSock
    MaxClients = 2
    MinPacket = 2
    MaxPacket = 4
    Requests <- LongRequests
    Datagrams = {}
    MaxDatagrams = 0
    MaxOwed = 1
    Fragments = TRUE
    Pipelines = FALSE
    Faults = {}
PROPERTY HangUpForCause
CHECK_DEADLOCK FALSE
