SPECIFICATION Spec
CONSTANTS
    c1 = c1  c2 = c2  c3 = c3  c4 = c4
    p1 = p1  p2 = p2  p3 = p3  p4 = p4
    Conns = {c1, c2, c3, c4}
    Ptrs = {p1, p2, p3, p4}
    NoSock = NoSock
    MaxClients = 3
    MinPacket = 2
    MaxPacket = 4
    Requests = {}
    Datagrams = {}
    MaxDatagrams = 0
    MaxOwed = 0
    Fragments = FALSE
    Pipelines = FALSE
    Faults = {"accept", "fdlimit", "malloc", "fdset"}
SYMMETRY FourSymmetry
INVARIANTS TableSound SocketOwnership FullMeansLive ZombieBound AgentInv
CHECK_DEADLOCK FALSE
