SPECIFICATION Spec
CONSTANTS
    c1 = c1  c2 = c2  c3 = c3  c4 = c4
    p1 = p1  p2 = p2  p3 = p3  p4 = p4
    Conns = {c1}
    Ptrs = {p1}
    NoSock = NoSock
    MaxClients = 2
    MinPacket = 2
    MaxPacket = 4
    Requests = {}
    Datagrams = {"good", "bad"}
    MaxDatagrams = 2
    MaxOwed = 0
    Fragments = FALSE
    Pipelines = FALSE
    Faults = {"recvfrom"}
INVARIANT UdpGoodAnswered
CHECK_DEADLOCK FALSE
