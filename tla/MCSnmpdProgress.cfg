SPECIFICATION FairSpec
CONSTANTS
    c1 = c1  c2 = c2  c3 = c3  c4 = c4
    p1 = p1  p2 = p2  p3 = p3  p4 = p4
    Conns = {c1, c2}
    Ptrs = {p1, p2}
    NoSock = NoSock
    MaxClients = 2
    MinPacket = 2
    MaxPacket = 4
    Requests <- WholeRequests
    Datagrams = {"good"}
    MaxDatagrams = 1
    MaxOwed = 1
    Fragments = FALSE
    Pipelines = FALSE
    Faults = {}
PROPERTIES ZombiesGo BacklogServed UdpServed RequestsSettled HangUpForCause ImplementsService
CHECK_DEADLOCK FALSE
