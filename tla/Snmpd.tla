------------------------------- MODULE Snmpd -------------------------------
(* The SNMP agent thread of the sdk daemon: the event loop of run_snmpd      *)
(* (mini_snmpd.c) with its three handlers, the table of TCP clients          *)
(* (g_tcp_client_list), and the kernel and the peers it talks to.            *)
(*                                                                           *)
(* A connection is a member of Conns and is opened at most once; it stands   *)
(* both for the socket descriptor and for the peer at its other end.  A      *)
(* client_t is a heap cell, a member of Ptrs.  Bytes come in units: a        *)
(* request is a head unit, which carries the BER length and what snmp() will *)
(* say of the request, followed by body units.                               *)
EXTENDS Integers, Sequences, FiniteSets, SequencesExt

CONSTANTS
    Conns,          \* TCP connections peers may open, each once
    Ptrs,           \* addresses malloc may return for a client_t
    NoSock,         \* sockfd = -1
    MaxClients,     \* MAX_NR_CLIENTS
    MinPacket,      \* the 25 bytes below which a packet is never complete
    MaxPacket,      \* MAX_PACKET_SIZE
    Requests,       \* heads of the requests peers send over TCP
    Datagrams,      \* kinds of UDP datagram: "good", "ignored", "bad"
    MaxDatagrams,   \* bound: datagrams waiting in the UDP socket
    MaxOwed,        \* bound: requests a peer sends ahead of the replies
    Fragments,      \* TRUE: a request may arrive in two pieces
    Pipelines,      \* TRUE: a peer may send a request before the last reply
    Faults          \* which system calls may fail

FaultKinds == {"accept", "fdlimit", "malloc", "fdset", "recvfrom", "send"}

\* "reply": snmp() prepares a response; "ignore": it answers with size 0;
\* "reject": it returns -1; "garbled": not even the outer header is an SNMP one.
Verdicts == {"reply", "ignore", "reject", "garbled"}

ASSUME ConstantsAssumption ==
    /\ MaxClients \in Nat \ {0}
    /\ MinPacket \in Nat \ {0}
    /\ MaxPacket \in Nat /\ MinPacket <= MaxPacket
    /\ NoSock \notin Conns
    /\ Requests \subseteq [len : Nat \ {0}, ans : Verdicts]
    /\ Datagrams \subseteq {"good", "ignored", "bad"}
    /\ MaxDatagrams \in Nat /\ MaxOwed \in Nat
    /\ Fragments \in BOOLEAN /\ Pipelines \in BOOLEAN
    /\ Faults \subseteq FaultKinds

Body  == [len |-> 0, ans |-> "body"]
Units == Requests \cup {Body}

VARIABLES
    pc,         \* where the agent thread is in its loop
    idx,        \* the loop variable i, counted from 1
    rdy,        \* what the last select() reported
    quit,       \* g_quit
    list,       \* g_tcp_client_list[0 .. g_tcp_client_list_length-1]
    heap,       \* the cells malloc handed out and free did not take back
    sockfd,     \* client_t.sockfd of each cell
    buf,        \* client_t.packet[0 .. size-1] of each cell
    outgoing,   \* client_t.outgoing of each cell
    peer,       \* the peer's side of each connection
    net,        \* units of each connection the kernel holds, unread
    todo,       \* body units the peer has still to send of its last request
    owed,       \* complete requests sent on a connection minus replies to it
    backlog,    \* connections waiting for accept()
    udpq,       \* datagrams waiting in the UDP socket
    wedged,     \* g_udp_client.size == -1
    udpLast     \* the last datagram handled and what became of it

table == <<list, heap, sockfd, buf, outgoing>>
conns == <<peer, net, todo, owed>>
udp   == <<udpq, wedged, udpLast>>
vars  == <<pc, idx, rdy, quit, table, conns, backlog, udp>>

PeerStates == {"idle", "up", "fin", "rst", "abort", "closed"}
Open       == {c \in Conns : peer[c] \notin {"idle", "closed"}}
NothingReady == [udp |-> FALSE, tcp |-> FALSE, read |-> {}, write |-> {}]

Init ==
    /\ pc = "top" /\ idx = 1 /\ rdy = NothingReady /\ quit = FALSE
    /\ list = <<>> /\ heap = {}
    /\ sockfd = [p \in Ptrs |-> NoSock]
    /\ buf = [p \in Ptrs |-> <<>>]
    /\ outgoing = [p \in Ptrs |-> FALSE]
    /\ peer = [c \in Conns |-> "idle"]
    /\ net = [c \in Conns |-> <<>>]
    /\ todo = [c \in Conns |-> 0]
    /\ owed = [c \in Conns |-> 0]
    /\ backlog = <<>>
    /\ udpq = <<>> /\ wedged = FALSE
    /\ udpLast = [kind |-> "none", fate |-> "none"]

-----------------------------------------------------------------------------
(* The peers and the kernel.                                                 *)

agent == <<pc, idx, rdy, quit, table>>

Connect(c) ==
    /\ peer[c] = "idle"
    /\ peer' = [peer EXCEPT ![c] = "up"]
    /\ backlog' = Append(backlog, c)
    /\ UNCHANGED <<agent, net, todo, owed, udp>>

\* k units of a new request reach the kernel; without Fragments, all of it.
SendRequest(c) ==
    /\ peer[c] = "up" /\ todo[c] = 0
    /\ owed[c] < MaxOwed /\ (owed[c] = 0 \/ Pipelines)
    /\ \E r \in Requests : \E k \in 1 .. r.len :
          /\ k = r.len \/ Fragments
          /\ net' = [net EXCEPT ![c] = @ \o <<r>> \o [i \in 1 .. k - 1 |-> Body]]
          /\ todo' = [todo EXCEPT ![c] = r.len - k]
          /\ owed' = [owed EXCEPT ![c] = IF k = r.len THEN @ + 1 ELSE @]
    /\ UNCHANGED <<agent, peer, backlog, udp>>

SendRest(c) ==
    /\ peer[c] = "up" /\ todo[c] > 0
    /\ net' = [net EXCEPT ![c] = @ \o [i \in 1 .. todo[c] |-> Body]]
    /\ todo' = [todo EXCEPT ![c] = 0]
    /\ owed' = [owed EXCEPT ![c] = @ + 1]
    /\ UNCHANGED <<agent, peer, backlog, udp>>

\* FIN: the agent's read() returns what is unread, then 0.
Finish(c) ==
    /\ peer[c] = "up"
    /\ peer' = [peer EXCEPT ![c] = "fin"]
    /\ UNCHANGED <<agent, net, todo, owed, backlog, udp>>

\* RST: the next send() fails; after a FIN it raises SIGPIPE as well.
Reset(c) ==
    /\ peer[c] \in {"up", "fin"}
    /\ peer' = [peer EXCEPT ![c] = IF @ = "up" THEN "rst" ELSE "abort"]
    /\ UNCHANGED <<agent, net, todo, owed, backlog, udp>>

DatagramArrives ==
    /\ Len(udpq) < MaxDatagrams
    /\ \E d \in Datagrams : udpq' = Append(udpq, d)
    /\ UNCHANGED <<agent, conns, backlog, wedged, udpLast>>

\* SIGTERM or SIGHUP, delivered to whichever thread: handle_signal.
Signal ==
    /\ ~quit /\ quit' = TRUE
    /\ UNCHANGED <<pc, idx, rdy, table, conns, backlog, udp>>

Environment ==
    \/ \E c \in Conns : \/ Connect(c) \/ SendRequest(c) \/ SendRest(c)
                        \/ Finish(c) \/ Reset(c)
    \/ DatagramArrives
    \/ Signal

-----------------------------------------------------------------------------
(* The top of the loop and select().                                         *)

\* while (!g_quit): the thread leaves; nothing it owns is closed.
LoopTop ==
    /\ pc = "top"
    /\ pc' = IF quit THEN "stopped" ELSE "select"
    /\ UNCHANGED <<idx, rdy, quit, table, conns, backlog, udp>>

\* What select() is asked about: the write set holds the clients with a reply
\* to send, the read set all others.
Watched(out) == {sockfd[p] : p \in {q \in ToSet(list) : outgoing[q] = out}} \ {NoSock}

Readable(c) == net[c] # <<>> \/ peer[c] \in {"fin", "rst", "abort"}

\* BUG: the listening socket is watched only while there is no client.
BugSelect ==
    /\ pc = "select"
    /\ pc' = "udp"
    /\ rdy' = [udp   |-> udpq # <<>>,
               tcp   |-> backlog # <<>> /\ list = <<>>,
               read  |-> {c \in Watched(FALSE) : Readable(c)},
               write |-> Watched(TRUE)]
    /\ UNCHANGED <<idx, quit, table, conns, backlog, udp>>

\* BUG: the UDP socket is watched only while no client has a reply to send.
BugSelectUdp ==
    /\ pc = "select"
    /\ pc' = "udp"
    /\ rdy' = [udp   |-> udpq # <<>> /\ Watched(TRUE) = {},
               tcp   |-> backlog # <<>>,
               read  |-> {c \in Watched(FALSE) : Readable(c)},
               write |-> Watched(TRUE)]
    /\ UNCHANGED <<idx, quit, table, conns, backlog, udp>>

\* select() returns with what is ready, or with nothing on a timeout.  Replies
\* are at most MAX_PACKET_SIZE bytes: a peer that reads them leaves room for one.
\* A removed client that is still in the table has FD_SET(-1) done for it; that
\* sets a bit no client is tested by, and select() never reports more of it than
\* read(-1) or send(-1) failing again (see ClientStep).
Select ==
    /\ pc = "select"
    /\ pc' = "udp"
    /\ rdy' = [udp   |-> udpq # <<>>,
               tcp   |-> backlog # <<>>,
               read  |-> {c \in Watched(FALSE) : Readable(c)},
               write |-> Watched(TRUE)]
    /\ UNCHANGED <<idx, quit, table, conns, backlog, udp>>

\* The signal arrives in this thread while it is blocked in select().
SelectInterrupted ==
    /\ pc = "select" /\ quit
    /\ pc' = "stopped"
    /\ UNCHANGED <<idx, rdy, quit, table, conns, backlog, udp>>

\* FD_SET(-1): a checking libc aborts, or the bit names a descriptor that is
\* not open and select() fails with EBADF.
SelectDies ==
    /\ pc = "select" /\ "fdset" \in Faults
    /\ \E p \in ToSet(list) : sockfd[p] = NoSock
    /\ pc' = "dead"
    /\ UNCHANGED <<idx, rdy, quit, table, conns, backlog, udp>>

-----------------------------------------------------------------------------
(* handle_udp_client.                                                        *)

HandleUdpNone ==
    /\ pc = "udp" /\ ~rdy.udp
    /\ pc' = "accept"
    /\ UNCHANGED <<idx, rdy, quit, table, conns, backlog, udp>>

UdpFate(d) == IF d = "good"
              THEN {"answered"} \cup (IF "send" \in Faults THEN {"unsent"} ELSE {})
              ELSE {"refused"}

\* The test after recvfrom() looks at g_udp_client.size, the size of the packet
\* before: once it is -1 it is never assigned again.
HandleUdp ==
    /\ pc = "udp" /\ rdy.udp
    /\ pc' = "accept"
    /\ \E failed \in IF "recvfrom" \in Faults THEN BOOLEAN ELSE {FALSE} :
          LET d == IF failed THEN "none" ELSE Head(udpq) IN
          /\ udpq' = IF failed THEN udpq ELSE Tail(udpq)
          /\ IF wedged
             THEN /\ udpLast' = [kind |-> d, fate |-> "dropped"]
                  /\ UNCHANGED wedged
             ELSE /\ wedged' = failed
                  /\ \E f \in UdpFate(d) : udpLast' = [kind |-> d, fate |-> f]
    /\ UNCHANGED <<idx, rdy, quit, table, conns, backlog>>

-----------------------------------------------------------------------------
(* handle_tcp_connect.                                                       *)

\* close() of a connection's descriptor: what it held is lost.
HangUp(c) ==
    /\ peer' = [peer EXCEPT ![c] = "closed"]
    /\ net' = [net EXCEPT ![c] = <<>>]
    /\ todo' = [todo EXCEPT ![c] = 0]
    /\ owed' = [owed EXCEPT ![c] = 0]

AcceptNone ==
    /\ pc = "accept" /\ ~rdy.tcp
    /\ pc' = "clients" /\ idx' = 1
    /\ UNCHANGED <<rdy, quit, table, conns, backlog, udp>>

\* accept() fails: the connection is gone (ECONNABORTED) or waits on (EMFILE).
AcceptFails ==
    /\ pc = "accept" /\ rdy.tcp /\ "accept" \in Faults
    /\ pc' = "clients" /\ idx' = 1
    /\ \/ UNCHANGED <<conns, backlog>>
       \/ /\ backlog' = Tail(backlog)
          /\ HangUp(Head(backlog))
    /\ UNCHANGED <<rdy, quit, table, udp>>

\* The descriptor does not fit an fd_set: the connection is closed.
AcceptOverflow ==
    /\ pc = "accept" /\ rdy.tcp /\ "fdlimit" \in Faults
    /\ pc' = "clients" /\ idx' = 1
    /\ backlog' = Tail(backlog)
    /\ HangUp(Head(backlog))
    /\ UNCHANGED <<rdy, quit, table, udp>>

TableFull == Len(list) >= MaxClients

\* find_oldest_client() returns g_tcp_client_list[i] with the i its loop ended
\* with, the length, instead of [pos]: the word after the array.  The builds put
\* there the first subids of g_mib[0] (common symbols) or the timestamp of
\* g_udp_client: no address of a client_t, so reading client->addr ends the
\* process, or NULL, and then exit(EXIT_SYSCALL) does.
AcceptAtLimit ==
    /\ pc = "accept" /\ rdy.tcp /\ TableFull
    /\ pc' = "dead"
    /\ backlog' = Tail(backlog)
    /\ UNCHANGED <<idx, rdy, quit, table, conns, udp>>

AcceptNoMemory ==
    /\ pc = "accept" /\ rdy.tcp /\ ~TableFull /\ "malloc" \in Faults
    /\ pc' = "dead"
    /\ backlog' = Tail(backlog)
    /\ UNCHANGED <<idx, rdy, quit, table, conns, udp>>

Accept ==
    /\ pc = "accept" /\ rdy.tcp /\ ~TableFull
    /\ pc' = "clients" /\ idx' = 1
    /\ backlog' = Tail(backlog)
    /\ \E p \in Ptrs \ heap :
          /\ heap' = heap \cup {p}
          /\ list' = Append(list, p)
          /\ sockfd' = [sockfd EXCEPT ![p] = Head(backlog)]
          /\ buf' = [buf EXCEPT ![p] = <<>>]
          /\ outgoing' = [outgoing EXCEPT ![p] = FALSE]
    /\ UNCHANGED <<rdy, quit, conns, udp>>

-----------------------------------------------------------------------------
(* The loop over the clients: handle_tcp_client_write and _read.             *)

\* close(client->sockfd); client->sockfd = -1.
CloseClient(p) ==
    /\ HangUp(sockfd[p])
    /\ sockfd' = [sockfd EXCEPT ![p] = NoSock]
    /\ UNCHANGED <<buf, outgoing>>

\* BUG: the client is left in outgoing mode.
BugWriteDone(p) ==
    /\ peer[sockfd[p]] \in {"up", "fin"}
    /\ buf' = [buf EXCEPT ![p] = <<>>]
    /\ owed' = [owed EXCEPT ![sockfd[p]] = @ - 1]
    /\ UNCHANGED <<outgoing, sockfd, peer, net, todo>>

\* send() took the whole reply: the client is put into listening mode again.
WriteDone(p) ==
    /\ peer[sockfd[p]] \in {"up", "fin"}
    /\ buf' = [buf EXCEPT ![p] = <<>>]
    /\ outgoing' = [outgoing EXCEPT ![p] = FALSE]
    /\ owed' = [owed EXCEPT ![sockfd[p]] = @ - 1]
    /\ UNCHANGED <<sockfd, peer, net, todo>>

\* send() failed or took only a part of the reply.
WriteFailed(p) ==
    /\ peer[sockfd[p]] = "rst" \/ "send" \in Faults
    /\ CloseClient(p)

Due(p) == IF outgoing[p] THEN sockfd[p] \in rdy.write ELSE sockfd[p] \in rdy.read

ClientWrite ==
    /\ pc = "clients" /\ idx <= Len(list)
    /\ LET p == list[idx] IN
          /\ outgoing[p] /\ Due(p)
          /\ WriteDone(p) \/ WriteFailed(p)
    /\ idx' = idx + 1
    /\ UNCHANGED <<pc, rdy, quit, list, heap, backlog, udp>>

\* No MSG_NOSIGNAL and no handler: SIGPIPE ends the process.
ClientWriteKilled ==
    /\ pc = "clients" /\ idx <= Len(list)
    /\ LET p == list[idx] IN
          outgoing[p] /\ Due(p) /\ peer[sockfd[p]] = "abort"
    /\ pc' = "dead"
    /\ UNCHANGED <<idx, rdy, quit, table, conns, backlog, udp>>

\* BUG: a packet that just fits its header's length is refused.
BugPacketComplete(b) ==
    IF Len(b) < MinPacket THEN 0
    ELSE IF Head(b).ans \in {"garbled", "body"} \/ Head(b).len >= Len(b) THEN -1
    ELSE 0

\* snmp_packet_complete: -1, 0 or 1.
PacketComplete(b) ==
    IF Len(b) < MinPacket THEN 0
    ELSE IF Head(b).ans \in {"garbled", "body"} \/ Head(b).len > Len(b) THEN -1
    ELSE IF Head(b).len = Len(b) THEN 1
    ELSE 0

\* read() appends to the packet what arrived, as far as the packet has room.
Received(p) ==
    LET c    == sockfd[p]
        room == MaxPacket - Len(buf[p])
    IN  SubSeq(net[c], 1, IF Len(net[c]) < room THEN Len(net[c]) ELSE room)

\* BUG: the entry is given up without close().
BugReadFails(p) ==
    /\ Received(p) = <<>>
    /\ sockfd' = [sockfd EXCEPT ![p] = NoSock]
    /\ UNCHANGED <<buf, outgoing, conns>>

\* -1 from a reset connection, 0 at its end or when the packet has no room left.
ReadFails(p) ==
    /\ Received(p) = <<>>
    /\ CloseClient(p)

\* The packet is refused by snmp_packet_complete() or by snmp(), or ignored.
ReadRefused(p) ==
    LET b == buf[p] \o Received(p) IN
    /\ Received(p) # <<>>
    /\ \/ PacketComplete(b) = -1
       \/ PacketComplete(b) = 1 /\ Head(b).ans # "reply"
    /\ CloseClient(p)

\* BUG: the response is prepared but the client is not marked outgoing.
BugReadNotOutgoing(p) ==
    LET c == sockfd[p]
        b == buf[p] \o Received(p)
    IN
    /\ Received(p) # <<>> /\ PacketComplete(b) # -1
    /\ buf' = [buf EXCEPT ![p] = IF PacketComplete(b) = 1 THEN <<>> ELSE b]
    /\ net' = [net EXCEPT ![c] = SubSeq(@, Len(Received(p)) + 1, Len(@))]
    /\ UNCHANGED <<outgoing, sockfd, peer, todo, owed>>

\* The packet is kept until more of it arrives, or answered: the response
\* overwrites it and is sent when select() says so.
ReadKept(p) ==
    LET c    == sockfd[p]
        b    == buf[p] \o Received(p)
        done == PacketComplete(b) = 1
    IN
    /\ Received(p) # <<>>
    /\ \/ PacketComplete(b) = 0
       \/ done /\ Head(b).ans = "reply"
    /\ buf' = [buf EXCEPT ![p] = IF done THEN <<>> ELSE b]
    /\ outgoing' = [outgoing EXCEPT ![p] = done]
    /\ net' = [net EXCEPT ![c] = SubSeq(@, Len(Received(p)) + 1, Len(@))]
    /\ UNCHANGED <<sockfd, peer, todo, owed>>

ClientRead ==
    /\ pc = "clients" /\ idx <= Len(list)
    /\ LET p == list[idx] IN
          /\ ~outgoing[p] /\ Due(p)
          /\ ReadFails(p) \/ ReadRefused(p) \/ ReadKept(p)
    /\ idx' = idx + 1
    /\ UNCHANGED <<pc, rdy, quit, list, heap, backlog, udp>>

\* Not ready, or a removed client: read(-1) and send(-1) would only fail and
\* store sockfd = -1 again.
ClientSkipped ==
    /\ pc = "clients" /\ idx <= Len(list) /\ ~Due(list[idx])
    /\ idx' = idx + 1
    /\ UNCHANGED <<pc, rdy, quit, table, conns, backlog, udp>>

\* BUG: the removal loop starts at the second entry.
BugClientsDone ==
    /\ pc = "clients" /\ idx > Len(list)
    /\ pc' = "compact" /\ idx' = 2 /\ rdy' = NothingReady
    /\ UNCHANGED <<quit, table, conns, backlog, udp>>

ClientsDone ==
    /\ pc = "clients" /\ idx > Len(list)
    /\ pc' = "compact" /\ idx' = 1 /\ rdy' = NothingReady
    /\ UNCHANGED <<quit, table, conns, backlog, udp>>

-----------------------------------------------------------------------------
(* The loop that removes disconnected clients.                               *)

\* BUG: free() after memmove(), of the cell that moved up.
BugFreedAt(i) == IF i < Len(list) THEN {list[i + 1]} ELSE {}

\* Only an entry that is not the last one is freed, before the rest moves up.
FreedAt(i) == IF i < Len(list) THEN {list[i]} ELSE {}

\* BUG: i is decremented, for the entry that moved up, but the loop is a while.
BugRemoveBack ==
    /\ pc = "compact" /\ idx <= Len(list) /\ sockfd[list[idx]] = NoSock
    /\ list' = RemoveAt(list, idx)
    /\ heap' = heap \ FreedAt(idx)
    /\ idx' = idx - 1
    /\ UNCHANGED <<pc, rdy, quit, sockfd, buf, outgoing, conns, backlog, udp>>

\* BUG: i is moved two on after a removal.
BugRemoveSkip ==
    /\ pc = "compact" /\ idx <= Len(list) /\ sockfd[list[idx]] = NoSock
    /\ list' = RemoveAt(list, idx)
    /\ heap' = heap \ FreedAt(idx)
    /\ idx' = idx + 2
    /\ UNCHANGED <<pc, rdy, quit, sockfd, buf, outgoing, conns, backlog, udp>>

\* i is incremented after a removal too: the entry that moved up is passed over.
CompactRemove ==
    /\ pc = "compact" /\ idx <= Len(list) /\ sockfd[list[idx]] = NoSock
    /\ list' = RemoveAt(list, idx)
    /\ heap' = heap \ FreedAt(idx)
    /\ idx' = idx + 1
    /\ UNCHANGED <<pc, rdy, quit, sockfd, buf, outgoing, conns, backlog, udp>>

CompactKeep ==
    /\ pc = "compact" /\ idx <= Len(list) /\ sockfd[list[idx]] # NoSock
    /\ idx' = idx + 1
    /\ UNCHANGED <<pc, rdy, quit, table, conns, backlog, udp>>

CompactDone ==
    /\ pc = "compact" /\ idx > Len(list)
    /\ pc' = "top" /\ idx' = 1
    /\ UNCHANGED <<rdy, quit, table, conns, backlog, udp>>

Agent ==
    \/ LoopTop \/ Select \/ SelectInterrupted \/ SelectDies
    \/ HandleUdpNone \/ HandleUdp
    \/ AcceptNone \/ AcceptFails \/ AcceptOverflow
    \/ AcceptAtLimit \/ AcceptNoMemory \/ Accept
    \/ ClientWrite \/ ClientWriteKilled \/ ClientRead \/ ClientSkipped \/ ClientsDone
    \/ CompactRemove \/ CompactKeep \/ CompactDone

Next == Agent \/ Environment

Spec == Init /\ [][Next]_vars

\* The agent thread is never blocked for good: select() has a timeout and no
\* call after it waits.  Peers owe nothing.
FairSpec == Spec /\ WF_vars(Agent)

-----------------------------------------------------------------------------
(* What the agent promises.                                                  *)

Listed   == ToSet(list)
Zombies  == {p \in Listed : sockfd[p] = NoSock}
Accepted == Open \ ToSet(backlog)
Down     == pc \in {"stopped", "dead"}

\* The type invariant.
TypeOK ==
    /\ pc \in {"top", "select", "udp", "accept", "clients", "compact", "stopped", "dead"}
    /\ idx \in Nat \ {0}
    /\ rdy \in [udp : BOOLEAN, tcp : BOOLEAN, read : SUBSET Conns, write : SUBSET Conns]
    /\ quit \in BOOLEAN
    /\ list \in Seq(Ptrs) /\ heap \subseteq Ptrs
    /\ sockfd \in [Ptrs -> Conns \cup {NoSock}]
    /\ buf \in [Ptrs -> Seq(Units)]
    /\ outgoing \in [Ptrs -> BOOLEAN]
    /\ peer \in [Conns -> PeerStates]
    /\ net \in [Conns -> Seq(Units)]
    /\ todo \in [Conns -> Nat] /\ owed \in [Conns -> Int]
    /\ backlog \in Seq(Conns)
    /\ udpq \in Seq(Datagrams)
    /\ wedged \in BOOLEAN
    /\ udpLast \in [kind : Datagrams \cup {"none"},
                    fate : {"none", "answered", "unsent", "refused", "dropped"}]

\* The pointers in the client table are to live cells, no two to the same one,
\* and the table stays within its array: removing clients while the list is
\* walked never frees a cell another entry still uses (mini_snmpd.c:455-464).
TableSound ==
    /\ Listed \subseteq heap
    /\ \A i, j \in 1 .. Len(list) : i # j => list[i] # list[j]
    /\ Len(list) <= MaxClients

\* Every accepted connection is open in exactly one table entry, and no entry
\* holds a descriptor already closed: none leaks and none is closed twice.
SocketOwnership ==
    pc # "dead" =>
      /\ \A c \in Accepted : \E p \in Listed : sockfd[p] = c
      /\ \A p \in Listed : sockfd[p] # NoSock =>
            /\ sockfd[p] \in Accepted
            /\ \A q \in Listed : sockfd[q] = sockfd[p] => q = p

\* The table is full only with connected clients whenever the loop comes to
\* accept(): disconnected ones the removal loop passed over never use the last
\* slot, because a pass accepts one connection and frees a slot for each two.
FullMeansLive ==
    pc \in {"top", "select", "udp", "accept"} /\ Len(list) = MaxClients => Zombies = {}

\* While the removal loop runs over a full table it has removed nothing yet, so
\* every entry behind it is connected.
CompactedLive ==
    pc = "compact" /\ Len(list) = MaxClients =>
        \A i \in 1 .. Len(list) : i < idx => sockfd[list[i]] # NoSock

\* What select() reported is still there when its handler comes to it.
ReadySound ==
    /\ pc = "udp" /\ rdy.udp => udpq # <<>>
    /\ pc \in {"udp", "accept"} /\ rdy.tcp => backlog # <<>>

\* The backlog holds open connections, none twice.
BacklogSound ==
    /\ \A i \in 1 .. Len(backlog) : backlog[i] \in Open
    /\ \A i, j \in 1 .. Len(backlog) : i # j => backlog[i] # backlog[j]

\* The inductive invariant behind the table's properties: the table and the
\* backlog share out the open connections, each to one holder, throughout.
AgentInv ==
    /\ TypeOK /\ ReadySound /\ BacklogSound
    /\ TableSound /\ SocketOwnership /\ FullMeansLive /\ CompactedLive

\* A pass that meets k disconnected clients leaves at most half of them.
ZombieBound == pc = "top" => 2 * Cardinality(Zombies) <= MaxClients

\* Each complete request a client sent is unread, in its packet buffer, or has
\* its reply waiting to be sent: none is answered twice, or without being sent.
Heads(s) == {i \in 1 .. Len(s) : s[i] # Body}
Waiting(p) == Cardinality(Heads(buf[p] \o net[sockfd[p]]))
              - (IF todo[sockfd[p]] > 0 THEN 1 ELSE 0)
              + (IF outgoing[p] THEN 1 ELSE 0)
ReplyConservation ==
    pc # "dead" =>
      \A p \in Listed : sockfd[p] # NoSock => owed[sockfd[p]] = Waiting(p)

\* A datagram that was received and holds a good request is answered
\* (handle_udp_client; the warning there is for packets not received).
UdpGoodAnswered ==
    udpLast.kind = "good" => udpLast.fate \in {"answered", "unsent"}

\* A connection arriving at a full table does not end the daemon
\* ("or overwrite the oldest one", mini_snmpd.c:122).
SurvivesConnections == pc # "dead"

\* The agent hangs up on a connected peer only because of a request of its own
\* that is no good one: never on one whose requests all deserve a reply.
Cause(c) == \E p \in Listed : /\ sockfd[p] = c
                              /\ \E i \in Heads(buf[p] \o net[c]) :
                                    (buf[p] \o net[c])[i].ans # "reply"
HangUpForCause ==
    [][\A c \in Conns : peer[c] = "up" /\ peer'[c] = "closed" => Cause(c)]_vars

\* The agent implements the service its clients see: connections are taken in
\* their order, each complete request is answered at most once, and never after
\* the hang-up, although requests come in pieces and one behind the other.
Service == INSTANCE SnmpService WITH
               waiting <- backlog, served <- Accepted, over <- {c \in Conns : peer[c] = "closed"},
               pending <- owed, up <- ~Down
ImplementsService == Service!ServiceSpec

\* A disconnected client's entry is eventually removed, although the loop that
\* removes entries passes over the one after each it removes.
ZombiesGo == \A p \in Ptrs : (p \in Zombies) ~> (p \notin Zombies \/ Down)

\* A connection in the backlog is eventually accepted, however busy the clients
\* already in the table keep the loop.
BacklogServed ==
    \A c \in Conns : (c \in ToSet(backlog)) ~> (c \notin ToSet(backlog) \/ Down)

\* A datagram in the UDP socket is eventually received, however busy the TCP
\* clients, which share the thread with it, keep the loop.
UdpServed == (udpq # <<>>) ~> ((pc = "udp" /\ rdy.udp) \/ Down)

\* A peer that sends whole requests one at a time gets an answer or a hang-up.
RequestsSettled == \A c \in Conns : (owed[c] > 0) ~> (owed[c] = 0 \/ Down)

=============================================================================
