---------------------------- MODULE SnmpdProofs ----------------------------
(* What holds of the SNMP agent for every number of connections and clients, *)
(* every packet size and every set of faults: its table; that it answers     *)
(* each complete request once, cut into any pieces, and so implements the    *)
(* service its clients see (SnmpService); and that it hangs up for a cause.  *)
EXTENDS Snmpd, SequenceLemmas, FiniteSetTheorems

-----------------------------------------------------------------------------
(* Types.                                                                    *)

\* The bytes of a piece of a request are units.
LEMMA BodiesAreUnits ==
    ASSUME NEW n \in Int
    PROVE  [i \in 1 .. n |-> Body] \in Seq(Units)
<1>1. Body \in Units
  BY DEF Units
<1>2. CASE n >= 0
  <2>1. n \in Nat
    BY <1>2
  <2> QED BY <1>1, <2>1, IsASeq
<1>3. CASE n < 0
  <2>1. 1 .. n = 1 .. 0
    BY <1>3
  <2>2. [i \in 1 .. 0 |-> Body] \in Seq(Units)
    BY <1>1, IsASeq
  <2> QED BY <2>1, <2>2
<1> QED BY <1>2, <1>3

\* HangUp keeps the types of the connection variables (close()).
LEMMA HangUpTypes ==
    ASSUME TypeOK, NEW c \in Conns, HangUp(c)
    PROVE  /\ peer' \in [Conns -> PeerStates] /\ net' \in [Conns -> Seq(Units)]
           /\ todo' \in [Conns -> Nat] /\ owed' \in [Conns -> Int]
<1>1. <<>> \in Seq(Units)
  BY EmptySeq
<1> QED BY <1>1 DEF TypeOK, HangUp, PeerStates

\* What read() returns is a sequence of units, and so is what it leaves.
LEMMA ReceivedTypes ==
    ASSUME TypeOK, ConstantsAssumption, NEW p \in Ptrs, sockfd[p] \in Conns
    PROVE  /\ Received(p) \in Seq(Units)
           /\ buf[p] \o Received(p) \in Seq(Units)
           /\ SubSeq(net[sockfd[p]], Len(Received(p)) + 1, Len(net[sockfd[p]]))
                 \in Seq(Units)
<1> DEFINE s == net[sockfd[p]]
<1>1. s \in Seq(Units) /\ buf[p] \in Seq(Units)
  BY DEF TypeOK
<1>2. Len(s) \in Nat /\ Len(buf[p]) \in Nat
  BY <1>1, LenProperties
<1>3. PICK n \in Int : n <= Len(s) /\ Received(p) = SubSeq(s, 1, n)
  BY <1>2 DEF Received, ConstantsAssumption
<1>4. Received(p) \in Seq(Units)
  BY <1>1, <1>2, <1>3, SubSeqProperties
<1>5. SubSeq(s, Len(Received(p)) + 1, Len(s)) \in Seq(Units)
  BY <1>1, <1>2, <1>4, LenProperties, SubSeqProperties
<1> QED BY <1>1, <1>4, <1>5, ConcatProperties

\* The type invariant and what select() reported hold on through every step.
LEMMA TypeStep ==
    ASSUME TypeOK, ReadySound, [Next]_vars
    PROVE  TypeOK' /\ ReadySound'
<1> USE ConstantsAssumption DEF table, conns, udp, agent
<1>1. ASSUME NEW c \in Conns, Connect(c)
      PROVE  TypeOK' /\ ReadySound'
  <2>1. backlog \in Seq(Conns) /\ backlog' = Append(backlog, c)
    BY <1>1 DEF Connect, TypeOK
  <2>2. backlog' \in Seq(Conns) /\ backlog' # <<>>
    BY <2>1, AppendProperties
  <2>3. peer' \in [Conns -> PeerStates]
    BY <1>1 DEF Connect, TypeOK, PeerStates
  <2>4. UNCHANGED <<agent, net, todo, owed, udp>>
    BY <1>1 DEF Connect
  <2>5. TypeOK'
    BY <2>2, <2>3, <2>4 DEF TypeOK
  <2>6. ReadySound'
    BY <2>2, <2>4 DEF ReadySound
  <2> QED BY <2>5, <2>6
<1>2. ASSUME NEW c \in Conns, SendRequest(c)
      PROVE  TypeOK' /\ ReadySound'
  <2>0. PICK r \in Requests : \E k \in 1 .. r.len :
             /\ net' = [net EXCEPT ![c] = @ \o <<r>> \o [i \in 1 .. k - 1 |-> Body]]
             /\ todo' = [todo EXCEPT ![c] = r.len - k]
             /\ owed' = [owed EXCEPT ![c] = IF k = r.len THEN @ + 1 ELSE @]
    BY <1>2 DEF SendRequest
  <2>1. PICK k \in 1 .. r.len :
             /\ net' = [net EXCEPT ![c] = @ \o <<r>> \o [i \in 1 .. k - 1 |-> Body]]
             /\ todo' = [todo EXCEPT ![c] = r.len - k]
             /\ owed' = [owed EXCEPT ![c] = IF k = r.len THEN @ + 1 ELSE @]
    BY <2>0
  <2>2. r.len \in Nat /\ k - 1 \in Int /\ r.len - k \in Nat
    BY DEF ConstantsAssumption
  <2>3. net[c] \in Seq(Units) /\ <<r>> \in Seq(Units)
    BY DEF TypeOK, Units
  <2>4. net[c] \o <<r>> \o [i \in 1 .. k - 1 |-> Body] \in Seq(Units)
    BY <2>2, <2>3, BodiesAreUnits, ConcatProperties
  <2>5. net' \in [Conns -> Seq(Units)]
    BY <2>1, <2>4 DEF TypeOK
  <2>6. todo' \in [Conns -> Nat] /\ owed' \in [Conns -> Int]
    BY SMTT(30), <2>1, <2>2 DEF TypeOK
  <2>7. UNCHANGED <<table, peer, backlog, udp, agent>>
    BY <1>2 DEF SendRequest
  <2>8. TypeOK'
    BY <2>5, <2>6, <2>7 DEF TypeOK
  <2>9. ReadySound'
    BY <2>7 DEF ReadySound
  <2> QED BY <2>8, <2>9
<1>3. ASSUME NEW c \in Conns, SendRest(c)
      PROVE  TypeOK' /\ ReadySound'
  <2>1. net[c] \in Seq(Units) /\ todo[c] \in Int
    BY DEF TypeOK
  <2>2. net[c] \o [i \in 1 .. todo[c] |-> Body] \in Seq(Units)
    BY <2>1, BodiesAreUnits, ConcatProperties
  <2> QED BY <1>3, <2>2 DEF SendRest, TypeOK, ReadySound
<1>4. ASSUME NEW c \in Conns, Finish(c)
      PROVE  TypeOK' /\ ReadySound'
  BY <1>4 DEF Finish, TypeOK, ReadySound, PeerStates
<1>5. ASSUME NEW c \in Conns, Reset(c)
      PROVE  TypeOK' /\ ReadySound'
  BY <1>5 DEF Reset, TypeOK, ReadySound, PeerStates
<1>6. CASE DatagramArrives
  <2>1. udpq' \in Seq(Datagrams) /\ udpq' # <<>>
    BY <1>6, AppendProperties DEF DatagramArrives, TypeOK
  <2> QED BY <1>6, <2>1 DEF DatagramArrives, TypeOK, ReadySound
<1>7. CASE Signal
  BY <1>7 DEF Signal, TypeOK, ReadySound
<1>8. CASE LoopTop \/ SelectInterrupted \/ SelectDies \/ HandleUdpNone
  <2>1. CASE LoopTop
    BY <2>1 DEF LoopTop, TypeOK, ReadySound
  <2>2. CASE SelectInterrupted
    BY <2>2 DEF SelectInterrupted, TypeOK, ReadySound
  <2>3. CASE SelectDies
    BY <2>3 DEF SelectDies, TypeOK, ReadySound
  <2>4. CASE HandleUdpNone
    BY <2>4 DEF HandleUdpNone, TypeOK, ReadySound
  <2> QED BY <1>8, <2>1, <2>2, <2>3, <2>4
<1>9. CASE Select
  <2>1. rdy'.write \subseteq Conns /\ rdy'.read \subseteq Conns
    BY <1>9 DEF Select, Watched, ToSet, TypeOK
  <2> QED BY <1>9, <2>1 DEF Select, TypeOK, ReadySound
<1>10. CASE HandleUdp
  <2>1. udpq \in Seq(Datagrams) /\ udpq # <<>>
    BY <1>10 DEF HandleUdp, TypeOK, ReadySound
  <2>2. Head(udpq) \in Datagrams /\ Tail(udpq) \in Seq(Datagrams)
    BY <2>1, TailEntries
  <2>3. udpq' \in Seq(Datagrams) /\ wedged' \in BOOLEAN
    BY <1>10, <2>1, <2>2 DEF HandleUdp, TypeOK
  <2>4. udpLast' \in [kind : Datagrams \cup {"none"},
                      fate : {"none", "answered", "unsent", "refused", "dropped"}]
    BY <1>10, <2>2 DEF HandleUdp, UdpFate, TypeOK
  <2>5. pc' = "accept" /\ UNCHANGED <<idx, rdy, quit, table, conns, backlog>>
    BY <1>10 DEF HandleUdp
  <2>6. TypeOK'
    BY <2>3, <2>4, <2>5 DEF TypeOK
  <2>7. ReadySound'
    BY <1>10, <2>5 DEF HandleUdp, ReadySound
  <2> QED BY <2>6, <2>7
<1>11. CASE AcceptNone \/ ClientWriteKilled \/ ClientSkipped \/ CompactKeep \/ CompactDone
  <2>0. idx \in Nat \ {0} /\ idx + 1 \in Nat \ {0} /\ 1 \in Nat \ {0}
    BY DEF TypeOK
  <2>1. idx' \in Nat \ {0} /\ pc' \in {"clients", "dead", "compact", "top"}
    BY <1>11, <2>0 DEF AcceptNone, ClientWriteKilled, ClientSkipped, CompactKeep, CompactDone
  <2>2. UNCHANGED <<rdy, quit, table, conns, backlog, udp>>
    BY <1>11 DEF AcceptNone, ClientWriteKilled, ClientSkipped, CompactKeep, CompactDone
  <2> QED BY <2>1, <2>2 DEF TypeOK, ReadySound
<1>12. CASE AcceptFails \/ AcceptOverflow
  <2>1. backlog \in Seq(Conns) /\ backlog # <<>>
    BY <1>12 DEF AcceptFails, AcceptOverflow, TypeOK, ReadySound
  <2>2. Head(backlog) \in Conns /\ Tail(backlog) \in Seq(Conns)
    BY <2>1, TailEntries
  <2>3. HangUp(Head(backlog)) => /\ peer' \in [Conns -> PeerStates]
                                 /\ net' \in [Conns -> Seq(Units)]
                                 /\ todo' \in [Conns -> Nat] /\ owed' \in [Conns -> Int]
    BY <2>2, HangUpTypes
  <2>4. /\ pc' = "clients" /\ idx' = 1
        /\ UNCHANGED <<rdy, quit, table, udp>>
        /\ \/ UNCHANGED <<conns, backlog>>
           \/ backlog' = Tail(backlog) /\ HangUp(Head(backlog))
    BY <1>12 DEF AcceptFails, AcceptOverflow
  <2>5. /\ backlog' \in Seq(Conns)
        /\ peer' \in [Conns -> PeerStates] /\ net' \in [Conns -> Seq(Units)]
        /\ todo' \in [Conns -> Nat] /\ owed' \in [Conns -> Int]
    <3>1. CASE UNCHANGED <<conns, backlog>>
      BY <3>1 DEF TypeOK
    <3>2. CASE backlog' = Tail(backlog) /\ HangUp(Head(backlog))
      BY <3>2, <2>2, <2>3
    <3> QED BY <2>4, <3>1, <3>2
  <2> QED BY <2>4, <2>5 DEF TypeOK, ReadySound
<1>13. CASE AcceptAtLimit \/ AcceptNoMemory
  <2>1. backlog \in Seq(Conns) /\ backlog # <<>>
    BY <1>13 DEF AcceptAtLimit, AcceptNoMemory, TypeOK, ReadySound
  <2>2. Tail(backlog) \in Seq(Conns)
    BY <2>1, TailEntries
  <2> QED BY <1>13, <2>2 DEF AcceptAtLimit, AcceptNoMemory, TypeOK, ReadySound
<1>14. CASE Accept
  <2>1. backlog \in Seq(Conns) /\ backlog # <<>>
    BY <1>14 DEF Accept, TypeOK, ReadySound
  <2>2. Head(backlog) \in Conns /\ Tail(backlog) \in Seq(Conns)
    BY <2>1, TailEntries
  <2>3. \A p \in Ptrs : Append(list, p) \in Seq(Ptrs)
    BY AppendProperties DEF TypeOK
  <2>4. <<>> \in Seq(Units)
    BY EmptySeq
  <2> QED BY <1>14, <2>2, <2>3, <2>4 DEF Accept, TypeOK, ReadySound
<1>15. CASE ClientWrite \/ ClientRead
  <2> DEFINE p == list[idx]
  <2>1. p \in Ptrs /\ Due(p) /\ sockfd[p] \in Conns
    BY <1>15, ElementOfSeq DEF ClientWrite, ClientRead, Due, TypeOK
  <2>2. <<>> \in Seq(Units)
    BY EmptySeq
  <2> HIDE DEF p
  <2>3. ASSUME CloseClient(p)
        PROVE  /\ sockfd' \in [Ptrs -> Conns \cup {NoSock}]
               /\ buf' \in [Ptrs -> Seq(Units)] /\ outgoing' \in [Ptrs -> BOOLEAN]
               /\ peer' \in [Conns -> PeerStates] /\ net' \in [Conns -> Seq(Units)]
               /\ todo' \in [Conns -> Nat] /\ owed' \in [Conns -> Int]
    BY <2>1, <2>3, HangUpTypes DEF CloseClient, TypeOK
  <2>4. ASSUME WriteDone(p)
        PROVE  /\ sockfd' \in [Ptrs -> Conns \cup {NoSock}]
               /\ buf' \in [Ptrs -> Seq(Units)] /\ outgoing' \in [Ptrs -> BOOLEAN]
               /\ peer' \in [Conns -> PeerStates] /\ net' \in [Conns -> Seq(Units)]
               /\ todo' \in [Conns -> Nat] /\ owed' \in [Conns -> Int]
    BY <2>1, <2>2, <2>4 DEF WriteDone, TypeOK
  <2>5. ASSUME ReadKept(p)
        PROVE  /\ sockfd' \in [Ptrs -> Conns \cup {NoSock}]
               /\ buf' \in [Ptrs -> Seq(Units)] /\ outgoing' \in [Ptrs -> BOOLEAN]
               /\ peer' \in [Conns -> PeerStates] /\ net' \in [Conns -> Seq(Units)]
               /\ todo' \in [Conns -> Nat] /\ owed' \in [Conns -> Int]
    BY <2>1, <2>2, <2>5, ReceivedTypes DEF ReadKept, TypeOK
  <2>6. CloseClient(p) \/ WriteDone(p) \/ ReadKept(p)
    BY <1>15 DEF p, ClientWrite, ClientRead, WriteFailed, ReadFails, ReadRefused
  <2>7. UNCHANGED <<pc, rdy, quit, list, heap, backlog, udp>> /\ idx' = idx + 1
    BY <1>15 DEF ClientWrite, ClientRead
  <2>8. pc = "clients"
    BY <1>15 DEF ClientWrite, ClientRead
  <2> QED BY <2>3, <2>4, <2>5, <2>6, <2>7, <2>8 DEF TypeOK, ReadySound
<1>16. CASE ClientsDone
  BY <1>16 DEF ClientsDone, NothingReady, TypeOK, ReadySound
<1>17. CASE CompactRemove
  <2>1. list' \in Seq(Ptrs)
    BY <1>17, RemoveAtEntries DEF CompactRemove, TypeOK
  <2> QED BY <1>17, <2>1 DEF CompactRemove, TypeOK, ReadySound
<1>18. CASE UNCHANGED vars
  BY <1>18 DEF vars, TypeOK, ReadySound
<1> QED
  BY <1>1, <1>2, <1>3, <1>4, <1>5, <1>6, <1>7, <1>8, <1>9, <1>10, <1>11, <1>12,
     <1>13, <1>14, <1>15, <1>16, <1>17, <1>18 DEF Next, Agent, Environment

-----------------------------------------------------------------------------
(* The table.                                                                *)

\* Only accept() and the removal loop change the table.
LEMMA TableKept ==
    ASSUME [Next]_vars
    PROVE  Accept \/ CompactRemove \/ UNCHANGED <<list, heap>>
  BY DEF Next, Agent, Environment, Connect, SendRequest, SendRest, Finish, Reset,
         DatagramArrives, Signal, LoopTop, Select, SelectInterrupted, SelectDies,
         HandleUdpNone, HandleUdp, AcceptNone, AcceptFails, AcceptOverflow, AcceptAtLimit,
         AcceptNoMemory, ClientWrite, ClientWriteKilled, ClientRead, ClientSkipped,
         ClientsDone, CompactKeep, CompactDone, vars, table, agent

\* What removing entry idx does to the table.
LEMMA RemovedEntry ==
    ASSUME TypeOK, TableSound, CompactRemove
    PROVE  /\ idx \in 1 .. Len(list) /\ list \in Seq(Ptrs) /\ Len(list) \in Nat
           /\ sockfd[list[idx]] = NoSock /\ sockfd' = sockfd
           /\ list' \in Seq(Ptrs) /\ Len(list') = Len(list) - 1
           /\ ToSet(list') = ToSet(list) \ {list[idx]}
           /\ \A i, j \in 1 .. Len(list') : i # j => list'[i] # list'[j]
<1>1. list \in Seq(Ptrs) /\ Len(list) \in Nat /\ idx \in 1 .. Len(list)
  BY LenProperties DEF CompactRemove, TypeOK
<1>2. list' = RemoveAt(list, idx)
  BY DEF CompactRemove
<1>3. \A i, j \in 1 .. Len(list) : i # j => list[i] # list[j]
  BY DEF TableSound
<1>4. /\ ToSet(RemoveAt(list, idx)) = ToSet(list) \ {list[idx]}
      /\ \A i, j \in 1 .. Len(list) - 1 :
            i # j => RemoveAt(list, idx)[i] # RemoveAt(list, idx)[j]
  BY <1>1, <1>3, SetOfRemoveAt
<1>5. RemoveAt(list, idx) \in Seq(Ptrs) /\ Len(RemoveAt(list, idx)) = Len(list) - 1
  BY <1>1, RemoveAtEntries
<1> QED BY <1>1, <1>2, <1>4, <1>5 DEF CompactRemove

\* No step leaves a freed or a doubled pointer in the table, or too many.
LEMMA TableStep ==
    ASSUME TypeOK, TableSound, [Next]_vars
    PROVE  TableSound'
<1> USE ConstantsAssumption
<1>1. CASE UNCHANGED <<list, heap>>
  BY <1>1 DEF TableSound, Listed
<1>2. CASE Accept
  <2>1. PICK p \in Ptrs \ heap : list' = Append(list, p) /\ heap' = heap \cup {p}
    BY <1>2 DEF Accept
  <2>2. list \in Seq(Ptrs) /\ Len(list) \in Nat /\ Len(list) < MaxClients
    BY <1>2, LenProperties DEF Accept, TableFull, TypeOK, ConstantsAssumption
  <2>3. /\ Len(list') = Len(list) + 1 /\ list'[Len(list) + 1] = p
        /\ \A i \in 1 .. Len(list) : list'[i] = list[i]
    BY <2>1, <2>2, AppendProperties
  <2>4. ToSet(list') = ToSet(list) \cup {p}
    BY <2>1, <2>2, SetOfAppend
  <2>5. \A i \in 1 .. Len(list) : list[i] # p
    BY <2>2, LenProperties DEF TableSound, Listed, ToSet
  <2>6. \A i, j \in 1 .. Len(list') : i # j => list'[i] # list'[j]
    BY <2>2, <2>3, <2>5 DEF TableSound
  <2>7. Len(list') <= MaxClients
    BY <2>2, <2>3 DEF ConstantsAssumption
  <2> QED BY <2>1, <2>4, <2>6, <2>7 DEF TableSound, Listed
<1>3. CASE CompactRemove
  <2>1. ToSet(list') \subseteq heap'
    <3>1. heap' = heap \/ heap' = heap \ {list[idx]}
      BY <1>3 DEF CompactRemove, FreedAt
    <3> QED BY <1>3, <3>1, RemovedEntry DEF TableSound, Listed
  <2>2. Len(list') <= MaxClients
    BY <1>3, RemovedEntry DEF TableSound, ConstantsAssumption
  <2> QED BY <1>3, <2>1, <2>2, RemovedEntry DEF TableSound, Listed
<1> QED BY <1>1, <1>2, <1>3, TableKept

\* A table that is full when the loop gets to accept() holds only connected
\* clients: the removal loop has taken out an entry for each it passed over.
LEMMA FullStep ==
    ASSUME TypeOK, TableSound, FullMeansLive, CompactedLive, [Next]_vars
    PROVE  FullMeansLive' /\ CompactedLive'
<1> USE ConstantsAssumption DEF table, conns, agent, udp
<1>0. list \in Seq(Ptrs) /\ Len(list) \in Nat /\ idx \in Nat \ {0}
  BY LenProperties DEF TypeOK
<1>1. CASE Environment
  BY <1>1 DEF Environment, Connect, SendRequest, SendRest, Finish, Reset, DatagramArrives,
              Signal, FullMeansLive, CompactedLive, Zombies, Listed
<1>2. CASE LoopTop \/ Select \/ SelectInterrupted \/ SelectDies \/ HandleUdpNone \/ HandleUdp
  BY <1>2 DEF LoopTop, Select, SelectInterrupted, SelectDies, HandleUdpNone, HandleUdp,
              FullMeansLive, CompactedLive, Zombies, Listed
<1>3. CASE AcceptNone \/ AcceptFails \/ AcceptOverflow \/ AcceptAtLimit \/ AcceptNoMemory
           \/ Accept
  BY <1>3 DEF AcceptNone, AcceptFails, AcceptOverflow, AcceptAtLimit, AcceptNoMemory,
              Accept, FullMeansLive, CompactedLive
<1>4. CASE ClientWrite \/ ClientWriteKilled \/ ClientRead \/ ClientSkipped
  BY <1>4 DEF ClientWrite, ClientWriteKilled, ClientRead, ClientSkipped,
              FullMeansLive, CompactedLive
<1>5. CASE ClientsDone
  BY <1>0, <1>5 DEF ClientsDone, FullMeansLive, CompactedLive
<1>6. CASE CompactRemove
  <2>1. Len(list') # MaxClients
    BY <1>6, RemovedEntry DEF TableSound, ConstantsAssumption
  <2> QED BY <2>1 DEF FullMeansLive, CompactedLive
<1>7. CASE CompactKeep
  <2>1. UNCHANGED <<list, sockfd>> /\ idx' = idx + 1 /\ pc' = "compact" /\ pc = "compact"
    BY <1>7 DEF CompactKeep
  <2>2. sockfd[list[idx]] # NoSock
    BY <1>7 DEF CompactKeep
  <2>3. CompactedLive'
    BY <1>0, <2>1, <2>2 DEF CompactedLive
  <2> QED BY <2>1, <2>3 DEF FullMeansLive
<1>8. CASE CompactDone
  <2>1. UNCHANGED <<list, sockfd>> /\ pc' = "top" /\ pc = "compact" /\ idx > Len(list)
    BY <1>8 DEF CompactDone
  <2>2. Len(list) = MaxClients => Zombies = {}
    <3>1. Len(list) = MaxClients => \A i \in 1 .. Len(list) : sockfd[list[i]] # NoSock
      BY <1>0, <2>1 DEF CompactedLive
    <3> QED BY <1>0, <3>1, LenProperties DEF Zombies, Listed, ToSet
  <2>3. Zombies' = Zombies
    BY <2>1 DEF Zombies, Listed
  <2> QED BY <2>1, <2>2, <2>3 DEF FullMeansLive, CompactedLive
<1>9. CASE UNCHANGED vars
  BY <1>9 DEF vars, FullMeansLive, CompactedLive, Zombies, Listed
<1> QED BY <1>1, <1>2, <1>3, <1>4, <1>5, <1>6, <1>7, <1>8, <1>9 DEF Next, Agent

-----------------------------------------------------------------------------
(* Who holds which connection.                                               *)

\* The backlog under accept(): its head leaves it.
LEMMA BacklogHead ==
    ASSUME TypeOK, ReadySound, BacklogSound, pc = "accept", rdy.tcp
    PROVE  /\ backlog \in Seq(Conns) /\ Head(backlog) \in Conns
           /\ Head(backlog) \in Open /\ Head(backlog) \in ToSet(backlog)
           /\ Tail(backlog) \in Seq(Conns)
           /\ ToSet(Tail(backlog)) = ToSet(backlog) \ {Head(backlog)}
           /\ \A i \in 1 .. Len(Tail(backlog)) : Tail(backlog)[i] \in Open
           /\ \A i, j \in 1 .. Len(Tail(backlog)) :
                 i # j => Tail(backlog)[i] # Tail(backlog)[j]
<1>1. backlog \in Seq(Conns) /\ backlog # <<>> /\ Len(backlog) \in Nat
  BY LenProperties DEF TypeOK, ReadySound
<1>2. /\ Head(backlog) \in Conns /\ Head(backlog) = backlog[1] /\ Len(backlog) > 0
      /\ Tail(backlog) \in Seq(Conns) /\ Len(Tail(backlog)) = Len(backlog) - 1
      /\ \A j \in 1 .. Len(backlog) - 1 : Tail(backlog)[j] = backlog[j + 1]
  BY <1>1, TailEntries
<1>3. \A i \in 1 .. Len(backlog) - 1 : i + 1 \in 1 .. Len(backlog)
  BY <1>1
<1>4. 1 \in 1 .. Len(backlog) /\ 1 \in DOMAIN backlog
  BY <1>1, <1>2, LenProperties
<1>5. /\ ToSet(Tail(backlog)) = ToSet(backlog) \ {Head(backlog)}
      /\ \A i, j \in 1 .. Len(Tail(backlog)) :
            i # j => Tail(backlog)[i] # Tail(backlog)[j]
  BY <1>1, SetOfTail DEF BacklogSound
<1>6. \A i \in 1 .. Len(Tail(backlog)) : Tail(backlog)[i] \in Open
  BY <1>2, <1>3 DEF BacklogSound
<1> QED BY <1>1, <1>2, <1>4, <1>5, <1>6 DEF BacklogSound, ToSet

\* The backlog's members are those of its entries.
LEMMA BacklogMembers ==
    ASSUME TypeOK
    PROVE  \A c : c \in ToSet(backlog) <=> \E i \in 1 .. Len(backlog) : backlog[i] = c
  BY LenProperties DEF TypeOK, ToSet

\* A client that is closed leaves the accepted connections, and the backlog and
\* the other clients keep theirs.
LEMMA CloseStep ==
    ASSUME TypeOK, BacklogSound, TableSound, SocketOwnership, pc # "dead",
           NEW p \in Listed, sockfd[p] # NoSock, CloseClient(p),
           UNCHANGED <<list, backlog>>
    PROVE  BacklogSound' /\ SocketOwnership'
<1> USE ConstantsAssumption
<1> DEFINE c == sockfd[p]
<1>1. p \in Ptrs /\ c \in Conns /\ c \in Open /\ c \notin ToSet(backlog)
  BY DEF SocketOwnership, Accepted, Listed, TableSound, TypeOK, Open
<1>2. Open' = Open \ {c}
  BY <1>1 DEF CloseClient, HangUp, Open, TypeOK
<1>3. BacklogSound'
  BY <1>1, <1>2, BacklogMembers DEF BacklogSound
<1>4. Accepted' = Accepted \ {c}
  BY <1>1, <1>2 DEF Accepted
<1>5. /\ sockfd'[p] = NoSock /\ Listed' = Listed
      /\ \A q \in Listed : q # p => sockfd'[q] = sockfd[q]
  BY <1>1 DEF CloseClient, Listed, TypeOK, TableSound
<1>6. \A q \in Listed : q # p => sockfd[q] # c
  BY <1>1 DEF SocketOwnership
<1>7. \A d \in Accepted' : \E q \in Listed' : sockfd'[q] = d
  BY <1>4, <1>5 DEF SocketOwnership
<1>8. \A q \in Listed' : sockfd'[q] # NoSock =>
         /\ sockfd'[q] \in Accepted'
         /\ \A r \in Listed' : sockfd'[r] = sockfd'[q] => r = q
  BY <1>4, <1>5, <1>6 DEF SocketOwnership
<1> QED BY <1>3, <1>7, <1>8 DEF SocketOwnership

\* A step that opens, closes and moves no connection changes no holder.
LEMMA NobodyMoves ==
    ASSUME BacklogSound, SocketOwnership,
           Open' = Open, UNCHANGED <<list, sockfd, backlog>>, pc = "dead" => pc' = "dead"
    PROVE  BacklogSound' /\ SocketOwnership'
  BY DEF BacklogSound, SocketOwnership, Accepted, Listed

\* A new connection is held by the backlog, as its last.
LEMMA ConnectStep ==
    ASSUME TypeOK, BacklogSound, SocketOwnership, NEW c \in Conns, Connect(c)
    PROVE  BacklogSound' /\ SocketOwnership'
<1>1. /\ backlog \in Seq(Conns) /\ backlog' = Append(backlog, c) /\ peer[c] = "idle"
      /\ Len(backlog) \in Nat /\ UNCHANGED <<pc, list, sockfd>>
  BY LenProperties DEF Connect, TypeOK, agent, table
<1>2. Open' = Open \cup {c} /\ c \notin Open
  BY <1>1 DEF Connect, Open, TypeOK
<1>3. /\ Len(backlog') = Len(backlog) + 1 /\ backlog'[Len(backlog) + 1] = c
      /\ \A i \in 1 .. Len(backlog) : backlog'[i] = backlog[i]
  BY <1>1, AppendProperties
<1>4. ToSet(backlog') = ToSet(backlog) \cup {c}
  BY <1>1, SetOfAppend
<1>5. Accepted' = Accepted
  BY <1>2, <1>4 DEF Accepted
<1>6. BacklogSound'
  <2>1. \A i \in 1 .. Len(backlog') : backlog'[i] \in Open'
    BY <1>1, <1>2, <1>3 DEF BacklogSound
  <2>2. \A i \in 1 .. Len(backlog) : backlog[i] # c
    BY <1>2 DEF BacklogSound
  <2>3. \A i, j \in 1 .. Len(backlog') : i # j => backlog'[i] # backlog'[j]
    BY <1>1, <1>3, <2>2 DEF BacklogSound
  <2> QED BY <2>1, <2>3 DEF BacklogSound
<1> QED BY <1>1, <1>5, <1>6 DEF SocketOwnership, Listed

\* accept() hands the head of the backlog to a new entry.
LEMMA AcceptStep ==
    ASSUME TypeOK, ReadySound, BacklogSound, TableSound, SocketOwnership, Accept
    PROVE  BacklogSound' /\ SocketOwnership'
<1> USE ConstantsAssumption
<1> DEFINE c == Head(backlog)
<1>1. PICK p \in Ptrs \ heap : list' = Append(list, p) /\ sockfd' = [sockfd EXCEPT ![p] = c]
  BY DEF Accept
<1>2. /\ pc = "accept" /\ rdy.tcp /\ backlog' = Tail(backlog) /\ UNCHANGED peer
      /\ pc' = "clients"
  BY DEF Accept, conns
<1>3. /\ c \in Conns /\ c \in Open /\ c \in ToSet(backlog)
      /\ ToSet(backlog') = ToSet(backlog) \ {c}
  BY <1>2, BacklogHead
<1>4. Open' = Open
  BY <1>2 DEF Open
<1>5. BacklogSound'
  BY <1>2, <1>4, BacklogHead DEF BacklogSound
<1>6. Accepted' = Accepted \cup {c} /\ c \notin Accepted
  BY <1>3, <1>4 DEF Accepted
<1>7. Listed' = Listed \cup {p} /\ p \notin Listed
  BY <1>1, SetOfAppend DEF Listed, TableSound, TypeOK
<1>8. sockfd'[p] = c /\ \A q \in Listed : sockfd'[q] = sockfd[q]
  BY <1>1, <1>7 DEF TypeOK
<1>9. \A q \in Listed : sockfd[q] # c
  BY <1>2, <1>3, <1>6, ConstantsAssumption DEF SocketOwnership
<1>10. \A d \in Accepted' : \E q \in Listed' : sockfd'[q] = d
  BY <1>2, <1>6, <1>7, <1>8 DEF SocketOwnership
<1>11. \A q \in Listed' : sockfd'[q] # NoSock =>
          /\ sockfd'[q] \in Accepted'
          /\ \A r \in Listed' : sockfd'[r] = sockfd'[q] => r = q
  BY <1>2, <1>6, <1>7, <1>8, <1>9 DEF SocketOwnership
<1> QED BY <1>5, <1>10, <1>11 DEF SocketOwnership

\* A connection that is hung up on instead of being accepted leaves the backlog.
LEMMA DropStep ==
    ASSUME TypeOK, ReadySound, BacklogSound, SocketOwnership,
           pc = "accept", rdy.tcp, HangUp(Head(backlog)), backlog' = Tail(backlog),
           UNCHANGED <<list, sockfd>>, pc' = "clients"
    PROVE  BacklogSound' /\ SocketOwnership'
<1> DEFINE c == Head(backlog)
<1>1. /\ c \in Conns /\ c \in Open /\ c \in ToSet(backlog)
      /\ ToSet(backlog') = ToSet(backlog) \ {c}
      /\ \A i, j \in 1 .. Len(backlog') : i # j => backlog'[i] # backlog'[j]
      /\ backlog' \in Seq(Conns) /\ \A i \in 1 .. Len(backlog') : backlog'[i] \in Open
  BY BacklogHead
<1>2. Open' = Open \ {c}
  BY <1>1 DEF HangUp, Open, TypeOK
<1>3. \A i \in 1 .. Len(backlog') : backlog'[i] # c
  BY ZenonT(30), <1>1, LenProperties DEF ToSet
<1>4. BacklogSound'
  BY <1>1, <1>2, <1>3 DEF BacklogSound
<1>5. Accepted' = Accepted
  BY <1>1, <1>2 DEF Accepted
<1> QED BY <1>4, <1>5 DEF SocketOwnership, Listed

\* Every connection keeps exactly one holder through every step.
LEMMA OwnershipStep ==
    ASSUME TypeOK, ReadySound, BacklogSound, TableSound, SocketOwnership, [Next]_vars
    PROVE  BacklogSound' /\ SocketOwnership'
<1> USE ConstantsAssumption DEF table, conns, udp, agent
<1>1. ASSUME NEW c \in Conns, Connect(c)
      PROVE  BacklogSound' /\ SocketOwnership'
  BY <1>1, ConnectStep
<1>2. ASSUME NEW c \in Conns, SendRequest(c) \/ SendRest(c) \/ Finish(c) \/ Reset(c)
      PROVE  BacklogSound' /\ SocketOwnership'
  <2>1. Open' = Open
    BY <1>2 DEF SendRequest, SendRest, Finish, Reset, Open, TypeOK
  <2>2. UNCHANGED <<list, sockfd, backlog, pc>>
    BY <1>2 DEF SendRequest, SendRest, Finish, Reset
  <2> QED BY <2>1, <2>2, NobodyMoves
<1>3. CASE \/ DatagramArrives \/ Signal \/ UNCHANGED vars
           \/ LoopTop \/ Select \/ SelectInterrupted \/ SelectDies
           \/ HandleUdpNone \/ HandleUdp \/ AcceptNone
           \/ ClientWriteKilled \/ ClientSkipped \/ ClientsDone
           \/ CompactKeep \/ CompactDone
  <2>1. UNCHANGED <<peer, list, sockfd, backlog>>
    BY <1>3 DEF DatagramArrives, Signal, LoopTop, Select, SelectInterrupted, SelectDies,
                HandleUdpNone, HandleUdp, AcceptNone, ClientWriteKilled, ClientSkipped,
                ClientsDone, CompactKeep, CompactDone, vars
  <2>2. pc = "dead" => pc' = "dead"
    BY <1>3 DEF DatagramArrives, Signal, LoopTop, Select, SelectInterrupted, SelectDies,
                HandleUdpNone, HandleUdp, AcceptNone, ClientWriteKilled, ClientSkipped,
                ClientsDone, CompactKeep, CompactDone, vars
  <2>3. Open' = Open
    BY <2>1 DEF Open
  <2> QED BY <2>1, <2>2, <2>3, NobodyMoves
<1>4. CASE AcceptFails \/ AcceptOverflow
  <2>1. /\ pc = "accept" /\ rdy.tcp /\ pc' = "clients" /\ UNCHANGED <<list, sockfd>>
        /\ \/ UNCHANGED <<conns, backlog>>
           \/ backlog' = Tail(backlog) /\ HangUp(Head(backlog))
    BY <1>4 DEF AcceptFails, AcceptOverflow
  <2>2. CASE UNCHANGED <<conns, backlog>>
    BY <2>1, <2>2, NobodyMoves DEF Open
  <2>3. CASE backlog' = Tail(backlog) /\ HangUp(Head(backlog))
    BY <2>1, <2>3, DropStep
  <2> QED BY <2>1, <2>2, <2>3
<1>5. CASE AcceptAtLimit \/ AcceptNoMemory
  <2>1. /\ pc = "accept" /\ rdy.tcp /\ pc' = "dead" /\ backlog' = Tail(backlog)
        /\ UNCHANGED peer
    BY <1>5 DEF AcceptAtLimit, AcceptNoMemory
  <2>2. Open' = Open
    BY <2>1 DEF Open
  <2> QED BY <2>1, <2>2, BacklogHead DEF BacklogSound, SocketOwnership
<1>6. CASE Accept
  BY <1>6, AcceptStep
<1>7. CASE ClientWrite \/ ClientRead
  <2> DEFINE p == list[idx]
  <2>1. /\ pc = "clients" /\ UNCHANGED <<pc, list, backlog>>
        /\ p \in Listed /\ sockfd[p] # NoSock
    BY <1>7, LenProperties DEF ClientWrite, ClientRead, Due, Listed, ToSet, TypeOK,
                               ConstantsAssumption
  <2> HIDE DEF p
  <2>2. CloseClient(p) \/ UNCHANGED <<peer, sockfd>>
    BY <1>7 DEF p, ClientWrite, ClientRead, WriteDone, WriteFailed, ReadFails,
                ReadRefused, ReadKept
  <2>3. CASE CloseClient(p)
    BY <2>1, <2>3, CloseStep
  <2>4. CASE UNCHANGED <<peer, sockfd>>
    BY <2>1, <2>4, NobodyMoves DEF Open
  <2> QED BY <2>2, <2>3, <2>4
<1>8. CASE CompactRemove
  <2>1. UNCHANGED <<peer, backlog, pc>> /\ sockfd' = sockfd
    BY <1>8 DEF CompactRemove
  <2>2. Open' = Open /\ Accepted' = Accepted
    BY <2>1 DEF Open, Accepted
  <2>3. Listed' = Listed \ {list[idx]} /\ sockfd[list[idx]] = NoSock
    BY <1>8, RemovedEntry DEF Listed
  <2>4. NoSock \notin Accepted
    BY DEF Accepted, Open, ConstantsAssumption
  <2> QED BY <2>1, <2>2, <2>3, <2>4 DEF BacklogSound, SocketOwnership
<1> QED BY <1>1, <1>2, <1>3, <1>4, <1>5, <1>6, <1>7, <1>8 DEF Next, Agent, Environment

-----------------------------------------------------------------------------
(* Disconnected clients the removal loop passes over.                        *)

Passed == {p \in Zombies : \E i \in 1 .. Len(list) : i < idx /\ list[i] = p}

\* In a pass each one passed over is paid for by one removed.
PassedBound == pc = "compact" => Cardinality(Passed) <= MaxClients - Len(list)

\* The table is finite, and so are the sets of its clients.
LEMMA ListedFinite ==
    ASSUME TypeOK, NEW Z \in SUBSET Listed
    PROVE  IsFiniteSet(Z) /\ Cardinality(Z) \in Nat /\ Cardinality(Z) <= Len(list)
<1> DEFINE f == [i \in 1 .. Len(list) |-> list[i]]
<1>1. list \in Seq(Ptrs) /\ Len(list) \in Nat /\ DOMAIN list = 1 .. Len(list)
  BY LenProperties DEF TypeOK
<1>2. f \in Surjection(1 .. Len(list), Listed)
  BY <1>1 DEF Surjection, Listed, ToSet
<1> HIDE DEF f
<1>3. IsFiniteSet(1 .. Len(list)) /\ Cardinality(1 .. Len(list)) = Len(list)
  BY <1>1, FS_Interval
<1>4. IsFiniteSet(Listed) /\ Cardinality(Listed) <= Len(list)
  BY <1>2, <1>3, FS_Surjection
<1>5. IsFiniteSet(Z) /\ Cardinality(Z) <= Cardinality(Listed)
  BY <1>4, FS_Subset
<1>6. Cardinality(Z) \in Nat /\ Cardinality(Listed) \in Nat
  BY <1>4, <1>5, FS_CardinalityType
<1> QED BY <1>1, <1>4, <1>5, <1>6

\* A removal passes over at most one, the client that moves up.
LEMMA RemovalPasses ==
    ASSUME TypeOK, TableSound, CompactRemove, PassedBound
    PROVE  PassedBound'
<1> DEFINE x == list'[idx]
<1>1. /\ idx \in 1 .. Len(list) /\ list \in Seq(Ptrs) /\ Len(list) \in Nat
      /\ Len(list') = Len(list) - 1 /\ sockfd' = sockfd /\ Listed' \subseteq Listed
  BY RemovedEntry DEF Listed
<1>2. pc = "compact" /\ idx' = idx + 1 /\ list' = RemoveAt(list, idx)
  BY DEF CompactRemove
<1>3. \A j \in 1 .. Len(list) - 1 : list'[j] = list[IF j < idx THEN j ELSE j + 1]
  BY <1>1, <1>2, RemoveAtEntries
<1>4. Passed' \subseteq Passed \cup {x}
  <2> SUFFICES ASSUME NEW p \in Passed' PROVE p \in Passed \cup {x}
    OBVIOUS
  <2>1. p \in Zombies /\ \E j \in 1 .. Len(list') : j < idx' /\ list'[j] = p
    BY <1>1 DEF Passed, Zombies
  <2>2. PICK j \in 1 .. Len(list') : j < idx' /\ list'[j] = p
    BY <2>1
  <2>3. CASE j = idx
    BY <2>2, <2>3
  <2>4. CASE j < idx
    <3>1. j \in 1 .. Len(list) /\ list[j] = p
      BY <1>1, <1>3, <2>2, <2>4
    <3> QED BY <2>1, <2>4, <3>1 DEF Passed
  <2> QED BY <1>1, <1>2, <2>2, <2>3, <2>4
<1>5. IsFiniteSet(Passed) /\ Cardinality(Passed) \in Nat
  BY ListedFinite DEF Passed, Zombies
<1> HIDE DEF x
<1>6. IsFiniteSet(Passed \cup {x}) /\ Cardinality(Passed \cup {x}) <= Cardinality(Passed) + 1
  <2>1. /\ IsFiniteSet(Passed \cup {x})
        /\ Cardinality(Passed \cup {x}) =
              IF x \in Passed THEN Cardinality(Passed) ELSE Cardinality(Passed) + 1
    BY <1>5, FS_AddElement, Zenon
  <2> QED BY <1>5, <2>1
<1>7. IsFiniteSet(Passed') /\ Cardinality(Passed') <= Cardinality(Passed \cup {x})
  BY <1>4, <1>6, FS_Subset
<1>8. Cardinality(Passed') \in Nat /\ Cardinality(Passed \cup {x}) \in Nat
  BY <1>6, <1>7, FS_CardinalityType
<1>9. Cardinality(Passed) <= MaxClients - Len(list) /\ MaxClients \in Nat
  BY <1>2, ConstantsAssumption DEF PassedBound
<1>10. Cardinality(Passed') <= MaxClients - Len(list')
  BY <1>1, <1>5, <1>6, <1>7, <1>8, <1>9
<1> QED BY <1>10 DEF PassedBound

\* A whole pass leaves at most half of what it could have met.
LEMMA PassLeaves ==
    ASSUME TypeOK, TableSound, CompactDone, PassedBound
    PROVE  ZombieBound'
<1>1. pc = "compact" /\ idx > Len(list) /\ UNCHANGED <<list, sockfd>>
  BY DEF CompactDone, table
<1>2. Len(list) \in Nat /\ idx \in Nat /\ MaxClients \in Nat
  BY LenProperties, ConstantsAssumption DEF TypeOK
<1>3. Zombies = Passed
  <2>1. ASSUME NEW p \in Zombies PROVE p \in Passed
    <3>1. PICK i \in 1 .. Len(list) : list[i] = p
      BY LenProperties DEF Zombies, Listed, ToSet, TypeOK
    <3>2. i < idx
      BY <1>1, <1>2
    <3> QED BY <2>1, <3>1, <3>2 DEF Passed
  <2> QED BY <2>1 DEF Passed
<1>4. Cardinality(Zombies) \in Nat /\ Cardinality(Zombies) <= Len(list)
  BY ListedFinite DEF Zombies
<1>5. Cardinality(Zombies) <= MaxClients - Len(list)
  BY <1>1, <1>3 DEF PassedBound
<1>6. Zombies' = Zombies
  BY <1>1 DEF Zombies, Listed
<1>7. 2 * Cardinality(Zombies) <= MaxClients
  BY <1>2, <1>4, <1>5
<1> QED BY <1>6, <1>7 DEF ZombieBound

\* No other step adds a disconnected client where it would count.
LEMMA PassStep ==
    ASSUME TypeOK, TableSound, PassedBound, ZombieBound, [Next]_vars
    PROVE  PassedBound' /\ ZombieBound'
<1> USE DEF table, conns, agent, udp
<1>1. CASE Environment \/ UNCHANGED vars
  <2>1. UNCHANGED <<pc, idx, list, sockfd>>
    BY <1>1 DEF Environment, Connect, SendRequest, SendRest, Finish, Reset, DatagramArrives,
                Signal, vars
  <2> QED BY <2>1 DEF PassedBound, ZombieBound, Passed, Zombies, Listed
<1>2. CASE \/ LoopTop \/ Select \/ SelectInterrupted \/ SelectDies \/ HandleUdpNone \/ HandleUdp
           \/ AcceptNone \/ AcceptFails \/ AcceptOverflow \/ AcceptAtLimit \/ AcceptNoMemory
           \/ Accept \/ ClientWrite \/ ClientWriteKilled \/ ClientRead \/ ClientSkipped
  <2>1. pc' \notin {"compact", "top"}
    BY <1>2 DEF LoopTop, Select, SelectInterrupted, SelectDies, HandleUdpNone, HandleUdp,
                AcceptNone, AcceptFails, AcceptOverflow, AcceptAtLimit, AcceptNoMemory, Accept,
                ClientWrite, ClientWriteKilled, ClientRead, ClientSkipped
  <2> QED BY <2>1 DEF PassedBound, ZombieBound
<1>3. CASE ClientsDone
  <2>1. idx' = 1 /\ pc' = "compact" /\ UNCHANGED <<list, sockfd>>
    BY <1>3 DEF ClientsDone
  <2>2. Passed' = {}
    BY <2>1 DEF Passed
  <2>3. Len(list) \in Nat /\ Len(list) <= MaxClients /\ MaxClients \in Nat
    BY LenProperties, ConstantsAssumption DEF TypeOK, TableSound
  <2>4. 0 <= MaxClients - Len(list')
    BY <2>1, <2>3
  <2> QED BY <2>1, <2>2, <2>4, FS_EmptySet DEF PassedBound, ZombieBound
<1>4. CASE CompactRemove
  <2>1. pc' = "compact"
    BY <1>4 DEF CompactRemove
  <2> QED BY <1>4, <2>1, RemovalPasses DEF ZombieBound
<1>5. CASE CompactKeep
  <2>1. /\ pc = "compact" /\ pc' = "compact" /\ idx' = idx + 1 /\ UNCHANGED <<list, sockfd>>
        /\ sockfd[list[idx]] # NoSock
    BY <1>5 DEF CompactKeep
  <2>2. Zombies' = Zombies /\ idx \in Nat
    BY <2>1 DEF Zombies, Listed, TypeOK
  <2>3. \A i \in 1 .. Len(list) : i < idx + 1 <=> i < idx \/ i = idx
    BY <2>2, LenProperties DEF TypeOK
  <2>4. \A p \in Zombies : p # list[idx]
    BY <2>1 DEF Zombies
  <2>5. Passed' = Passed
    BY <2>1, <2>2, <2>3, <2>4 DEF Passed
  <2> QED BY <2>1, <2>5 DEF PassedBound, ZombieBound
<1>6. CASE CompactDone
  <2>1. pc' = "top"
    BY <1>6 DEF CompactDone
  <2> QED BY <1>6, <2>1, PassLeaves DEF PassedBound
<1> QED BY <1>1, <1>2, <1>3, <1>4, <1>5, <1>6 DEF Next, Agent

-----------------------------------------------------------------------------
(* The theorems.                                                             *)

\* The inductive invariant: types, the table, who holds which connection.
THEOREM AgentCorrect == Spec => []AgentInv
<1>1. Init => AgentInv
  <2> SUFFICES ASSUME Init PROVE AgentInv
    OBVIOUS
  <2> USE ConstantsAssumption
  <2>1. Listed = {} /\ ToSet(backlog) = {} /\ Len(list) = 0 /\ Len(backlog) = 0
    BY EmptySeq DEF Init, Listed, ToSet
  <2>2. Open = {}
    BY DEF Init, Open
  <2>3. TypeOK
    <3>1. /\ <<>> \in Seq(Units) /\ <<>> \in Seq(Ptrs)
          /\ <<>> \in Seq(Conns) /\ <<>> \in Seq(Datagrams)
      BY EmptySeq
    <3>2. /\ list \in Seq(Ptrs) /\ backlog \in Seq(Conns) /\ udpq \in Seq(Datagrams)
          /\ buf \in [Ptrs -> Seq(Units)] /\ net \in [Conns -> Seq(Units)]
      BY <3>1 DEF Init
    <3>3. /\ rdy \in [udp : BOOLEAN, tcp : BOOLEAN, read : SUBSET Conns, write : SUBSET Conns]
          /\ udpLast \in [kind : Datagrams \cup {"none"},
                          fate : {"none", "answered", "unsent", "refused", "dropped"}]
      BY DEF Init, NothingReady
    <3>4. /\ sockfd \in [Ptrs -> Conns \cup {NoSock}] /\ outgoing \in [Ptrs -> BOOLEAN]
          /\ peer \in [Conns -> PeerStates]
          /\ todo \in [Conns -> Nat] /\ owed \in [Conns -> Int]
      BY DEF Init, PeerStates
    <3>5. pc = "top" /\ idx \in Nat \ {0} /\ heap \subseteq Ptrs
      BY DEF Init
    <3>6. quit \in BOOLEAN
      BY DEF Init
    <3>7. wedged \in BOOLEAN
      BY DEF Init
    <3> QED BY <3>2, <3>3, <3>4, <3>5, <3>6, <3>7 DEF TypeOK
  <2>4. ReadySound /\ BacklogSound
    BY <2>1 DEF Init, ReadySound, BacklogSound, NothingReady
  <2>5. TableSound
    BY <2>1 DEF Init, TableSound, ConstantsAssumption
  <2>6. SocketOwnership
    BY <2>1, <2>2 DEF Init, SocketOwnership, Accepted
  <2>7. FullMeansLive /\ CompactedLive
    BY <2>1 DEF Init, FullMeansLive, CompactedLive, Zombies
  <2> QED BY <2>3, <2>4, <2>5, <2>6, <2>7 DEF AgentInv
<1>2. AgentInv /\ [Next]_vars => AgentInv'
  BY TypeStep, TableStep, OwnershipStep, FullStep DEF AgentInv
<1> QED BY <1>1, <1>2, PTL DEF Spec

\* Every variable keeps its type.
THEOREM AgentTypes == Spec => []TypeOK
  BY AgentCorrect, PTL DEF AgentInv

\* For every table size, the client table never holds a freed pointer, the same
\* pointer twice, or more than MAX_NR_CLIENTS of them, although the loop that
\* frees entries goes on over the list it shortens.
THEOREM AgentTable == Spec => []TableSound
  BY AgentCorrect, PTL DEF AgentInv

\* For every table size and every fault, each accepted connection is open in
\* exactly one entry and each entry's descriptor is open.
THEOREM AgentSockets == Spec => []SocketOwnership
  BY AgentCorrect, PTL DEF AgentInv

\* For every table size, a table found full at accept() is full of connected
\* clients: those the removal loop passed over never fill it.
THEOREM AgentFullTable == Spec => []FullMeansLive
  BY AgentCorrect, PTL DEF AgentInv

\* For every table size, a pass of the removal loop leaves at most half a table
\* of disconnected clients, although it passes over the one after each removed.
THEOREM AgentZombies == Spec => []ZombieBound
<1>1. Init => PassedBound /\ ZombieBound
  <2> SUFFICES ASSUME Init PROVE PassedBound /\ ZombieBound
    OBVIOUS
  <2>1. Zombies = {} /\ pc = "top" /\ MaxClients \in Nat
    BY EmptySeq, ConstantsAssumption DEF Init, Zombies, Listed, ToSet
  <2> QED BY <2>1, FS_EmptySet DEF PassedBound, ZombieBound
<1>2. AgentInv /\ PassedBound /\ ZombieBound /\ [Next]_vars => PassedBound' /\ ZombieBound'
  BY PassStep DEF AgentInv
<1> QED BY <1>1, <1>2, AgentCorrect, PTL DEF Spec

-----------------------------------------------------------------------------
(* Streams: what a client has sent and the agent has not used up, the bytes  *)
(* in its packet buffer and then the unread ones.                            *)

Count(s) == Cardinality(Heads(s))

\* The stream is one request behind the other, and t units of the last one have
\* still to come.
Framed(s, t) ==
    /\ s = <<>> => t = 0
    /\ s # <<>> => s[1] # Body
    /\ \A i \in Heads(s) :
          /\ \A j \in i + 1 .. Len(s) : j < i + s[i].len => s[j] = Body
          /\ \/ i + s[i].len <= Len(s) /\ s[i + s[i].len] # Body
             \/ i + s[i].len = Len(s) + 1 + t

\* What is owed are the complete requests of the stream and `more' replies.
Held(s, t, n, more) ==
    Framed(s, t) /\ n = Count(s) - (IF t > 0 THEN 1 ELSE 0) + more

\* Positions in a stream and in a part of it.
LEMMA Cut ==
    ASSUME NEW l \in Int, NEW n \in Int, NEW m \in Int
    PROVE  (n + 1) + l = (n + m) + 1 + (l - m)
OBVIOUS

LEMMA Shifted ==
    ASSUME NEW i \in Int, NEW l \in Int, NEW n \in Int, NEW m \in Int, NEW t \in Int,
           (i + n) + l = (n + m) + 1 + t
    PROVE  i + l = m + 1 + t
OBVIOUS

LEMMA UnitsInARow == \A u, v, w \in Seq(Units) : (u \o v) \o w = u \o (v \o w)
  BY ConcatAssociative

\* A stream has finitely many heads.
LEMMA CountType ==
    ASSUME NEW s \in Seq(Units)
    PROVE  IsFiniteSet(Heads(s)) /\ Count(s) \in Nat
<1>1. Heads(s) \in SUBSET (1 .. Len(s)) /\ IsFiniteSet(1 .. Len(s))
  BY LenProperties, FS_Interval DEF Heads
<1>2. IsFiniteSet(Heads(s))
  BY <1>1, FS_Subset
<1> QED BY <1>2, FS_CardinalityType DEF Count

\* The heads of a stream are those of its parts.
LEMMA CountConcat ==
    ASSUME NEW s \in Seq(Units), NEW u \in Seq(Units)
    PROVE  Count(s \o u) = Count(s) + Count(u)
<1> DEFINE D == {i + Len(s) : i \in Heads(u)}
           f == [i \in Heads(u) |-> i + Len(s)]
<1>1. /\ Len(s) \in Nat /\ Len(u) \in Nat /\ Len(s \o u) = Len(s) + Len(u)
      /\ \A i \in 1 .. Len(s) + Len(u) :
            (s \o u)[i] = IF i <= Len(s) THEN s[i] ELSE u[i - Len(s)]
  BY ConcatProperties, LenProperties
<1>2. Heads(s \o u) = Heads(s) \cup D
  <2>1. ASSUME NEW i \in Heads(s \o u)
        PROVE  i \in Heads(s) \cup D
    <3>1. i \in 1 .. Len(s) + Len(u) /\ (s \o u)[i] # Body
      BY <1>1, <2>1 DEF Heads
    <3>2. CASE i <= Len(s)
      BY <1>1, <3>1, <3>2 DEF Heads
    <3>3. CASE i > Len(s)
      <4>1. i - Len(s) \in 1 .. Len(u) /\ u[i - Len(s)] # Body /\ (i - Len(s)) + Len(s) = i
        BY <1>1, <3>1, <3>3
      <4> QED BY <4>1 DEF Heads
    <3> QED BY <1>1, <3>1, <3>2, <3>3
  <2>2. ASSUME NEW i \in Heads(s)
        PROVE  i \in Heads(s \o u)
    BY <1>1, <2>2 DEF Heads
  <2>3. ASSUME NEW i \in Heads(u)
        PROVE  i + Len(s) \in Heads(s \o u)
    <3>1. /\ i \in 1 .. Len(u) /\ u[i] # Body /\ i + Len(s) \in 1 .. Len(s) + Len(u)
          /\ ~(i + Len(s) <= Len(s)) /\ (i + Len(s)) - Len(s) = i
      BY <1>1, <2>3 DEF Heads
    <3> QED BY <1>1, <3>1 DEF Heads
  <2> QED BY <2>1, <2>2, <2>3
<1>3. Heads(s) \cap D = {}
  BY <1>1 DEF Heads
<1>4. \A i \in Heads(u) : i \in Int
  BY <1>1 DEF Heads
<1>5. f \in Bijection(Heads(u), D)
  <2>1. f \in [Heads(u) -> D] /\ \A i \in Heads(u) : f[i] = i + Len(s)
    OBVIOUS
  <2>2. \A d \in D : \E i \in Heads(u) : f[i] = d
    OBVIOUS
  <2> HIDE DEF f, D
  <2>3. \A i, j \in Heads(u) : f[i] = f[j] => i = j
    BY <1>1, <1>4, <2>1
  <2> QED BY <2>1, <2>2, <2>3 DEF Bijection, Injection, Surjection, IsInjective
<1>6. IsFiniteSet(D) /\ Cardinality(D) = Cardinality(Heads(u))
  BY <1>5, CountType, FS_Bijection DEF ExistsBijection
<1> HIDE DEF D
<1>7. Cardinality(Heads(s) \cup D) = Cardinality(Heads(s)) + Cardinality(D) - Cardinality({})
  BY <1>3, <1>6, CountType, FS_Union
<1> QED BY <1>2, <1>6, <1>7, CountType, FS_EmptySet DEF Count

\* The units after a head are no heads.
LEMMA CountBodies ==
    ASSUME NEW n \in Nat
    PROVE  /\ [i \in 1 .. n |-> Body] \in Seq(Units)
           /\ Len([i \in 1 .. n |-> Body]) = n
           /\ Count([i \in 1 .. n |-> Body]) = 0
<1>1. [i \in 1 .. n |-> Body] \in Seq(Units)
  BY BodiesAreUnits
<1>2. Len([i \in 1 .. n |-> Body]) = n
  BY <1>1, LenProperties
<1>3. Heads([i \in 1 .. n |-> Body]) = {}
  BY <1>2 DEF Heads
<1> QED BY <1>1, <1>2, <1>3, FS_EmptySet DEF Count

\* A whole request, or the first part of it, has one.
LEMMA CountRequest ==
    ASSUME NEW r \in Requests, NEW n \in Nat
    PROVE  LET x == <<r>> \o [i \in 1 .. n |-> Body]
           IN  /\ x \in Seq(Units) /\ Len(x) = n + 1 /\ Count(x) = 1
               /\ x[1] = r /\ r # Body /\ \A i \in 2 .. n + 1 : x[i] = Body
<1> DEFINE b == [i \in 1 .. n |-> Body]
           x == <<r>> \o b
<1>1. b \in Seq(Units) /\ Len(b) = n /\ Count(b) = 0 /\ \A i \in 1 .. n : b[i] = Body
  BY CountBodies
<1>2. <<r>> \in Seq(Units) /\ Len(<<r>>) = 1 /\ <<r>>[1] = r
  BY DEF Units
<1>3. r # Body
  BY ConstantsAssumption DEF Body
<1>4. Heads(<<r>>) = {1}
  BY <1>2, <1>3 DEF Heads
<1>5. Count(<<r>>) = 1
  BY <1>4, FS_Singleton DEF Count
<1> HIDE DEF b
<1>6. /\ x \in Seq(Units) /\ Len(x) = n + 1
      /\ \A i \in 1 .. n + 1 : x[i] = IF i <= 1 THEN <<r>>[i] ELSE b[i - 1]
  BY <1>1, <1>2, ConcatProperties
<1>7. Count(x) = 1
  <2>1. Count(x) = Count(<<r>>) + Count(b)
    BY <1>1, <1>2, CountConcat
  <2> QED BY <1>1, <1>5, <2>1
<1>8. \A i \in 2 .. n + 1 : x[i] = Body
  BY <1>1, <1>6
<1> QED BY <1>2, <1>3, <1>6, <1>7, <1>8 DEF b

\* A new request begins where the last one ends.
LEMMA FrameRequest ==
    ASSUME NEW s \in Seq(Units), Framed(s, 0), NEW r \in Requests, NEW k \in 1 .. r.len
    PROVE  Framed(s \o (<<r>> \o [i \in 1 .. k - 1 |-> Body]), r.len - k)
<1> DEFINE x == <<r>> \o [i \in 1 .. k - 1 |-> Body]
           y == s \o x
<1>1. k - 1 \in Nat /\ r.len \in Nat /\ r.len - k \in Nat
  BY ConstantsAssumption
<1>2. /\ x \in Seq(Units) /\ Len(x) = k /\ x[1] = r /\ r # Body
      /\ \A i \in 2 .. k : x[i] = Body
  <2>1. /\ x \in Seq(Units) /\ Len(x) = (k - 1) + 1 /\ x[1] = r /\ r # Body
        /\ \A i \in 2 .. (k - 1) + 1 : x[i] = Body
    BY <1>1, CountRequest
  <2>2. (k - 1) + 1 = k
    BY <1>1
  <2> QED BY <2>1, <2>2
<1> HIDE DEF x
<1>3. /\ y \in Seq(Units) /\ Len(y) = Len(s) + k /\ Len(s) \in Nat /\ k \in Nat /\ k >= 1
      /\ \A i \in 1 .. Len(s) : y[i] = s[i]
      /\ \A i \in Len(s) + 1 .. Len(s) + k : y[i] = x[i - Len(s)]
  <2>1. /\ y \in Seq(Units) /\ Len(y) = Len(s) + Len(x)
        /\ \A i \in 1 .. Len(s) + Len(x) :
              y[i] = IF i <= Len(s) THEN s[i] ELSE x[i - Len(s)]
    BY <1>2, ConcatProperties
  <2>2. Len(s) \in Nat /\ Len(x) = k /\ k \in Nat /\ k >= 1
    BY <1>2, LenProperties
  <2> HIDE DEF y
  <2> QED BY <2>1, <2>2
<1> HIDE DEF y
<1>4. y[Len(s) + 1] = r /\ \A i \in Len(s) + 2 .. Len(y) : y[i] = Body
  <2>1. Len(s) + 1 \in Len(s) + 1 .. Len(s) + k /\ (Len(s) + 1) - Len(s) = 1
    BY <1>3
  <2>2. ASSUME NEW i \in Len(s) + 2 .. Len(y)
        PROVE  y[i] = Body
    <3>1. i \in Len(s) + 1 .. Len(s) + k /\ i - Len(s) \in 2 .. k
      BY <1>3
    <3> QED BY <1>2, <1>3, <3>1
  <2> QED BY <1>2, <1>3, <2>1, <2>2
<1>5. y # <<>> /\ y[1] # Body
  <2>1. CASE s = <<>>
    BY <1>2, <1>3, <1>4, <2>1
  <2>2. CASE s # <<>>
    <3>1. Len(s) >= 1
      BY <1>3, <2>2, EmptySeq
    <3> QED BY <1>3, <2>2, <3>1 DEF Framed
  <2> QED BY <2>1, <2>2
<1>6. ASSUME NEW i \in Heads(y)
      PROVE  /\ \A j \in i + 1 .. Len(y) : j < i + y[i].len => y[j] = Body
             /\ \/ i + y[i].len <= Len(y) /\ y[i + y[i].len] # Body
                \/ i + y[i].len = Len(y) + 1 + (r.len - k)
  <2>1. i \in 1 .. Len(y) /\ y[i] # Body
    BY <1>6 DEF Heads
  <2>2. i \in 1 .. Len(s) \/ i = Len(s) + 1
    BY <1>3, <1>4, <2>1
  <2>3. CASE i = Len(s) + 1
    <3>1. y[i] = r /\ \A j \in i + 1 .. Len(y) : y[j] = Body
      BY <1>3, <1>4, <2>3
    <3>2. i + r.len = Len(y) + 1 + (r.len - k)
      <4>1. (Len(s) + 1) + r.len = (Len(s) + k) + 1 + (r.len - k)
        <5>1. Len(s) \in Int /\ k \in Int /\ r.len \in Int
          BY <1>1, <1>3
        <5> QED BY <5>1, Cut, Zenon
      <4> QED BY <1>3, <2>3, <4>1
    <3> QED BY <3>1, <3>2
  <2>4. CASE i \in 1 .. Len(s)
    <3>1. i \in Heads(s) /\ y[i] = s[i] /\ s[i] \in Units /\ s[i].len \in Nat
      BY <1>3, <2>1, <2>4, ElementOfSeq, ConstantsAssumption DEF Heads, Units, Body
    <3>2. /\ \A j \in i + 1 .. Len(s) : j < i + s[i].len => s[j] = Body
          /\ \/ i + s[i].len <= Len(s) /\ s[i + s[i].len] # Body
             \/ i + s[i].len = Len(s) + 1
      BY <1>3, <3>1 DEF Framed
    <3>3. ASSUME NEW j \in i + 1 .. Len(y), j < i + y[i].len
          PROVE  y[j] = Body
      <4>1. j \in i + 1 .. Len(s)
        BY <1>3, <2>4, <3>1, <3>2, <3>3
      <4> QED BY <1>3, <2>4, <3>1, <3>2, <3>3, <4>1
    <3>4. i + y[i].len <= Len(y) /\ y[i + y[i].len] # Body
      <4>1. CASE i + s[i].len <= Len(s) /\ s[i + s[i].len] # Body
        BY <1>3, <2>4, <3>1, <4>1
      <4>2. CASE i + s[i].len = Len(s) + 1
        BY <1>2, <1>3, <1>4, <3>1, <4>2
      <4> QED BY <3>2, <4>1, <4>2
    <3> QED BY <3>3, <3>4
  <2> QED BY <2>2, <2>3, <2>4
<1>7. Framed(y, r.len - k)
  BY <1>5, <1>6 DEF Framed
<1> QED BY <1>7 DEF x, y

\* The rest of a request completes it.
LEMMA FrameRest ==
    ASSUME NEW s \in Seq(Units), NEW t \in Nat, t > 0, Framed(s, t)
    PROVE  Framed(s \o [i \in 1 .. t |-> Body], 0)
<1> DEFINE x == [i \in 1 .. t |-> Body]
           y == s \o x
<1>2. x \in Seq(Units) /\ Len(x) = t /\ \A i \in 1 .. t : x[i] = Body
  BY CountBodies
<1> HIDE DEF x
<1>3. /\ y \in Seq(Units) /\ Len(y) = Len(s) + t /\ Len(s) \in Nat
      /\ \A i \in 1 .. Len(s) : y[i] = s[i]
      /\ \A i \in Len(s) + 1 .. Len(y) : y[i] = x[i - Len(s)]
  <2>1. /\ y \in Seq(Units) /\ Len(y) = Len(s) + Len(x)
        /\ \A i \in 1 .. Len(s) + Len(x) : y[i] = IF i <= Len(s) THEN s[i] ELSE x[i - Len(s)]
    BY <1>2, ConcatProperties
  <2>2. Len(s) \in Nat /\ Len(x) = t
    BY <1>2, LenProperties
  <2> QED BY <2>1, <2>2
<1> HIDE DEF y
<1>4. \A i \in Len(s) + 1 .. Len(y) : y[i] = Body
  <2>1. \A i \in Len(s) + 1 .. Len(y) : i - Len(s) \in 1 .. t
    BY <1>3
  <2> QED BY <1>2, <1>3, <2>1
<1>5. s # <<>> /\ Len(s) >= 1 /\ y[1] # Body
  BY <1>3, EmptySeq DEF Framed
<1>6. ASSUME NEW i \in Heads(y)
      PROVE  /\ \A j \in i + 1 .. Len(y) : j < i + y[i].len => y[j] = Body
             /\ \/ i + y[i].len <= Len(y) /\ y[i + y[i].len] # Body
                \/ i + y[i].len = Len(y) + 1
  <2>1. i \in 1 .. Len(s) /\ y[i] # Body
    BY <1>3, <1>4, <1>6 DEF Heads
  <2>2. i \in Heads(s) /\ y[i] = s[i] /\ s[i] \in Units /\ s[i].len \in Nat
    BY <1>3, <2>1, ElementOfSeq, ConstantsAssumption DEF Heads, Units, Body
  <2>3. /\ \A j \in i + 1 .. Len(s) : j < i + s[i].len => s[j] = Body
        /\ \/ i + s[i].len <= Len(s) /\ s[i + s[i].len] # Body
           \/ i + s[i].len = Len(s) + 1 + t
    BY <2>2 DEF Framed
  <2>4. ASSUME NEW j \in i + 1 .. Len(y), j < i + y[i].len
        PROVE  y[j] = Body
    <3>1. CASE j <= Len(s)
      BY <1>3, <2>1, <2>2, <2>3, <2>4, <3>1
    <3>2. CASE j > Len(s)
      BY <1>3, <1>4, <2>1, <2>4, <3>2
    <3> QED BY <1>3, <2>1, <3>1, <3>2
  <2>5. CASE i + s[i].len <= Len(s) /\ s[i + s[i].len] # Body
    BY <1>3, <2>1, <2>2, <2>4, <2>5
  <2>6. CASE i + s[i].len = Len(s) + 1 + t
    BY <1>3, <2>2, <2>4, <2>6
  <2> QED BY <2>3, <2>5, <2>6
<1>7. Framed(y, 0)
  <2>1. y # <<>>
    BY <1>3, <1>5
  <2>2. Len(y) + 1 + 0 = Len(y) + 1
    BY <1>3
  <2> QED BY <1>5, <1>6, <2>1, <2>2 DEF Framed
<1> QED BY <1>7 DEF x, y

\* The first request can be taken off a stream, and is one.
LEMMA FrameTaken ==
    ASSUME NEW b \in Seq(Units), NEW u \in Seq(Units), NEW t \in Nat, b # <<>>,
           Framed(b \o u, t), b[1].len = Len(b)
    PROVE  Framed(u, t) /\ Count(b) = 1
<1> DEFINE y == b \o u
<1>1. /\ y \in Seq(Units) /\ Len(y) = Len(b) + Len(u) /\ Len(b) \in Nat /\ Len(u) \in Nat
      /\ Len(b) >= 1
      /\ \A i \in 1 .. Len(b) : y[i] = b[i]
  BY ConcatProperties, LenProperties, EmptySeq
<1>2. \A i \in 1 .. Len(u) : y[i + Len(b)] = u[i]
  <2>1. ASSUME NEW i \in 1 .. Len(u)
        PROVE  y[i + Len(b)] = u[i]
    <3>1. i + Len(b) \in 1 .. Len(b) + Len(u) /\ ~(i + Len(b) <= Len(b)) /\ (i + Len(b)) - Len(b) = i
      BY <1>1
    <3> QED BY <3>1, ConcatProperties
  <2> QED BY <2>1
<1>3. Framed(y, t)
  OBVIOUS
<1> HIDE DEF y
<1>4. y # <<>> /\ y[1] = b[1] /\ y[1] # Body /\ 1 \in Heads(y)
  BY <1>1, <1>3, EmptySeq DEF Framed, Heads
<1>5. /\ \A j \in 2 .. Len(y) : j < 1 + Len(b) => y[j] = Body
      /\ \/ 1 + Len(b) <= Len(y) /\ y[1 + Len(b)] # Body
         \/ 1 + Len(b) = Len(y) + 1 + t
  BY <1>3, <1>4 DEF Framed
<1>6. Heads(b) = {1}
  BY <1>1, <1>4, <1>5 DEF Heads
<1>7. Count(b) = 1
  BY <1>6, FS_Singleton DEF Count
<1>8. (u = <<>> => t = 0) /\ (u # <<>> => u[1] # Body)
  <2>1. CASE u = <<>>
    BY <1>1, <1>5, <2>1
  <2>2. CASE u # <<>>
    <3>1. Len(u) >= 1
      BY <1>1, <2>2, EmptySeq
    <3>2. y[1 + Len(b)] # Body
      BY <1>1, <1>5, <3>1
    <3> QED BY <1>1, <1>2, <2>2, <3>1, <3>2
  <2> QED BY <2>1, <2>2
<1>9. ASSUME NEW i \in Heads(u)
      PROVE  /\ \A j \in i + 1 .. Len(u) : j < i + u[i].len => u[j] = Body
             /\ \/ i + u[i].len <= Len(u) /\ u[i + u[i].len] # Body
                \/ i + u[i].len = Len(u) + 1 + t
  <2>1. i \in 1 .. Len(u) /\ u[i] # Body /\ u[i] \in Units /\ u[i].len \in Nat
    BY <1>1, <1>9, ElementOfSeq, ConstantsAssumption DEF Heads, Units, Body
  <2>2. i + Len(b) \in Heads(y) /\ y[i + Len(b)] = u[i]
    BY <1>1, <1>2, <2>1 DEF Heads
  <2>3. /\ \A j \in (i + Len(b)) + 1 .. Len(y) : j < (i + Len(b)) + u[i].len => y[j] = Body
        /\ \/ (i + Len(b)) + u[i].len <= Len(y) /\ y[(i + Len(b)) + u[i].len] # Body
           \/ (i + Len(b)) + u[i].len = Len(y) + 1 + t
    BY <1>3, <2>2 DEF Framed
  <2>4. ASSUME NEW j \in i + 1 .. Len(u), j < i + u[i].len
        PROVE  u[j] = Body
    <3>1. j + Len(b) \in (i + Len(b)) + 1 .. Len(y) /\ j + Len(b) < (i + Len(b)) + u[i].len
      BY <1>1, <2>1, <2>4
    <3>2. j \in 1 .. Len(u)
      BY <1>1, <2>1
    <3> QED BY <1>2, <2>3, <3>1, <3>2
  <2>5. CASE (i + Len(b)) + u[i].len <= Len(y) /\ y[(i + Len(b)) + u[i].len] # Body
    <3>1. i + u[i].len \in 1 .. Len(u) /\ (i + u[i].len) + Len(b) = (i + Len(b)) + u[i].len
      BY <1>1, <2>1, <2>5
    <3>2. u[i + u[i].len] # Body /\ i + u[i].len <= Len(u)
      BY <1>2, <2>5, <3>1
    <3> QED BY <2>4, <3>2
  <2>6. CASE (i + Len(b)) + u[i].len = Len(y) + 1 + t
    <3>1. i + u[i].len = Len(u) + 1 + t
      <4>1. i \in Int /\ u[i].len \in Int
        BY <2>1
      <4>5. Len(y) = Len(b) + Len(u)
        BY <1>1
      <4>2. (i + Len(b)) + u[i].len = (Len(b) + Len(u)) + 1 + t
        BY <2>6, <4>5
      <4>3. Len(b) \in Int /\ Len(u) \in Int /\ t \in Int
        BY <1>1
      <4> DEFINE l == u[i].len
                 n == Len(b)
                 m == Len(u)
      <4>6. l \in Int /\ n \in Int /\ m \in Int /\ (i + n) + l = (n + m) + 1 + t
        BY <4>1, <4>2, <4>3
      <4> HIDE DEF l, n, m
      <4>7. i + l = m + 1 + t
        BY <4>1, <4>3, <4>6, Shifted
      <4> QED BY <4>7 DEF l, m
    <3> QED BY <2>4, <3>1
  <2> QED BY <2>3, <2>5, <2>6
<1> QED BY <1>7, <1>8, <1>9 DEF Framed

\* A request that was begun has its head in the stream.
LEMMA FrameStarted ==
    ASSUME NEW s \in Seq(Units), NEW t \in Nat, t > 0, Framed(s, t)
    PROVE  Count(s) >= 1
<1>1. 1 \in Heads(s)
  BY LenProperties, EmptySeq DEF Framed, Heads
<1>2. Count(s) # 0
  BY <1>1, CountType, FS_EmptySet DEF Count
<1> QED BY <1>2, CountType

-----------------------------------------------------------------------------
(* The streams of the connections.                                           *)

\* Each connection's stream is framed, and what is owed on it is in it or, for a
\* client in outgoing mode, whose packet buffer holds the reply, about to be sent.
StreamInv ==
    pc # "dead" =>
      /\ \A c \in ToSet(backlog) : Held(net[c], todo[c], owed[c], 0)
      /\ \A p \in Listed : sockfd[p] # NoSock =>
            /\ Held(buf[p] \o net[sockfd[p]], todo[sockfd[p]], owed[sockfd[p]],
                    IF outgoing[p] THEN 1 ELSE 0)
            /\ outgoing[p] => buf[p] = <<>>
      /\ \A c \in Conns : peer[c] = "idle" => net[c] = <<>> /\ todo[c] = 0 /\ owed[c] = 0

\* A stream nothing was sent on.
LEMMA HeldEmpty == Held(<<>>, 0, 0, 0)
<1>1. Heads(<<>>) = {} /\ <<>> \in Seq(Units)
  BY EmptySeq DEF Heads
<1>2. Count(<<>>) = 0
  BY <1>1, FS_EmptySet DEF Count
<1> QED BY <1>1, <1>2 DEF Held, Framed

\* The types of what the streams are made of.
LEMMA StreamTypes ==
    ASSUME TypeOK, TableSound
    PROVE  /\ ToSet(backlog) \subseteq Conns
           /\ \A c \in Conns : net[c] \in Seq(Units) /\ todo[c] \in Nat /\ owed[c] \in Int
           /\ \A p \in Listed : p \in Ptrs /\ buf[p] \in Seq(Units)
                                /\ (sockfd[p] # NoSock => sockfd[p] \in Conns)
<1>1. ToSet(backlog) \subseteq Conns
  BY SetOfEntries DEF TypeOK
<1> QED BY <1>1 DEF TypeOK, TableSound

\* A step that touches no stream.
LEMMA StreamsKept ==
    ASSUME StreamInv, UNCHANGED <<list, sockfd, buf, outgoing, net, todo, owed, backlog>>,
           pc = "dead" => pc' = "dead", \A c \in Conns : peer'[c] = "idle" => peer[c] = "idle"
    PROVE  StreamInv'
BY DEF StreamInv, Listed

\* Sending extends a stream, and what is owed by the requests it completes.
LEMMA SendExtends ==
    ASSUME TypeOK, NEW c \in Conns, SendRequest(c) \/ SendRest(c)
    PROVE  \E x \in Seq(Units) :
              /\ net' = [net EXCEPT ![c] = @ \o x]
              /\ \A s \in Seq(Units), more \in Int :
                    Held(s, todo[c], owed[c], more) => Held(s \o x, todo'[c], owed'[c], more)
<1>0. net[c] \in Seq(Units) /\ todo[c] \in Nat /\ owed[c] \in Int
  BY DEF TypeOK
<1>1. CASE SendRequest(c)
  <2>1. todo[c] = 0
    BY <1>1 DEF SendRequest
  <2>2. PICK r \in Requests : \E k \in 1 .. r.len :
            /\ net' = [net EXCEPT ![c] = @ \o <<r>> \o [i \in 1 .. k - 1 |-> Body]]
            /\ todo' = [todo EXCEPT ![c] = r.len - k]
            /\ owed' = [owed EXCEPT ![c] = IF k = r.len THEN @ + 1 ELSE @]
    BY <1>1 DEF SendRequest
  <2>3. PICK k \in 1 .. r.len :
            /\ net' = [net EXCEPT ![c] = @ \o <<r>> \o [i \in 1 .. k - 1 |-> Body]]
            /\ todo' = [todo EXCEPT ![c] = r.len - k]
            /\ owed' = [owed EXCEPT ![c] = IF k = r.len THEN @ + 1 ELSE @]
    BY <2>2
  <2> DEFINE b == [i \in 1 .. k - 1 |-> Body]
             x == <<r>> \o b
  <2>4. r.len \in Nat /\ k \in Nat /\ k - 1 \in Nat /\ r.len - k \in Nat
    BY ConstantsAssumption
  <2>5. x \in Seq(Units) /\ Count(x) = 1 /\ b \in Seq(Units) /\ <<r>> \in Seq(Units)
    BY <2>4, CountRequest, CountBodies DEF Units
  <2>6. \A s \in Seq(Units) : Framed(s, 0) => Framed(s \o x, r.len - k)
    BY FrameRequest
  <2> HIDE DEF b
  <2>7. net[c] \o <<r>> \o b = net[c] \o x
    <3>1. (net[c] \o <<r>>) \o b = net[c] \o (<<r>> \o b)
      BY <1>0, <2>5, UnitsInARow
    <3> QED BY <3>1
  <2>8. net' = [net EXCEPT ![c] = @ \o x]
    BY <2>3, <2>7 DEF b
  <2> HIDE DEF x
  <2>9. todo'[c] = r.len - k /\ owed'[c] = IF k = r.len THEN owed[c] + 1 ELSE owed[c]
    BY <2>3 DEF TypeOK
  <2>10. ASSUME NEW s \in Seq(Units), NEW more \in Int, Held(s, todo[c], owed[c], more)
         PROVE  Held(s \o x, todo'[c], owed'[c], more)
    <3>1. Count(s \o x) = Count(s) + 1 /\ Count(s) \in Nat
      BY <2>5, CountConcat, CountType
    <3>2. Framed(s, 0) /\ owed[c] = Count(s) + more
      BY <1>0, <2>1, <2>10, <3>1 DEF Held
    <3>3. owed'[c] = Count(s \o x) - (IF todo'[c] > 0 THEN 1 ELSE 0) + more
      BY <1>0, <2>4, <2>9, <3>1, <3>2
    <3> QED BY <2>6, <2>9, <3>2, <3>3 DEF Held
  <2> QED BY <2>5, <2>8, <2>10
<1>2. CASE SendRest(c)
  <2> DEFINE x == [i \in 1 .. todo[c] |-> Body]
  <2>1. /\ todo[c] > 0 /\ net' = [net EXCEPT ![c] = @ \o x]
        /\ todo'[c] = 0 /\ owed'[c] = owed[c] + 1
    BY <1>2 DEF SendRest, TypeOK
  <2>2. x \in Seq(Units) /\ Count(x) = 0
    BY <1>0, CountBodies
  <2>3. \A s \in Seq(Units) : Framed(s, todo[c]) => Framed(s \o x, 0)
    BY <1>0, <2>1, FrameRest
  <2> HIDE DEF x
  <2>4. ASSUME NEW s \in Seq(Units), NEW more \in Int, Held(s, todo[c], owed[c], more)
        PROVE  Held(s \o x, todo'[c], owed'[c], more)
    <3>1. Count(s \o x) = Count(s) /\ Count(s) \in Nat
      BY <2>2, CountConcat, CountType
    <3>2. owed[c] = Count(s) - 1 + more /\ Framed(s, todo[c])
      BY <2>1, <2>4 DEF Held
    <3>3. owed'[c] = Count(s \o x) + more
      BY <1>0, <2>1, <3>1, <3>2
    <3>4. Count(s \o x) - 0 + more = Count(s \o x) + more
      BY <3>1
    <3> QED BY <2>1, <2>3, <3>2, <3>3, <3>4 DEF Held
  <2> QED BY <2>1, <2>2, <2>4
<1> QED BY <1>1, <1>2

\* Wherever the connection is, in the backlog or with a client.
LEMMA SendStreams ==
    ASSUME TypeOK, TableSound, StreamInv, NEW c \in Conns, SendRequest(c) \/ SendRest(c)
    PROVE  StreamInv'
<1>1. PICK x \in Seq(Units) :
          /\ net' = [net EXCEPT ![c] = @ \o x]
          /\ \A s \in Seq(Units), more \in Int :
                Held(s, todo[c], owed[c], more) => Held(s \o x, todo'[c], owed'[c], more)
  BY SendExtends
<1>a. /\ x \in Seq(Units)
      /\ \A s \in Seq(Units), more \in Int :
            Held(s, todo[c], owed[c], more) => Held(s \o x, todo'[c], owed'[c], more)
  BY <1>1
<1>2. /\ UNCHANGED <<pc, list, sockfd, buf, outgoing, peer, backlog>> /\ peer[c] = "up"
      /\ \A d \in Conns : d # c => todo'[d] = todo[d] /\ owed'[d] = owed[d]
  BY DEF SendRequest, SendRest, TypeOK, agent, table
<1>3. net'[c] = net[c] \o x /\ \A d \in Conns : d # c => net'[d] = net[d]
  BY <1>1 DEF TypeOK
<1>4. SUFFICES ASSUME pc # "dead" PROVE StreamInv'
  BY <1>2 DEF StreamInv
<1>5. ASSUME NEW d \in ToSet(backlog')
      PROVE  Held(net'[d], todo'[d], owed'[d], 0)
  <2>1. d \in ToSet(backlog) /\ d \in Conns /\ net[d] \in Seq(Units)
    BY <1>2, StreamTypes
  <2>2. Held(net[d], todo[d], owed[d], 0)
    BY <1>4, <2>1 DEF StreamInv
  <2>3. CASE d = c
    <3>1. Held(net[c] \o x, todo'[c], owed'[c], 0)
      BY <1>a, <2>1, <2>2, <2>3
    <3> QED BY <1>3, <2>3, <3>1
  <2>4. CASE d # c
    BY <1>2, <1>3, <2>1, <2>2, <2>4
  <2> QED BY <2>3, <2>4
<1>6. ASSUME NEW p \in Listed', sockfd'[p] # NoSock
      PROVE  /\ Held(buf'[p] \o net'[sockfd'[p]], todo'[sockfd'[p]], owed'[sockfd'[p]],
                     IF outgoing'[p] THEN 1 ELSE 0)
             /\ outgoing'[p] => buf'[p] = <<>>
  <2> DEFINE d == sockfd[p]
             more == IF outgoing[p] THEN 1 ELSE 0
  <2>1. p \in Listed /\ d # NoSock /\ d \in Conns /\ buf[p] \in Seq(Units) /\ net[d] \in Seq(Units)
    BY <1>2, <1>6, StreamTypes DEF Listed
  <2>2. Held(buf[p] \o net[d], todo[d], owed[d], more) /\ (outgoing[p] => buf[p] = <<>>)
    BY <1>4, <2>1 DEF StreamInv
  <2>3. CASE d = c
    <3>1. buf[p] \o (net[d] \o x) = (buf[p] \o net[d]) \o x /\ buf[p] \o net[d] \in Seq(Units)
      <4>1. buf[p] \o (net[d] \o x) = (buf[p] \o net[d]) \o x
        BY <1>a, <2>1, UnitsInARow
      <4>2. buf[p] \o net[d] \in Seq(Units)
        BY <2>1, ConcatProperties, Zenon
      <4> QED BY <4>1, <4>2
    <3>2. more \in Int
      OBVIOUS
    <3>3. Held((buf[p] \o net[d]) \o x, todo'[d], owed'[d], more)
      BY <1>a, <2>2, <2>3, <3>1, <3>2
    <3> QED BY <1>2, <1>3, <2>2, <2>3, <3>1, <3>3
  <2>4. CASE d # c
    BY <1>2, <1>3, <2>1, <2>2, <2>4
  <2> QED BY <2>3, <2>4
<1>7. \A d \in Conns : peer'[d] = "idle" => net'[d] = <<>> /\ todo'[d] = 0 /\ owed'[d] = 0
  BY <1>2, <1>3, <1>4 DEF StreamInv
<1> QED BY <1>5, <1>6, <1>7 DEF StreamInv

\* A hang-up empties a stream that is nobody's any more.
LEMMA HangUpStreams ==
    ASSUME TypeOK, TableSound, StreamInv, pc # "dead", NEW c \in Conns, HangUp(c),
           ToSet(backlog') \subseteq ToSet(backlog) \ {c}, UNCHANGED <<list, buf, outgoing>>,
           \A p \in Listed : sockfd'[p] # NoSock => sockfd'[p] = sockfd[p] /\ sockfd[p] # c
    PROVE  StreamInv'
<1>1. \A d \in Conns : d # c => /\ net'[d] = net[d] /\ todo'[d] = todo[d]
                                /\ owed'[d] = owed[d] /\ peer'[d] = peer[d]
  BY DEF HangUp, TypeOK
<1>2. peer'[c] = "closed"
  BY DEF HangUp, TypeOK
<1>3. \A d \in ToSet(backlog') : Held(net'[d], todo'[d], owed'[d], 0)
  BY <1>1, StreamTypes DEF StreamInv
<1>4. ASSUME NEW p \in Listed', sockfd'[p] # NoSock
      PROVE  /\ Held(buf'[p] \o net'[sockfd'[p]], todo'[sockfd'[p]], owed'[sockfd'[p]],
                     IF outgoing'[p] THEN 1 ELSE 0)
             /\ outgoing'[p] => buf'[p] = <<>>
  <2>1. /\ p \in Listed /\ sockfd'[p] = sockfd[p] /\ sockfd[p] # c /\ sockfd[p] # NoSock
        /\ sockfd[p] \in Conns
    BY <1>4, StreamTypes DEF Listed
  <2> QED BY <1>1, <2>1 DEF StreamInv
<1>5. \A d \in Conns : peer'[d] = "idle" => net'[d] = <<>> /\ todo'[d] = 0 /\ owed'[d] = 0
  BY <1>1, <1>2 DEF StreamInv
<1> QED BY <1>3, <1>4, <1>5 DEF StreamInv

\* A client's step: its own stream and connection change, no other's.
LEMMA ClientStreams ==
    ASSUME TypeOK, TableSound, BacklogSound, SocketOwnership, StreamInv, pc # "dead",
           NEW p \in Listed, sockfd[p] # NoSock,
           UNCHANGED <<list, sockfd, backlog, peer>>,
           \A q \in Ptrs \ {p} : buf'[q] = buf[q] /\ outgoing'[q] = outgoing[q],
           \A d \in Conns \ {sockfd[p]} :
               net'[d] = net[d] /\ todo'[d] = todo[d] /\ owed'[d] = owed[d],
           Held(buf'[p] \o net'[sockfd[p]], todo'[sockfd[p]], owed'[sockfd[p]],
                IF outgoing'[p] THEN 1 ELSE 0),
           outgoing'[p] => buf'[p] = <<>>
    PROVE  StreamInv'
<1> DEFINE c == sockfd[p]
<1>1. c \in Conns /\ c \in Open /\ c \notin ToSet(backlog)
  BY StreamTypes DEF SocketOwnership, Accepted
<1>2. \A d \in ToSet(backlog') : Held(net'[d], todo'[d], owed'[d], 0)
  BY <1>1, StreamTypes DEF StreamInv
<1>3. ASSUME NEW q \in Listed', sockfd'[q] # NoSock
      PROVE  /\ Held(buf'[q] \o net'[sockfd'[q]], todo'[sockfd'[q]], owed'[sockfd'[q]],
                     IF outgoing'[q] THEN 1 ELSE 0)
             /\ outgoing'[q] => buf'[q] = <<>>
  <2>1. q \in Listed /\ sockfd'[q] = sockfd[q] /\ sockfd[q] # NoSock /\ sockfd[q] \in Conns /\ q \in Ptrs
    BY <1>3, StreamTypes DEF Listed
  <2>2. CASE q = p
    BY <2>1, <2>2
  <2>3. CASE q # p
    <3>1. sockfd[q] # c
      BY <2>1, <2>3 DEF SocketOwnership
    <3> QED BY <2>1, <2>3, <3>1 DEF StreamInv
  <2> QED BY <2>2, <2>3
<1>4. \A d \in Conns : peer'[d] = "idle" => net'[d] = <<>> /\ todo'[d] = 0 /\ owed'[d] = 0
  BY <1>1 DEF StreamInv, Open
<1> QED BY <1>2, <1>3, <1>4 DEF StreamInv

\* What read() took and what it left are what there was.
LEMMA ReceivedRest ==
    ASSUME TypeOK, NEW p \in Ptrs, sockfd[p] \in Conns
    PROVE  LET s == net[sockfd[p]]
               u == SubSeq(s, Len(Received(p)) + 1, Len(s))
           IN  /\ Received(p) \in Seq(Units) /\ u \in Seq(Units)
               /\ Received(p) \o u = s
<1> DEFINE s == net[sockfd[p]]
           room == MaxPacket - Len(buf[p])
           n == IF Len(s) < room THEN Len(s) ELSE room
           u == SubSeq(s, Len(Received(p)) + 1, Len(s))
<1>1. s \in Seq(Units) /\ Len(s) \in Nat /\ Len(buf[p]) \in Nat
  BY LenProperties DEF TypeOK
<1>2. Received(p) = SubSeq(s, 1, n) /\ n \in Int /\ n <= Len(s)
  BY <1>1, ConstantsAssumption DEF Received
<1>3. Received(p) \in Seq(Units) /\ u \in Seq(Units)
  BY <1>1, ReceivedTypes, ConstantsAssumption
<1> HIDE DEF s, n
<1>4. CASE n <= 0
  <2>1. Received(p) = <<>>
    BY <1>2, <1>4, SubSeqEmpty
  <2>2. Len(Received(p)) + 1 = 1
    BY <2>1
  <2>3. u = s
    BY <1>1, <2>2, SubSeqFull
  <2> QED BY <1>1, <1>3, <2>1, <2>3, ConcatEmptySeq DEF s
<1>5. CASE n > 0
  <2>1. n \in 1 .. Len(s)
    BY <1>1, <1>2, <1>5
  <2>2. \A i \in 1 .. n : s[i] \in Units
    BY <1>1, <2>1, ElementOfSeq
  <2>3. Len(Received(p)) = n
    <3>1. Len(SubSeq(s, 1, n)) = IF 1 <= n THEN n - 1 + 1 ELSE 0
      BY <1>2, <2>2, SubSeqProperties
    <3> QED BY <1>2, <1>5, <3>1
  <2>4. SubSeq(s, 1, n) \o SubSeq(s, n + 1, Len(s)) = SubSeq(s, 1, Len(s))
    <3>1. 1 \in 1 .. Len(s) + 1 /\ n \in 1 - 1 .. Len(s) /\ Len(s) \in n .. Len(s)
      BY <1>1, <2>1
    <3> QED BY <1>1, <3>1, ConcatAdjacentSubSeq
  <2>5. SubSeq(s, 1, Len(s)) = s
    BY <1>1, SubSeqFull
  <2>6. Len(Received(p)) + 1 = n + 1
    BY <2>3
  <2>7. u = SubSeq(s, n + 1, Len(s))
    BY <2>6
  <2> HIDE DEF u
  <2>8. Received(p) \o u = s
    BY <1>2, <2>4, <2>5, <2>7, Zenon
  <2> QED BY <1>3, <2>8 DEF s, u
<1>6. n <= 0 \/ n > 0
  BY <1>2
<1> QED BY <1>4, <1>5, <1>6, Zenon

\* A reply is sent for the request that was taken, and no other.
LEMMA WriteStreams ==
    ASSUME TypeOK, BacklogSound, TableSound, SocketOwnership, StreamInv, pc # "dead",
           NEW p \in Listed, sockfd[p] # NoSock, outgoing[p], WriteDone(p),
           UNCHANGED <<list, backlog>>
    PROVE  StreamInv' /\ owed[sockfd[p]] > 0
<1> DEFINE c == sockfd[p]
<1>1. /\ p \in Ptrs /\ c \in Conns /\ net[c] \in Seq(Units) /\ todo[c] \in Nat
      /\ owed[c] \in Int
  BY StreamTypes
<1>2. Held(buf[p] \o net[c], todo[c], owed[c], 1) /\ buf[p] = <<>>
  BY DEF StreamInv
<1>3. buf[p] \o net[c] = net[c] /\ <<>> \o net[c] = net[c]
  BY <1>1, <1>2, ConcatEmptySeq
<1>4. Framed(net[c], todo[c]) /\ owed[c] = Count(net[c]) - (IF todo[c] > 0 THEN 1 ELSE 0) + 1
  BY <1>2, <1>3 DEF Held
<1>5. Count(net[c]) \in Nat /\ (todo[c] > 0 => Count(net[c]) >= 1)
  BY <1>1, <1>4, CountType, FrameStarted
<1>6. /\ UNCHANGED <<sockfd, peer, net, todo>>
      /\ buf' = [buf EXCEPT ![p] = <<>>] /\ outgoing' = [outgoing EXCEPT ![p] = FALSE]
      /\ owed' = [owed EXCEPT ![c] = @ - 1]
  BY DEF WriteDone
<1>7. buf'[p] = <<>> /\ outgoing'[p] = FALSE /\ owed'[c] = owed[c] - 1
  BY <1>1, <1>6 DEF TypeOK
<1>8. Held(buf'[p] \o net'[c], todo'[c], owed'[c], IF outgoing'[p] THEN 1 ELSE 0)
  <2>1. owed'[c] = Count(net[c]) - (IF todo[c] > 0 THEN 1 ELSE 0) + 0
    BY <1>1, <1>4, <1>5, <1>7
  <2>2. Held(net[c], todo[c], owed'[c], 0)
    BY <1>4, <2>1 DEF Held
  <2>3. buf'[p] \o net'[c] = net[c] /\ todo'[c] = todo[c]
    BY <1>3, <1>6, <1>7
  <2> QED BY <1>7, <2>2, <2>3
<1>9. \A q \in Ptrs \ {p} : buf'[q] = buf[q] /\ outgoing'[q] = outgoing[q]
  BY <1>6 DEF TypeOK
<1>10. \A d \in Conns \ {c} : net'[d] = net[d] /\ todo'[d] = todo[d] /\ owed'[d] = owed[d]
  BY <1>6 DEF TypeOK
<1>11. StreamInv'
  BY <1>6, <1>7, <1>8, <1>9, <1>10, ClientStreams
<1> QED BY <1>1, <1>4, <1>5, <1>11

\* What is read is kept as it came, or is the one request that is answered.
LEMMA KeptStreams ==
    ASSUME TypeOK, BacklogSound, TableSound, SocketOwnership, StreamInv, pc # "dead",
           NEW p \in Listed, sockfd[p] # NoSock, ~outgoing[p], ReadKept(p),
           UNCHANGED <<list, backlog>>
    PROVE  StreamInv'
<1> DEFINE c == sockfd[p]
           r == Received(p)
           b == buf[p] \o r
           u == SubSeq(net[c], Len(r) + 1, Len(net[c]))
           done == PacketComplete(b) = 1
<1>1. /\ p \in Ptrs /\ c \in Conns /\ buf[p] \in Seq(Units) /\ net[c] \in Seq(Units)
      /\ todo[c] \in Nat /\ owed[c] \in Int
  BY StreamTypes
<1>2. r \in Seq(Units) /\ u \in Seq(Units) /\ r \o u = net[c]
  BY <1>1, ReceivedRest
<1>3. b \in Seq(Units)
  BY <1>1, <1>2, ConcatProperties
<1>4. /\ UNCHANGED <<sockfd, peer, todo, owed>>
      /\ buf' = [buf EXCEPT ![p] = IF done THEN <<>> ELSE b]
      /\ outgoing' = [outgoing EXCEPT ![p] = done]
      /\ net' = [net EXCEPT ![c] = u]
  BY DEF ReadKept
<1> HIDE DEF done, u, r
<1>5. b \o u = buf[p] \o net[c]
  <2>1. (buf[p] \o r) \o u = buf[p] \o (r \o u)
    BY <1>1, <1>2, UnitsInARow
  <2> QED BY <1>2, <2>1
<1>6. Held(b \o u, todo[c], owed[c], 0)
  BY <1>5 DEF StreamInv
<1>7. /\ buf'[p] = IF done THEN <<>> ELSE b
      /\ net'[c] = u /\ todo'[c] = todo[c] /\ owed'[c] = owed[c]
  BY <1>1, <1>4 DEF TypeOK
<1>8. outgoing'[p] = done
  BY <1>1, <1>4 DEF TypeOK
<1> HIDE DEF b
<1>9. CASE done
  <2>1. b # <<>> /\ b[1].len = Len(b)
    BY <1>3, <1>9, ConstantsAssumption, EmptySeq DEF done, PacketComplete
  <2>2. Framed(u, todo[c]) /\ Count(b) = 1
    BY <1>1, <1>2, <1>3, <1>6, <2>1, FrameTaken DEF Held
  <2>3. Count(b \o u) = 1 + Count(u) /\ Count(u) \in Nat
    BY <1>2, <1>3, <2>2, CountConcat, CountType
  <2>4. owed[c] = Count(u) - (IF todo[c] > 0 THEN 1 ELSE 0) + 1
    BY <1>1, <1>6, <2>3 DEF Held
  <2>5. <<>> \o u = u
    BY <1>2, ConcatEmptySeq
  <2>6. Held(buf'[p] \o net'[c], todo'[c], owed'[c], 1)
    BY <1>7, <1>9, <2>2, <2>4, <2>5 DEF Held
  <2> QED BY <1>7, <1>8, <1>9, <2>6, <1>4, <1>1, ClientStreams DEF TypeOK
<1>10. CASE ~done
  <2>1. Held(buf'[p] \o net'[c], todo'[c], owed'[c], 0)
    BY <1>6, <1>7, <1>10
  <2> QED BY <1>7, <1>8, <1>10, <2>1, <1>4, <1>1, ClientStreams DEF TypeOK
<1> QED BY <1>9, <1>10

\* A connection that is turned away at accept(), of those the backlog holds.
LEMMA DropStreams ==
    ASSUME TypeOK, ReadySound, BacklogSound, TableSound, SocketOwnership, StreamInv,
           pc = "accept", rdy.tcp, HangUp(Head(backlog)), backlog' = Tail(backlog),
           UNCHANGED table
    PROVE  StreamInv'
<1>1. Head(backlog) \in Conns /\ ToSet(backlog') = ToSet(backlog) \ {Head(backlog)}
      /\ Head(backlog) \in ToSet(backlog)
  BY BacklogHead
<1>2. UNCHANGED <<list, sockfd, buf, outgoing>>
  BY DEF table
<1>3. \A p \in Listed : sockfd'[p] # NoSock => sockfd'[p] = sockfd[p] /\ sockfd[p] # Head(backlog)
  BY <1>1, <1>2 DEF SocketOwnership, Accepted
<1> QED BY <1>1, <1>2, <1>3, HangUpStreams

\* A new client has read nothing: its stream is what the kernel holds.
LEMMA AcceptStreams ==
    ASSUME TypeOK, ReadySound, BacklogSound, TableSound, SocketOwnership, StreamInv, Accept
    PROVE  StreamInv'
<1> DEFINE c == Head(backlog)
<1>1. PICK p \in Ptrs \ heap :
          /\ list' = Append(list, p) /\ sockfd' = [sockfd EXCEPT ![p] = c]
          /\ buf' = [buf EXCEPT ![p] = <<>>] /\ outgoing' = [outgoing EXCEPT ![p] = FALSE]
  BY DEF Accept
<1>2. /\ pc = "accept" /\ rdy.tcp /\ backlog' = Tail(backlog) /\ UNCHANGED conns
  BY DEF Accept
<1>3. c \in Conns /\ c \in ToSet(backlog) /\ ToSet(backlog') \subseteq ToSet(backlog)
  BY <1>2, BacklogHead
<1>4. p \in Ptrs /\ Listed' = Listed \cup {p} /\ p \notin Listed
  BY <1>1, SetOfAppend DEF Listed, TableSound, TypeOK
<1>5. /\ sockfd'[p] = c /\ buf'[p] = <<>> /\ outgoing'[p] = FALSE
      /\ \A q \in Listed : sockfd'[q] = sockfd[q] /\ buf'[q] = buf[q]
                           /\ outgoing'[q] = outgoing[q]
  BY <1>1, <1>4, StreamTypes DEF TypeOK
<1>6. UNCHANGED <<peer, net, todo, owed>> /\ pc # "dead"
  BY <1>2 DEF conns
<1>7. ASSUME NEW q \in Listed', sockfd'[q] # NoSock
      PROVE  /\ Held(buf'[q] \o net'[sockfd'[q]], todo'[sockfd'[q]], owed'[sockfd'[q]],
                     IF outgoing'[q] THEN 1 ELSE 0)
             /\ outgoing'[q] => buf'[q] = <<>>
  <2>1. CASE q = p
    <3>1. <<>> \o net[c] = net[c]
      BY <1>3, StreamTypes, ConcatEmptySeq
    <3>2. Held(net[c], todo[c], owed[c], 0)
      BY <1>3, <1>6 DEF StreamInv
    <3> QED BY <1>5, <1>6, <2>1, <3>1, <3>2
  <2>2. CASE q # p
    <3>1. q \in Listed
      BY <1>4, <1>7, <2>2
    <3> QED BY <1>5, <1>6, <1>7, <3>1 DEF StreamInv
  <2> QED BY <2>1, <2>2
<1> QED BY <1>3, <1>6, <1>7 DEF StreamInv

\* Every step keeps every stream whole, and what is owed in it.
LEMMA StreamStep ==
    ASSUME AgentInv, StreamInv, [Next]_vars
    PROVE  StreamInv'
<1> USE DEF AgentInv
<1>1. ASSUME NEW c \in Conns, Connect(c)
      PROVE  StreamInv'
  <2>1. /\ backlog' = Append(backlog, c) /\ backlog \in Seq(Conns) /\ peer[c] = "idle"
        /\ UNCHANGED <<pc, list, sockfd, buf, outgoing, net, todo, owed>>
        /\ \A d \in Conns : peer'[d] = "idle" => peer[d] = "idle"
    BY <1>1 DEF Connect, TypeOK, agent, table
  <2>2. ToSet(backlog') = ToSet(backlog) \cup {c}
    BY <2>1, SetOfAppend
  <2>3. pc # "dead" => Held(net[c], todo[c], owed[c], 0)
    BY <2>1, HeldEmpty DEF StreamInv
  <2> QED BY <2>1, <2>2, <2>3 DEF StreamInv, Listed
<1>2. ASSUME NEW c \in Conns, SendRequest(c) \/ SendRest(c)
      PROVE  StreamInv'
  BY <1>2, SendStreams
<1>3. ASSUME NEW c \in Conns, Finish(c) \/ Reset(c)
      PROVE  StreamInv'
  <2>1. /\ UNCHANGED <<pc, list, sockfd, buf, outgoing, net, todo, owed, backlog>>
        /\ \A d \in Conns : peer'[d] = "idle" => peer[d] = "idle"
    BY <1>3 DEF Finish, Reset, TypeOK, agent, table
  <2> QED BY <2>1, StreamsKept
<1>4. CASE \/ DatagramArrives \/ Signal \/ UNCHANGED vars
           \/ LoopTop \/ Select \/ SelectInterrupted \/ SelectDies
           \/ HandleUdpNone \/ HandleUdp \/ AcceptNone
           \/ ClientWriteKilled \/ ClientSkipped \/ ClientsDone
           \/ CompactKeep \/ CompactDone
  <2>1. /\ UNCHANGED <<list, sockfd, buf, outgoing, net, todo, owed, backlog, peer>>
        /\ pc = "dead" => pc' = "dead"
    BY <1>4 DEF DatagramArrives, Signal, LoopTop, Select, SelectInterrupted, SelectDies,
                HandleUdpNone, HandleUdp, AcceptNone, ClientWriteKilled, ClientSkipped,
                ClientsDone, CompactKeep, CompactDone, vars, table, conns, agent
  <2> QED BY <2>1, StreamsKept
<1>5. CASE AcceptFails \/ AcceptOverflow
  <2>1. /\ pc = "accept" /\ rdy.tcp /\ UNCHANGED table /\ pc # "dead"
        /\ \/ UNCHANGED <<conns, backlog>>
           \/ backlog' = Tail(backlog) /\ HangUp(Head(backlog))
    BY <1>5 DEF AcceptFails, AcceptOverflow
  <2>2. CASE UNCHANGED <<conns, backlog>>
    BY <2>1, <2>2, StreamsKept DEF table, conns
  <2>3. CASE backlog' = Tail(backlog) /\ HangUp(Head(backlog))
    BY <2>1, <2>3, DropStreams
  <2> QED BY <2>1, <2>2, <2>3
<1>6. CASE AcceptAtLimit \/ AcceptNoMemory
  BY <1>6 DEF AcceptAtLimit, AcceptNoMemory, StreamInv
<1>7. CASE Accept
  BY <1>7, AcceptStreams
<1>8. CASE ClientWrite \/ ClientRead
  <2> DEFINE p == list[idx]
  <2>1. /\ pc = "clients" /\ UNCHANGED <<list, backlog>>
        /\ p \in Listed /\ sockfd[p] # NoSock
    BY <1>8, LenProperties, ConstantsAssumption DEF ClientWrite, ClientRead, Due, Listed,
                                                     ToSet, TypeOK
  <2>2. \/ CloseClient(p)
        \/ outgoing[p] /\ WriteDone(p)
        \/ ~outgoing[p] /\ ReadKept(p)
    BY <1>8 DEF ClientWrite, ClientRead, WriteFailed, ReadFails, ReadRefused
  <2> HIDE DEF p
  <2>3. CASE CloseClient(p)
    <3>1. p \in Ptrs /\ sockfd[p] \in Conns /\ sockfd[p] \notin ToSet(backlog)
      BY <2>1, StreamTypes DEF SocketOwnership, Accepted
    <3>2. /\ UNCHANGED <<buf, outgoing>> /\ HangUp(sockfd[p])
          /\ sockfd' = [sockfd EXCEPT ![p] = NoSock]
      BY <2>3 DEF CloseClient
    <3>3. \A q \in Listed : sockfd'[q] # NoSock => sockfd'[q] = sockfd[q] /\ sockfd[q] # sockfd[p]
      BY <2>1, <3>1, <3>2, StreamTypes DEF SocketOwnership, TypeOK
    <3> QED BY <2>1, <3>1, <3>2, <3>3, HangUpStreams
  <2>4. CASE outgoing[p] /\ WriteDone(p)
    BY <2>1, <2>4, WriteStreams
  <2>5. CASE ~outgoing[p] /\ ReadKept(p)
    BY <2>1, <2>5, KeptStreams
  <2> QED BY <2>2, <2>3, <2>4, <2>5
<1>9. CASE CompactRemove
  <2>1. /\ Listed' \subseteq Listed
        /\ UNCHANGED <<pc, sockfd, buf, outgoing, net, todo, owed, backlog, peer>>
    BY <1>9, RemovedEntry DEF Listed, CompactRemove, conns
  <2> QED BY <2>1 DEF StreamInv
<1> QED BY <1>1, <1>2, <1>3, <1>4, <1>5, <1>6, <1>7, <1>8, <1>9 DEF Next, Agent, Environment

-----------------------------------------------------------------------------
(* The theorems.                                                             *)

\* The agent's invariant with the streams'.
LEMMA AgentStreams == Spec => [](AgentInv /\ StreamInv)
<1>1. Init => StreamInv
  BY EmptySeq DEF Init, StreamInv, Listed, ToSet
<1>2. AgentInv /\ StreamInv /\ [Next]_vars => StreamInv'
  BY StreamStep
<1> QED BY <1>1, <1>2, AgentCorrect, PTL DEF Spec

\* For any requests, cut into any pieces and sent one behind the other, and any
\* faults: each complete request of a client is unread, in its packet buffer, or
\* has its one reply waiting to be sent (handle_tcp_client_read and _write).
THEOREM AgentReplies == Spec => []ReplyConservation
<1>1. AgentInv /\ StreamInv => ReplyConservation
  <2> SUFFICES ASSUME AgentInv, StreamInv, pc # "dead", NEW p \in Listed, sockfd[p] # NoSock
               PROVE  owed[sockfd[p]] = Waiting(p)
    BY DEF ReplyConservation
  <2> DEFINE s == buf[p] \o net[sockfd[p]]
  <2>1. s \in Seq(Units) /\ todo[sockfd[p]] \in Nat
    BY StreamTypes, ConcatProperties DEF AgentInv
  <2>2. Count(s) \in Nat
    BY <2>1, CountType
  <2>3. Held(s, todo[sockfd[p]], owed[sockfd[p]], IF outgoing[p] THEN 1 ELSE 0)
    BY DEF StreamInv
  <2> QED BY <2>2, <2>3 DEF Held, Count, Waiting
<1> QED BY <1>1, AgentStreams, PTL

-----------------------------------------------------------------------------
(* The agent implements its clients' service.                                *)

Over == {c \in Conns : peer[c] = "closed"}

\* A step the service does not see.
LEMMA Unseen ==
    ASSUME UNCHANGED <<backlog, owed>>, Open' = Open, Over' = Over, Down' = Down
    PROVE  UNCHANGED Service!service
BY DEF Service!service, Accepted, Over

\* Hanging up on a client.
LEMMA CloseServes ==
    ASSUME TypeOK, TableSound, SocketOwnership, ~Down, Down' = Down,
           NEW p \in Listed, NEW c \in Conns, sockfd[p] = c, CloseClient(p), UNCHANGED backlog
    PROVE  Service!HangUpOn(c)
<1>1. pc # "dead" /\ c \in Conns /\ c \in Accepted
  BY ConstantsAssumption DEF SocketOwnership, Down
<1>2. peer' = [peer EXCEPT ![c] = "closed"] /\ owed' = [owed EXCEPT ![c] = 0]
  BY DEF CloseClient, HangUp
<1>3. Open' = Open \ {c} /\ Over' = Over \cup {c}
  BY <1>1, <1>2 DEF Open, Over, TypeOK
<1>4. Accepted' = Accepted \ {c}
  BY <1>3 DEF Accepted
<1> QED BY <1>1, <1>2, <1>3, <1>4 DEF Service!HangUpOn, Over

\* Taking the connection that came first, or turning it away.
LEMMA AcceptServes ==
    ASSUME TypeOK, ReadySound, BacklogSound, pc = "accept", rdy.tcp, backlog' = Tail(backlog)
    PROVE  /\ UNCHANGED conns => Service!Take
           /\ HangUp(Head(backlog)) /\ Down' = Down => Service!TurnAway
<1> DEFINE c == Head(backlog)
<1>1. /\ c \in Conns /\ c \in Open /\ c \in ToSet(backlog)
      /\ ToSet(backlog') = ToSet(backlog) \ {c} /\ backlog # <<>> /\ ~Down
  BY BacklogHead DEF ReadySound, Down
<1>2. ASSUME UNCHANGED conns PROVE Service!Take
  <2>1. UNCHANGED <<peer, owed>>
    BY <1>2 DEF conns
  <2>2. Open' = Open /\ Over' = Over
    BY <2>1 DEF Open, Over
  <2>3. Accepted' = Accepted \cup {c}
    BY <1>1, <2>2 DEF Accepted
  <2> QED BY <1>1, <2>1, <2>2, <2>3 DEF Service!Take, Over
<1>3. ASSUME HangUp(c), Down' = Down PROVE Service!TurnAway
  <2>1. peer' = [peer EXCEPT ![c] = "closed"] /\ owed' = [owed EXCEPT ![c] = 0]
    BY <1>3 DEF HangUp
  <2>2. Open' = Open \ {c} /\ Over' = Over \cup {c}
    BY <1>1, <2>1 DEF Open, Over, TypeOK
  <2>3. Accepted' = Accepted
    BY <1>1, <2>2 DEF Accepted
  <2> QED BY <1>1, <1>3, <2>1, <2>2, <2>3 DEF Service!TurnAway, Over
<1> QED BY <1>2, <1>3

\* A peer's step on its own connection.
LEMMA PeerServes ==
    ASSUME TypeOK, BacklogSound, NEW c \in Conns,
           Connect(c) \/ SendRequest(c) \/ SendRest(c) \/ Finish(c) \/ Reset(c)
    PROVE  Service!Arrive(c) \/ Service!Request(c) \/ UNCHANGED Service!service
<1>1. Service!InLine = ToSet(backlog)
  BY LenProperties DEF Service!InLine, TypeOK, ToSet
<1>2. UNCHANGED pc /\ Down' = Down
  BY DEF Connect, SendRequest, SendRest, Finish, Reset, agent, Down
<1>3. CASE Connect(c)
  <2>1. /\ peer[c] = "idle" /\ peer' = [peer EXCEPT ![c] = "up"] /\ UNCHANGED owed
        /\ backlog' = Append(backlog, c)
    BY <1>3 DEF Connect
  <2>2. Open' = Open \cup {c} /\ Over' = Over /\ c \notin Open /\ c \notin Over
    BY <2>1 DEF Open, Over, TypeOK
  <2>3. c \notin ToSet(backlog) /\ ToSet(backlog') = ToSet(backlog) \cup {c}
    <3>1. backlog \in Seq(Conns)
      BY DEF TypeOK
    <3>2. ToSet(backlog') = ToSet(backlog) \cup {c}
      BY <2>1, <3>1, SetOfAppend
    <3>3. c \notin ToSet(backlog)
      BY <2>2, BacklogMembers DEF BacklogSound
    <3> QED BY <3>2, <3>3
  <2>4. Accepted' = Accepted /\ c \notin Accepted
    BY <2>2, <2>3 DEF Accepted
  <2> QED BY <1>1, <1>2, <2>1, <2>2, <2>3, <2>4 DEF Service!Arrive, Over
<1>4. CASE SendRequest(c) \/ SendRest(c)
  <2>1. /\ UNCHANGED <<peer, backlog>> /\ peer[c] = "up"
        /\ owed' = [owed EXCEPT ![c] = @ + 1] \/ owed' = owed
    BY <1>4 DEF SendRequest, SendRest, TypeOK
  <2>2. Open' = Open /\ Over' = Over /\ c \in Open /\ Accepted' = Accepted
    BY <2>1 DEF Open, Over, Accepted
  <2>3. c \in Accepted \cup Service!InLine
    BY <1>1, <2>2 DEF Accepted
  <2>4. CASE owed' = owed
    BY <1>2, <2>1, <2>2, <2>4, Unseen
  <2>5. CASE owed' = [owed EXCEPT ![c] = @ + 1]
    BY <1>2, <2>1, <2>2, <2>3, <2>5 DEF Service!Request, Over
  <2> QED BY <2>1, <2>4, <2>5
<1>5. CASE Finish(c) \/ Reset(c)
  <2>1. UNCHANGED <<backlog, owed>> /\ Open' = Open /\ Over' = Over
    BY <1>5 DEF Finish, Reset, Open, Over, TypeOK
  <2> QED BY <1>2, <2>1, Unseen
<1> QED BY <1>3, <1>4, <1>5

\* Every step of the agent and its peers is one of the service, or none.
LEMMA ServiceStep ==
    ASSUME AgentInv, StreamInv, [Next]_vars
    PROVE  [Service!ServiceNext]_(Service!service)
<1> USE DEF AgentInv
<1>1. ASSUME NEW c \in Conns,
             Connect(c) \/ SendRequest(c) \/ SendRest(c) \/ Finish(c) \/ Reset(c)
      PROVE  [Service!ServiceNext]_(Service!service)
  BY <1>1, PeerServes DEF Service!ServiceNext
<1>2. CASE \/ DatagramArrives \/ Signal \/ UNCHANGED vars
           \/ LoopTop \/ Select \/ SelectInterrupted \/ SelectDies
           \/ HandleUdpNone \/ HandleUdp \/ AcceptNone
           \/ ClientWriteKilled \/ ClientSkipped \/ ClientsDone
           \/ CompactKeep \/ CompactDone
  <2>1. UNCHANGED <<peer, owed, backlog>> /\ (Down => Down')
    <3>1. CASE DatagramArrives \/ Signal \/ UNCHANGED vars
      BY <3>1 DEF DatagramArrives, Signal, agent, vars, conns, Down
    <3>2. CASE LoopTop \/ Select \/ SelectInterrupted \/ SelectDies \/ HandleUdpNone
               \/ HandleUdp \/ AcceptNone
      BY <3>2 DEF LoopTop, Select, SelectInterrupted, SelectDies, HandleUdpNone, HandleUdp,
                  AcceptNone, conns, Down
    <3>3. CASE ClientWriteKilled \/ ClientSkipped \/ ClientsDone \/ CompactKeep \/ CompactDone
      BY <3>3 DEF ClientWriteKilled, ClientSkipped, ClientsDone, CompactKeep, CompactDone,
                  conns, Down
    <3> QED BY <1>2, <3>1, <3>2, <3>3
  <2>2. Open' = Open /\ Over' = Over /\ Accepted' = Accepted
    BY <2>1 DEF Open, Over, Accepted
  <2>3. CASE Down' = Down
    BY <2>1, <2>2, <2>3, Unseen
  <2>4. CASE ~Down /\ Down'
    <3>1. Service!End
      BY <2>1, <2>2, <2>4 DEF Service!End, Over
    <3> QED BY <3>1 DEF Service!ServiceNext
  <2>5. (Down <=> Down') => Down' = Down
    BY DEF Down
  <2> QED BY <2>1, <2>3, <2>4, <2>5
<1>3. CASE AcceptFails \/ AcceptOverflow
  <2>1. /\ pc = "accept" /\ rdy.tcp /\ pc' = "clients"
        /\ \/ UNCHANGED <<conns, backlog>>
           \/ backlog' = Tail(backlog) /\ HangUp(Head(backlog))
    BY <1>3 DEF AcceptFails, AcceptOverflow
  <2>2. Down' = Down
    BY <2>1 DEF Down
  <2>3. CASE UNCHANGED <<conns, backlog>>
    BY <2>2, <2>3, Unseen DEF conns, Open, Over
  <2>4. CASE backlog' = Tail(backlog) /\ HangUp(Head(backlog))
    BY <2>1, <2>2, <2>4, AcceptServes DEF Service!ServiceNext
  <2> QED BY <2>1, <2>3, <2>4
<1>4. CASE AcceptAtLimit \/ AcceptNoMemory
  <2>1. /\ pc = "accept" /\ rdy.tcp /\ pc' = "dead" /\ backlog' = Tail(backlog)
        /\ UNCHANGED conns
    BY <1>4 DEF AcceptAtLimit, AcceptNoMemory
  <2>2. Service!Take
    BY <2>1, AcceptServes
  <2>3. ~Down /\ Down'
    BY <2>1 DEF Down
  <2> QED BY <2>2, <2>3 DEF Service!End, Service!ServiceNext
<1>5. CASE Accept
  <2>1. /\ pc = "accept" /\ rdy.tcp /\ pc' = "clients" /\ backlog' = Tail(backlog)
        /\ UNCHANGED conns
    BY <1>5 DEF Accept
  <2>2. Service!Take
    BY <2>1, AcceptServes
  <2>3. Down' = Down
    BY <2>1 DEF Down
  <2> QED BY <2>2, <2>3 DEF Service!ServiceNext
<1>6. CASE ClientWrite \/ ClientRead
  <2> DEFINE p == list[idx]
  <2>1. /\ pc = "clients" /\ UNCHANGED <<pc, list, backlog>>
        /\ p \in Listed /\ sockfd[p] # NoSock
    BY <1>6, LenProperties, ConstantsAssumption DEF ClientWrite, ClientRead, Due, Listed,
                                                     ToSet, TypeOK
  <2>2. \/ CloseClient(p)
        \/ outgoing[p] /\ WriteDone(p)
        \/ ReadKept(p)
    BY <1>6 DEF ClientWrite, ClientRead, WriteFailed, ReadFails, ReadRefused
  <2>3. Down' = Down /\ ~Down
    BY <2>1 DEF Down
  <2> HIDE DEF p
  <2>4. sockfd[p] \in Conns /\ sockfd[p] \in Accepted
    BY <2>1, StreamTypes DEF SocketOwnership
  <2> PICK c \in Conns : sockfd[p] = c
    BY <2>4
  <2>5. CASE CloseClient(p)
    <3>1. Service!HangUpOn(c)
      BY <2>1, <2>3, <2>5, CloseServes
    <3> QED BY <3>1 DEF Service!ServiceNext
  <2>6. CASE outgoing[p] /\ WriteDone(p)
    <3>1. owed[c] > 0
      BY <2>1, <2>6, WriteStreams
    <3>2. owed' = [owed EXCEPT ![c] = @ - 1] /\ UNCHANGED peer
      BY <2>6 DEF WriteDone
    <3>3. Accepted' = Accepted /\ Over' = Over
      BY <2>1, <3>2 DEF Accepted, Open, Over
    <3>4. Service!Reply(c)
      BY <2>1, <2>3, <2>4, <3>1, <3>2, <3>3 DEF Service!Reply, Over
    <3> QED BY <3>4 DEF Service!ServiceNext
  <2>7. CASE ReadKept(p)
    BY <2>1, <2>3, <2>7, Unseen DEF ReadKept, Open, Over
  <2> QED BY <2>2, <2>5, <2>6, <2>7
<1>7. CASE CompactRemove
  <2>1. UNCHANGED <<peer, owed, backlog, pc>>
    BY <1>7 DEF CompactRemove, conns
  <2> QED BY <2>1, Unseen DEF Open, Over, Down
<1> QED BY <1>1, <1>2, <1>3, <1>4, <1>5, <1>6, <1>7 DEF Next, Agent, Environment

\* For any number of connections and clients, any requests and any faults, what
\* the clients see of the agent is the service: first come first taken, at most
\* one reply to each complete request, and none after the hang-up.
THEOREM AgentServes == Spec => ImplementsService
<1>1. Init => Service!ServiceInit
  <2>1. Init => Open = {} /\ Over = {} /\ Accepted = {}
    BY DEF Init, Open, Over, Accepted
  <2> QED BY <2>1 DEF Init, Service!ServiceInit, Over, Down
<1>2. AgentInv /\ StreamInv /\ [Next]_vars => [Service!ServiceNext]_(Service!service)
  BY ServiceStep
<1> QED BY <1>1, <1>2, AgentStreams, PTL DEF Spec, ImplementsService, Service!ServiceSpec

-----------------------------------------------------------------------------
(* The agent hangs up for a cause: while each peer sends whole requests, one *)
(* at a time, a packet buffer never holds a part of one behind another.      *)

\* Peers that wait for a reply before they send again, requests that arrive in
\* one piece and, where they deserve a reply, fit the packet buffer, and no
\* failure of the calls the agent hangs up after.
PatientPeers ==
    /\ ~Fragments /\ ~Pipelines
    /\ Faults \cap {"accept", "fdlimit", "send"} = {}
    /\ \A r \in Requests : r.ans = "reply" => r.len <= MaxPacket

OneAtATime == \A c \in Conns : todo[c] = 0 /\ owed[c] <= 1

\* What is in a packet buffer is a whole request.
NothingBehind ==
    pc # "dead" =>
      \A p \in Listed : sockfd[p] # NoSock /\ buf[p] # <<>> => net[sockfd[p]] = <<>>

\* What select() reported as readable is, until its client's turn has come.
StillReadable ==
    /\ pc \in {"udp", "accept"} => \A c \in rdy.read : Readable(c)
    /\ pc = "clients" =>
          \A i \in 1 .. Len(list) :
              idx <= i /\ sockfd[list[i]] \in rdy.read => Readable(sockfd[list[i]])

PatientInv == OneAtATime /\ NothingBehind /\ StillReadable

\* A stream that is owed at most one reply is one request, if it is anything.
LEMMA OneRequest ==
    ASSUME NEW s \in Seq(Units), NEW n \in Int, n <= 1, NEW more \in {0, 1},
           Held(s, 0, n, more), s # <<>>
    PROVE  /\ n = 1 /\ more = 0 /\ Heads(s) = {1}
           /\ s[1] \in Requests /\ Len(s) = s[1].len
<1>1. Len(s) \in Nat \ {0} /\ \A i \in 1 .. Len(s) : s[i] \in Units
  BY EmptySeq, LenProperties, ElementOfSeq
<1>2. 1 \in Heads(s) /\ s[1] # Body
  BY <1>1 DEF Held, Framed, Heads
<1>3. n = Count(s) + more /\ Count(s) \in Nat /\ IsFiniteSet(Heads(s))
  BY CountType DEF Held
<1>4. Count(s) # 0
  BY <1>2, <1>3, FS_EmptySet DEF Count
<1>5. n = 1 /\ more = 0 /\ Count(s) = 1
  BY <1>3, <1>4
<1>6. Heads(s) = {1}
  <2>1. \E x : Heads(s) = {x}
    BY <1>3, <1>5, FS_Singleton DEF Count
  <2> QED BY <1>2, <2>1
<1>7. s[1] \in Requests /\ s[1].len \in Nat \ {0}
  BY <1>1, <1>2, ConstantsAssumption DEF Units
<1>8. \/ 1 + s[1].len <= Len(s) /\ s[1 + s[1].len] # Body
      \/ 1 + s[1].len = Len(s) + 1 + 0
  BY <1>2 DEF Held, Framed
<1>9. CASE 1 + s[1].len <= Len(s) /\ s[1 + s[1].len] # Body
  <2>1. 1 + s[1].len \in Heads(s) /\ 1 + s[1].len # 1
    BY <1>1, <1>7, <1>9 DEF Heads
  <2> QED BY <1>6, <2>1
<1>10. CASE 1 + s[1].len = Len(s) + 1 + 0
  BY <1>1, <1>5, <1>6, <1>7, <1>10
<1> QED BY <1>8, <1>9, <1>10

\* The stream of a client in the table, and that of one in the backlog.
LEMMA PatientStream ==
    ASSUME AgentInv, StreamInv, PatientInv, pc # "dead", NEW p \in Listed, sockfd[p] # NoSock
    PROVE  LET c == sockfd[p]
               s == buf[p] \o net[c]
           IN  /\ p \in Ptrs /\ c \in Conns /\ buf[p] \in Seq(Units) /\ net[c] \in Seq(Units)
               /\ buf[p] # <<>> => net[c] = <<>> /\ s = buf[p]
               /\ buf[p] = <<>> => s = net[c]
               /\ s \in Seq(Units)
               /\ s # <<>> => /\ owed[c] = 1 /\ ~outgoing[p] /\ Heads(s) = {1}
                              /\ s[1] \in Requests /\ Len(s) = s[1].len
<1> DEFINE c == sockfd[p]
           s == buf[p] \o net[c]
<1>1. p \in Ptrs /\ c \in Conns /\ buf[p] \in Seq(Units) /\ net[c] \in Seq(Units)
      /\ owed[c] \in Int /\ todo[c] = 0 /\ owed[c] <= 1
  BY StreamTypes DEF AgentInv, PatientInv, OneAtATime
<1>2. buf[p] # <<>> => net[c] = <<>>
  BY DEF PatientInv, NothingBehind
<1>3. /\ s \in Seq(Units)
      /\ net[c] = <<>> => s = buf[p]
      /\ buf[p] = <<>> => s = net[c]
  BY <1>1, ConcatProperties, ConcatEmptySeq
<1>4. Held(s, 0, owed[c], IF outgoing[p] THEN 1 ELSE 0)
  BY <1>1 DEF StreamInv
<1> HIDE DEF c, s
<1>5. s # <<>> => /\ owed[c] = 1 /\ ~outgoing[p] /\ Heads(s) = {1}
                  /\ s[1] \in Requests /\ Len(s) = s[1].len
  <2> DEFINE more == IF outgoing[p] THEN 1 ELSE 0
  <2>1. more \in {0, 1} /\ (more = 0 => ~outgoing[p])
    OBVIOUS
  <2> QED BY <1>1, <1>3, <1>4, <2>1, OneRequest
<1> QED BY <1>1, <1>2, <1>3, <1>5 DEF c, s

\* read() of a client that is readable and connected takes what there is of its
\* one request, as far as it fits.
LEMMA ReadsRequest ==
    ASSUME AgentInv, StreamInv, PatientInv, pc # "dead", NEW p \in Listed, sockfd[p] # NoSock,
           net[sockfd[p]] # <<>>
    PROVE  LET s == net[sockfd[p]]
               b == buf[p] \o Received(p)
               n == IF Len(s) < MaxPacket THEN Len(s) ELSE MaxPacket
           IN  /\ buf[p] = <<>> /\ Received(p) # <<>> /\ Len(Received(p)) = n
               /\ b # <<>> /\ Len(b) = n /\ Head(b) = s[1]
               /\ Heads(s) = {1} /\ s[1] \in Requests /\ Len(s) = s[1].len
<1> DEFINE s == net[sockfd[p]]
           n == IF Len(s) < MaxPacket THEN Len(s) ELSE MaxPacket
           r == Received(p)
<1>1. /\ p \in Ptrs /\ s \in Seq(Units) /\ buf[p] = <<>>
      /\ Heads(s) = {1} /\ s[1] \in Requests /\ Len(s) = s[1].len
  BY PatientStream
<1>2. Len(s) \in Nat \ {0} /\ MaxPacket \in Nat \ {0}
  BY <1>1, EmptySeq, LenProperties, ConstantsAssumption
<1>3. n \in 1 .. Len(s)
  BY <1>2
<1>4. r = SubSeq(s, 1, n)
  <2>1. MaxPacket - Len(buf[p]) = MaxPacket
    BY <1>1, <1>2
  <2> QED BY <2>1 DEF Received
<1> HIDE DEF s, n
<1>5. r \in Seq(Units) /\ Len(r) = n /\ r[1] = s[1]
  <2>1. \A i \in 1 .. n : s[i] \in Units
    BY <1>1, <1>2, <1>3, ElementOfSeq
  <2>2. /\ SubSeq(s, 1, n) \in Seq(Units)
        /\ Len(SubSeq(s, 1, n)) = IF 1 <= n THEN n - 1 + 1 ELSE 0
        /\ \A i \in 1 .. n - 1 + 1 : SubSeq(s, 1, n)[i] = s[1 + i - 1]
    BY <1>2, <1>3, <2>1, SubSeqProperties
  <2> QED BY <1>2, <1>3, <1>4, <2>2
<1> HIDE DEF r
<1>6. r # <<>>
  BY <1>2, <1>3, <1>5, EmptySeq
<1>7. buf[p] \o r = r
  BY <1>1, <1>5, ConcatEmptySeq
<1>8. Head(r) = r[1]
  BY <1>5, <1>6
<1> QED BY <1>1, <1>5, <1>6, <1>7, <1>8 DEF s, n, r

\* What is kept of a read is the whole of what there was.
LEMMA KeepsWhole ==
    ASSUME AgentInv, StreamInv, PatientInv, pc # "dead", NEW p \in Listed, sockfd[p] # NoSock,
           ReadKept(p)
    PROVE  net'[sockfd[p]] = <<>>
<1> DEFINE c == sockfd[p]
           s == net[c]
           b == buf[p] \o Received(p)
<1>1. p \in Ptrs /\ c \in Conns /\ s \in Seq(Units) /\ Len(s) \in Nat
  BY PatientStream, LenProperties
<1>2. Received(p) # <<>> /\ PacketComplete(b) \in {0, 1}
  BY DEF ReadKept
<1>3. net'[c] = SubSeq(s, Len(Received(p)) + 1, Len(s))
  BY <1>1 DEF ReadKept, AgentInv, TypeOK
<1>4. s # <<>>
  <2> SUFFICES ASSUME s = <<>> PROVE FALSE
    OBVIOUS
  <2> DEFINE u == SubSeq(s, Len(Received(p)) + 1, Len(s))
  <2>1. Received(p) \in Seq(Units) /\ u \in Seq(Units) /\ Received(p) \o u = s
    BY <1>1, ReceivedRest DEF AgentInv
  <2> HIDE DEF u
  <2>2. Received(p) \o u = <<>>
    BY <2>1
  <2>3. Len(Received(p)) + Len(u) = 0 /\ Len(Received(p)) \in Nat /\ Len(u) \in Nat
    BY <2>1, <2>2, ConcatProperties, LenProperties
  <2> QED BY <1>2, <2>1, <2>3, EmptySeq
<1> DEFINE n == IF Len(s) < MaxPacket THEN Len(s) ELSE MaxPacket
<1>5. /\ Len(Received(p)) = n /\ Len(b) = n /\ Head(b) = s[1]
      /\ s[1] \in Requests /\ Len(s) = s[1].len
  BY <1>4, ReadsRequest
<1>6. n = Len(s)
  <2>1. CASE Len(s) <= MaxPacket
    BY <1>1, <2>1, ConstantsAssumption
  <2>2. CASE Len(s) > MaxPacket
    <3>1. Len(b) = MaxPacket /\ Head(b).len > MaxPacket
      BY <1>1, <1>5, <2>2, ConstantsAssumption
    <3>2. PacketComplete(b) = -1
      BY <3>1, ConstantsAssumption DEF PacketComplete
    <3> QED BY <1>2, <3>2
  <2> QED BY <1>1, <2>1, <2>2, ConstantsAssumption
<1> HIDE DEF s, n
<1>7. Len(s) < Len(s) + 1 /\ net'[c] = SubSeq(s, Len(s) + 1, Len(s))
  BY <1>1, <1>3, <1>5, <1>6
<1> QED BY <1>1, <1>7, SubSeqEmpty

\* One client's turn: what it is about is its own.
LEMMA TurnTouches ==
    ASSUME AgentInv, ClientWrite \/ ClientRead
    PROVE  LET p == list[idx]
               c == sockfd[p]
           IN  /\ pc = "clients" /\ UNCHANGED <<pc, rdy, list>> /\ idx' = idx + 1
               /\ idx \in 1 .. Len(list) /\ p \in Listed /\ p \in Ptrs
               /\ c \in Conns /\ c # NoSock
               /\ \A d \in Conns \ {c} : /\ net'[d] = net[d] /\ peer'[d] = peer[d]
                                         /\ todo'[d] = todo[d] /\ owed'[d] = owed[d]
               /\ \A q \in Ptrs \ {p} : sockfd'[q] = sockfd[q] /\ buf'[q] = buf[q]
               /\ \/ CloseClient(p)
                  \/ outgoing[p] /\ WriteDone(p)
                  \/ ~outgoing[p] /\ ReadKept(p)
<1> DEFINE p == list[idx]
           c == sockfd[p]
<1>1. /\ pc = "clients" /\ UNCHANGED <<pc, rdy, list>> /\ idx' = idx + 1
      /\ idx \in Nat \ {0} /\ idx <= Len(list) /\ Len(list) \in Nat
  BY LenProperties DEF ClientWrite, ClientRead, AgentInv, TypeOK
<1>2. idx \in 1 .. Len(list)
  BY <1>1
<1>3. p \in Listed
  BY <1>2 DEF Listed, ToSet
<1>4. c \in rdy.write \cup rdy.read
  BY DEF ClientWrite, ClientRead, Due
<1>5. p \in Ptrs /\ c \in Conns /\ c # NoSock
  BY <1>3, <1>4, StreamTypes, ConstantsAssumption DEF AgentInv, TypeOK
<1>6. \/ CloseClient(p)
      \/ outgoing[p] /\ WriteDone(p)
      \/ ~outgoing[p] /\ ReadKept(p)
  BY DEF ClientWrite, ClientRead, WriteFailed, ReadFails, ReadRefused
<1> HIDE DEF p
<1>7. /\ \A d \in Conns \ {c} : /\ net'[d] = net[d] /\ peer'[d] = peer[d]
                                /\ todo'[d] = todo[d] /\ owed'[d] = owed[d]
      /\ \A q \in Ptrs \ {p} : sockfd'[q] = sockfd[q] /\ buf'[q] = buf[q]
  <2>1. CASE CloseClient(p)
    BY <2>1 DEF CloseClient, HangUp, AgentInv, TypeOK
  <2>2. CASE WriteDone(p)
    BY <2>2 DEF WriteDone, AgentInv, TypeOK
  <2>3. CASE ReadKept(p)
    <3> DEFINE m == IF PacketComplete(buf[p] \o Received(p)) = 1 THEN <<>>
                    ELSE buf[p] \o Received(p)
               u == SubSeq(net[c], Len(Received(p)) + 1, Len(net[c]))
    <3>1. /\ buf' = [buf EXCEPT ![p] = m] /\ net' = [net EXCEPT ![c] = u]
          /\ UNCHANGED <<sockfd, peer, todo, owed>>
      BY <2>3 DEF ReadKept
    <3> HIDE DEF m, u
    <3> QED BY <3>1 DEF AgentInv, TypeOK
  <2> QED BY <1>6, <2>1, <2>2, <2>3
<1> QED BY <1>1, <1>2, <1>3, <1>5, <1>6, <1>7 DEF p

\* A peer that waits for its reply is owed no second one.
LEMMA OneAtATimeStep ==
    ASSUME PatientPeers, AgentInv, OneAtATime, [Next]_vars
    PROVE  OneAtATime'
<1> USE DEF OneAtATime
<1>1. todo \in [Conns -> Nat] /\ owed \in [Conns -> Int]
  BY DEF AgentInv, TypeOK
<1>2. ASSUME NEW c \in Conns, SendRequest(c)
      PROVE  OneAtATime'
  <2>1. owed[c] = 0 /\ \E r \in Requests : \E k \in 1 .. r.len :
            /\ k = r.len
            /\ todo' = [todo EXCEPT ![c] = r.len - k]
            /\ owed' = [owed EXCEPT ![c] = IF k = r.len THEN @ + 1 ELSE @]
    BY <1>2 DEF SendRequest, PatientPeers
  <2>2. PICK r \in Requests : /\ todo' = [todo EXCEPT ![c] = r.len - r.len]
                              /\ owed' = [owed EXCEPT ![c] = @ + 1]
    BY <2>1
  <2>3. r.len - r.len = 0
    BY ConstantsAssumption
  <2> QED BY <1>1, <2>1, <2>2, <2>3
<1>3. CASE ClientWrite \/ ClientRead
  <2> DEFINE p == list[idx]
             c == sockfd[p]
  <2>1. /\ c \in Conns /\ \A d \in Conns \ {c} : todo'[d] = todo[d] /\ owed'[d] = owed[d]
        /\ CloseClient(p) \/ WriteDone(p) \/ ReadKept(p)
    BY <1>3, TurnTouches
  <2> HIDE DEF p
  <2>2. todo'[c] = 0 /\ owed'[c] <= 1
    BY <1>1, <2>1 DEF CloseClient, HangUp, WriteDone, ReadKept
  <2> QED BY <2>1, <2>2
<1>4. ASSUME UNCHANGED <<todo, owed>>
      PROVE  OneAtATime'
  BY <1>4
<1>5. \A c \in Conns : ~SendRest(c)
  BY DEF SendRest
<1>6. ~AcceptFails /\ ~AcceptOverflow
  BY DEF AcceptFails, AcceptOverflow, PatientPeers
<1>7. ASSUME NEW c \in Conns, Connect(c) \/ Finish(c) \/ Reset(c)
      PROVE  OneAtATime'
  BY <1>4, <1>7 DEF Connect, Finish, Reset
<1>8. CASE \/ DatagramArrives \/ Signal \/ UNCHANGED vars
           \/ LoopTop \/ Select \/ SelectInterrupted \/ SelectDies
           \/ HandleUdpNone \/ HandleUdp \/ AcceptNone \/ AcceptAtLimit \/ AcceptNoMemory
           \/ Accept \/ ClientWriteKilled \/ ClientSkipped \/ ClientsDone
           \/ CompactRemove \/ CompactKeep \/ CompactDone
  BY <1>4, <1>8 DEF DatagramArrives, Signal, LoopTop, Select, SelectInterrupted, SelectDies,
              HandleUdpNone, HandleUdp, AcceptNone, AcceptAtLimit, AcceptNoMemory, Accept,
              ClientWriteKilled, ClientSkipped, ClientsDone, CompactRemove, CompactKeep,
              CompactDone, vars, conns
<1> QED BY <1>2, <1>3, <1>5, <1>6, <1>7, <1>8 DEF Next, Agent, Environment

\* A packet buffer that holds something has the whole of its stream.
LEMMA NothingBehindStep ==
    ASSUME PatientPeers, AgentInv, StreamInv, PatientInv, [Next]_vars
    PROVE  NothingBehind'
<1>1. ASSUME NEW c \in Conns, SendRequest(c)
      PROVE  NothingBehind'
  <2>1. /\ UNCHANGED <<pc, list, sockfd, buf>> /\ owed[c] = 0
        /\ \A d \in Conns \ {c} : net'[d] = net[d]
    <3>1. \E x : net' = [net EXCEPT ![c] = x]
      BY <1>1 DEF SendRequest
    <3> QED BY <1>1, <3>1 DEF SendRequest, PatientPeers, agent, table, AgentInv, TypeOK
  <2>2. ASSUME pc # "dead", NEW p \in Listed, sockfd[p] # NoSock, buf[p] # <<>>
        PROVE  net'[sockfd[p]] = <<>>
    <3>1. sockfd[p] \in Conns /\ owed[sockfd[p]] = 1 /\ net[sockfd[p]] = <<>>
      BY <2>2, PatientStream
    <3> QED BY <2>1, <3>1
  <2> QED BY <2>1, <2>2 DEF NothingBehind, Listed
<1>2. CASE ClientWrite \/ ClientRead
  <2> DEFINE p == list[idx]
             c == sockfd[p]
  <2>1. /\ c \in Conns /\ c # NoSock /\ p \in Listed /\ p \in Ptrs /\ pc # "dead"
        /\ \A d \in Conns \ {c} : net'[d] = net[d]
        /\ \A q \in Ptrs \ {p} : sockfd'[q] = sockfd[q] /\ buf'[q] = buf[q]
        /\ CloseClient(p) \/ WriteDone(p) \/ ReadKept(p)
        /\ UNCHANGED list
    BY <1>2, TurnTouches
  <2> HIDE DEF p
  <2>2. \/ net'[c] = <<>>
        \/ buf'[p] = <<>> /\ UNCHANGED <<sockfd, net>>
    BY <2>1, KeepsWhole DEF CloseClient, HangUp, WriteDone, AgentInv, TypeOK
  <2>3. sockfd'[p] \in {c, NoSock}
    BY <2>1 DEF CloseClient, WriteDone, ReadKept, AgentInv, TypeOK
  <2>4. ASSUME NEW q \in Listed, sockfd'[q] # NoSock, buf'[q] # <<>>
        PROVE  net'[sockfd'[q]] = <<>>
    <3>1. q \in Ptrs
      BY StreamTypes DEF AgentInv
    <3>2. CASE q = p
      BY <2>2, <2>3, <2>4, <3>2
    <3>3. CASE q # p
      <4>1. /\ sockfd'[q] = sockfd[q] /\ buf'[q] = buf[q] /\ sockfd[q] \in Conns
            /\ net[sockfd[q]] = <<>>
        BY <2>1, <2>4, <3>1, <3>3, PatientStream
      <4>2. sockfd[q] # c
        BY <2>1, <2>4, <3>3, <4>1 DEF AgentInv, SocketOwnership
      <4> QED BY <2>1, <4>1, <4>2
    <3> QED BY <3>2, <3>3
  <2> QED BY <2>1, <2>4 DEF NothingBehind, Listed
<1>3. CASE Accept
  <2>1. PICK p \in Ptrs \ heap :
            /\ list' = Append(list, p) /\ sockfd' = [sockfd EXCEPT ![p] = Head(backlog)]
            /\ buf' = [buf EXCEPT ![p] = <<>>]
    BY <1>3 DEF Accept
  <2>2. pc # "dead" /\ UNCHANGED net
    BY <1>3 DEF Accept, conns
  <2>3. Listed' = Listed \cup {p}
    BY <2>1, SetOfAppend DEF Listed, AgentInv, TypeOK
  <2>4. buf'[p] = <<>> /\ \A q \in Listed : q # p => sockfd'[q] = sockfd[q] /\ buf'[q] = buf[q]
    BY <2>1, StreamTypes DEF AgentInv, TypeOK
  <2> QED BY <2>2, <2>3, <2>4 DEF NothingBehind, PatientInv
<1>4. ASSUME UNCHANGED <<sockfd, buf, net>>, Listed' \subseteq Listed, pc = "dead" => pc' = "dead"
      PROVE  NothingBehind'
  BY <1>4 DEF NothingBehind, PatientInv
<1>5. \A c \in Conns : ~SendRest(c)
  BY DEF SendRest, PatientInv, OneAtATime
<1>6. ~AcceptFails /\ ~AcceptOverflow
  BY DEF AcceptFails, AcceptOverflow, PatientPeers
<1>7. ASSUME NEW c \in Conns, Connect(c) \/ Finish(c) \/ Reset(c)
      PROVE  NothingBehind'
  BY <1>4, <1>7 DEF Connect, Finish, Reset, agent, table, Listed
<1>8. CASE \/ DatagramArrives \/ Signal \/ UNCHANGED vars
           \/ LoopTop \/ Select \/ SelectInterrupted \/ SelectDies
           \/ HandleUdpNone \/ HandleUdp \/ AcceptNone \/ AcceptAtLimit \/ AcceptNoMemory
           \/ ClientWriteKilled \/ ClientSkipped \/ ClientsDone \/ CompactKeep \/ CompactDone
  BY <1>4, <1>8 DEF DatagramArrives, Signal, LoopTop, Select, SelectInterrupted, SelectDies,
              HandleUdpNone, HandleUdp, AcceptNone, AcceptAtLimit, AcceptNoMemory,
              ClientWriteKilled, ClientSkipped, ClientsDone, CompactKeep,
              CompactDone, vars, conns, agent, table, Listed
<1>9. CASE CompactRemove
  BY <1>4, <1>9, RemovedEntry DEF AgentInv, Listed, CompactRemove, conns
<1> QED BY <1>1, <1>2, <1>3, <1>5, <1>6, <1>7, <1>8, <1>9 DEF Next, Agent, Environment

\* What is readable stays so until it is read, and every client in the table is
\* read in a turn of its own.
LEMMA StillReadableStep ==
    ASSUME PatientPeers, AgentInv, StillReadable, [Next]_vars
    PROVE  StillReadable'
<1>1. /\ rdy.read \subseteq Conns /\ list \in Seq(Ptrs) /\ Len(list) \in Nat /\ idx \in Nat
      /\ peer \in [Conns -> PeerStates] /\ net \in [Conns -> Seq(Units)]
  BY LenProperties DEF AgentInv, TypeOK
<1>2. ASSUME UNCHANGED <<pc, idx, rdy, list, sockfd>>,
             \A c \in Conns : Readable(c) => Readable(c)'
      PROVE  StillReadable'
  <2>1. pc' \in {"udp", "accept"} => \A c \in rdy'.read : Readable(c)'
    BY <1>1, <1>2 DEF StillReadable
  <2>2. ASSUME pc' = "clients", NEW i \in 1 .. Len(list'), idx' <= i,
               sockfd'[list'[i]] \in rdy'.read
        PROVE  Readable(sockfd[list[i]])'
    <3>1. /\ pc = "clients" /\ i \in 1 .. Len(list) /\ idx <= i
          /\ sockfd[list[i]] \in rdy.read /\ sockfd'[list'[i]] = sockfd[list[i]]
      BY <1>2, <2>2
    <3>2. Readable(sockfd[list[i]]) /\ sockfd[list[i]] \in Conns
      BY <1>1, <3>1 DEF StillReadable
    <3> QED BY <1>2, <3>1, <3>2 DEF Readable
  <2> QED BY <2>1, <2>2 DEF StillReadable, Readable
<1>3. ASSUME NEW c \in Conns, SendRequest(c) \/ SendRest(c)
      PROVE  StillReadable'
  <2>1. PICK x \in Seq(Units) : net' = [net EXCEPT ![c] = @ \o x]
    BY <1>3, SendExtends DEF AgentInv
  <2>2. UNCHANGED <<pc, idx, rdy, list, sockfd, peer>>
    BY <1>3 DEF SendRequest, SendRest, agent, table
  <2>3. ASSUME NEW d \in Conns, net[d] # <<>>
        PROVE  net'[d] # <<>>
    <3>1. CASE d = c
      <4>1. net'[c] = net[c] \o x /\ net[c] \in Seq(Units) /\ net[c] # <<>>
        BY <1>1, <2>1, <2>3, <3>1
      <4>2. Len(net[c] \o x) = Len(net[c]) + Len(x) /\ Len(x) \in Nat /\ Len(net[c]) \in Nat \ {0}
        BY <2>1, <4>1, ConcatProperties, LenProperties, EmptySeq
      <4> QED BY <3>1, <4>1, <4>2
    <3>2. CASE d # c
      BY <1>1, <2>1, <2>3, <3>2
    <3> QED BY <3>1, <3>2
  <2> QED BY <1>2, <2>2, <2>3 DEF Readable
<1>4. ASSUME NEW c \in Conns, Connect(c) \/ Finish(c) \/ Reset(c)
      PROVE  StillReadable'
  <2>1. UNCHANGED <<pc, idx, rdy, list, sockfd, net>>
    BY <1>4 DEF Connect, Finish, Reset, agent, table
  <2>2. \A d \in Conns : peer[d] \in {"fin", "rst", "abort"} => peer'[d] \in {"fin", "rst", "abort"}
    BY <1>1, <1>4 DEF Connect, Finish, Reset
  <2> QED BY <1>2, <2>1, <2>2 DEF Readable
<1>5. CASE DatagramArrives \/ Signal \/ UNCHANGED vars
  <2>1. UNCHANGED <<pc, idx, rdy, list, sockfd, net, peer>>
    BY <1>5 DEF DatagramArrives, Signal, vars, conns, table, agent
  <2> QED BY <1>2, <2>1 DEF Readable
<1>6. CASE Select
  <2>1. rdy'.read = {c \in Watched(FALSE) : Readable(c)} /\ UNCHANGED <<peer, net>> /\ pc' = "udp"
    BY <1>6 DEF Select, conns
  <2> QED BY <2>1 DEF StillReadable, Readable
<1>7. CASE HandleUdpNone \/ HandleUdp
  <2>1. pc = "udp" /\ pc' = "accept" /\ UNCHANGED <<rdy, peer, net>>
    BY <1>7 DEF HandleUdpNone, HandleUdp, conns
  <2> QED BY <2>1 DEF StillReadable, Readable
<1>8. CASE AcceptNone \/ Accept
  <2>1. pc = "accept" /\ pc' = "clients" /\ UNCHANGED <<rdy, peer, net>>
    BY <1>8 DEF AcceptNone, Accept, conns
  <2> QED BY <2>1 DEF StillReadable, Readable
<1>9. ~AcceptFails /\ ~AcceptOverflow
  BY DEF AcceptFails, AcceptOverflow, PatientPeers
<1>10. CASE ClientWrite \/ ClientRead
  <2> DEFINE p == list[idx]
             c == sockfd[p]
  <2>1. /\ pc = "clients" /\ UNCHANGED <<pc, rdy, list>> /\ idx' = idx + 1
        /\ idx \in 1 .. Len(list) /\ c \in Conns /\ c # NoSock /\ p \in Listed
        /\ \A d \in Conns \ {c} : net'[d] = net[d] /\ peer'[d] = peer[d]
        /\ \A q \in Ptrs \ {p} : sockfd'[q] = sockfd[q]
        /\ sockfd'[p] \in {c, NoSock}
    BY <1>10, TurnTouches DEF CloseClient, WriteDone, ReadKept, AgentInv, TypeOK
  <2>2. ASSUME NEW i \in 1 .. Len(list), idx + 1 <= i, sockfd'[list[i]] \in rdy.read
        PROVE  /\ sockfd'[list[i]] = sockfd[list[i]]
               /\ net'[sockfd[list[i]]] = net[sockfd[list[i]]]
               /\ peer'[sockfd[list[i]]] = peer[sockfd[list[i]]]
               /\ Readable(sockfd[list[i]])
    <3>1. list[i] # p /\ list[i] \in Listed /\ list[i] \in Ptrs /\ idx <= i
      BY <1>1, <2>1, <2>2, StreamTypes DEF AgentInv, TableSound, Listed, ToSet
    <3> HIDE DEF p
    <3>2. sockfd'[list[i]] = sockfd[list[i]] /\ sockfd[list[i]] \in Conns
      BY <1>1, <2>1, <2>2, <3>1
    <3>3. sockfd[list[i]] # c
      BY <2>1, <3>1, <3>2, ConstantsAssumption DEF AgentInv, SocketOwnership
    <3>4. Readable(sockfd[list[i]])
      BY <2>1, <2>2, <3>1, <3>2 DEF StillReadable
    <3> QED BY <2>1, <3>2, <3>3, <3>4
  <2> QED BY <2>1, <2>2 DEF StillReadable, Readable
<1>11. CASE ClientSkipped
  <2>1. pc = "clients" /\ UNCHANGED <<pc, rdy, list, sockfd, peer, net>> /\ idx' = idx + 1
    BY <1>11 DEF ClientSkipped, table, conns
  <2>2. \A i \in 1 .. Len(list) : idx + 1 <= i => idx <= i
    BY <1>1
  <2> QED BY <2>1, <2>2 DEF StillReadable, Readable
<1>12. CASE \/ LoopTop \/ SelectInterrupted \/ SelectDies \/ AcceptAtLimit \/ AcceptNoMemory
            \/ ClientWriteKilled \/ ClientsDone \/ CompactRemove \/ CompactKeep \/ CompactDone
  <2>1. pc' \notin {"udp", "accept", "clients"}
    BY <1>12 DEF LoopTop, SelectInterrupted, SelectDies, AcceptAtLimit, AcceptNoMemory,
                 ClientWriteKilled, ClientsDone, CompactRemove, CompactKeep, CompactDone
  <2> QED BY <2>1 DEF StillReadable
<1> QED BY <1>3, <1>4, <1>5, <1>6, <1>7, <1>8, <1>9, <1>10, <1>11, <1>12
        DEF Next, Agent, Environment

\* A connected peer is hung up on in its own turn, for what was read of its one
\* request.
LEMMA HangsUpForCause ==
    ASSUME PatientPeers, AgentInv, StreamInv, PatientInv, Next,
           NEW c \in Conns, peer[c] = "up", peer'[c] = "closed"
    PROVE  Cause(c)
<1>1. ClientWrite \/ ClientRead
  <2>1. peer' # peer /\ peer \in [Conns -> PeerStates]
    BY DEF AgentInv, TypeOK
  <2>2. \A d \in Conns : ~Connect(d) /\ ~Finish(d) /\ ~Reset(d)
    BY <2>1 DEF Connect, Finish, Reset
  <2>3. ~AcceptFails /\ ~AcceptOverflow
    BY DEF AcceptFails, AcceptOverflow, PatientPeers
  <2>4. /\ \A d \in Conns : ~SendRequest(d) /\ ~SendRest(d)
        /\ ~DatagramArrives /\ ~Signal
    BY <2>1 DEF SendRequest, SendRest, DatagramArrives, Signal, conns
  <2> QED BY <2>1, <2>2, <2>3, <2>4
          DEF Next, Environment, Agent, LoopTop, Select, SelectInterrupted, SelectDies,
              HandleUdpNone, HandleUdp, AcceptNone, AcceptAtLimit, AcceptNoMemory, Accept,
              ClientWriteKilled, ClientSkipped, ClientsDone, CompactRemove, CompactKeep,
              CompactDone, conns
<1> DEFINE p == list[idx]
           b == buf[p] \o Received(p)
<1>2. /\ pc = "clients" /\ idx \in 1 .. Len(list) /\ p \in Listed /\ sockfd[p] = c
      /\ c # NoSock /\ idx <= idx
  BY <1>1, TurnTouches
<1>3. ClientRead
  <2>1. ~WriteDone(p)
    BY DEF WriteDone
  <2>2. ~WriteFailed(p)
    BY <1>2 DEF WriteFailed, PatientPeers
  <2> QED BY <1>1, <2>1, <2>2 DEF ClientWrite
<1>4. net[c] # <<>>
  <2>1. c \in rdy.read
    BY <1>2, <1>3 DEF ClientRead, Due
  <2> QED BY <1>2, <2>1 DEF PatientInv, StillReadable, Readable
<1> DEFINE s == net[c]
           n == IF Len(s) < MaxPacket THEN Len(s) ELSE MaxPacket
<1>5. /\ buf[p] = <<>> /\ Received(p) # <<>> /\ Len(b) = n /\ Head(b) = s[1]
      /\ Heads(s) = {1} /\ s[1] \in Requests /\ Len(s) = s[1].len
  BY <1>2, <1>4, ReadsRequest
<1>6. ReadRefused(p)
  <2>1. ~ReadKept(p)
    BY DEF ReadKept
  <2> QED BY <1>3, <1>5, <2>1 DEF ClientRead, ReadFails
<1>7. s[1].ans # "reply"
  <2> SUFFICES ASSUME s[1].ans = "reply" PROVE FALSE
    OBVIOUS
  <2>1. Len(s) \in Nat /\ Len(s) <= MaxPacket /\ MaxPacket \in Nat
    BY <1>5, ConstantsAssumption DEF PatientPeers
  <2>2. Len(b) = Head(b).len /\ Len(b) \in Nat
    BY <1>5, <2>1
  <2>3. PacketComplete(b) # -1 /\ Head(b).ans = "reply"
    BY <1>5, <2>2 DEF PacketComplete
  <2> QED BY <1>6, <2>3 DEF ReadRefused
<1>8. buf[p] \o net[c] = net[c]
  BY <1>2, <1>5, ConcatEmptySeq DEF AgentInv, TypeOK
<1> QED BY <1>2, <1>5, <1>7, <1>8 DEF Cause

\* While peers send whole requests, each after the reply to the one before, and
\* no call fails, the agent hangs up on a connected peer only for a request of
\* its own that deserves no reply, whatever the other peers do meanwhile and
\* however many there are (the close() calls of handle_tcp_client_read and _write).
THEOREM AgentHangsUp ==
    ASSUME PatientPeers
    PROVE  Spec => HangUpForCause
<1>1. Init => PatientInv
  <2>1. Init => /\ pc = "top" /\ Listed = {} /\ \A c \in Conns : todo[c] = 0 /\ owed[c] = 0
    BY EmptySeq DEF Init, Listed, ToSet
  <2> QED BY <2>1 DEF PatientInv, OneAtATime, NothingBehind, StillReadable
<1>2. AgentInv /\ StreamInv /\ PatientInv /\ [Next]_vars => PatientInv'
  BY OneAtATimeStep, NothingBehindStep, StillReadableStep DEF PatientInv
<1>3. AgentInv /\ StreamInv /\ PatientInv /\ [Next]_vars =>
          [\A c \in Conns : peer[c] = "up" /\ peer'[c] = "closed" => Cause(c)]_vars
  BY HangsUpForCause
<1> QED BY <1>1, <1>2, <1>3, AgentStreams, PTL DEF Spec, HangUpForCause
=============================================================================
