----------------------------- MODULE SdkServer ------------------------------
(* The command server of the daemon (server.c): the main thread's accept     *)
(* loop (server_run), a detached thread for each connection (threadworker),  *)
(* the peers, and the descriptors of the process, which the agent uses too.  *)
(*                                                                           *)
(* A connection is a member of Conns, is opened at most once, and stands for *)
(* its descriptor and its peer.  Commands read the shared status (SdkStatus) *)
(* while the serial thread writes it.                                        *)
EXTENDS SdkStatus, FiniteSets, SequencesExt

CONSTANTS
    Conns,          \* connections peers may open, each once
    MaxWorkers,     \* bound: threads made
    Commands,       \* the fields each command is answered from
    Descriptors,    \* how many more the process may have
    ServerFaults    \* which calls may fail: "thread", pthread_create

Nothing == "nothing"    \* no command
Piece   == "piece"      \* a part of one, or one that is not known

ASSUME ServerAssumption ==
    /\ Conns # {} /\ MaxWorkers \in Nat /\ Descriptors \in Nat
    /\ Commands \in [DOMAIN Commands -> SUBSET Fields \ {{}}]
    /\ {Nothing, Piece} \cap DOMAIN Commands = {}
    /\ ServerFaults \subseteq {"thread"}

Workers == 1 .. MaxWorkers

VARIABLES
    spc,        \* where the main thread is
    newsock,    \* new_sockfd
    queue,      \* connections waiting for accept()
    link,       \* each connection: its peer's side, or "closed" by the daemon
    inbox,      \* what read() would find
    asked,      \* the command the peer has sent completely
    asof,       \* polls completely published then
    wpc,        \* where each worker is
    sock,       \* its sockfd
    todo,       \* fields it has still to load
    kind,       \* what its buffer holds: "value", "echo" or "empty"
    reply,      \* the values it has loaded
    lost,       \* descriptors nobody is going to close
    held,       \* descriptors of the agent's clients
    dead        \* the process has ended

kernel  == <<queue, link, inbox, asked, asof>>
workers == <<wpc, sock, todo, kind, reply>>
server  == <<spc, newsock, kernel, workers, lost, held, dead>>

Up       == {c \in Conns : link[c] \notin {"idle", "closed"}}
Accepted == Up \ ToSet(queue)
Active   == {w \in Workers : wpc[w] \notin {"none", "gone"}}

\* accept() has the descriptor it will return when it starts to wait.
InUse == Cardinality(Accepted) + held + (IF spc = "blocked" THEN 1 ELSE 0)

ServerInit ==
    /\ spc = "accept" /\ newsock = (CHOOSE c \in Conns : TRUE) /\ queue = <<>>
    /\ link = [c \in Conns |-> "idle"]
    /\ inbox = [c \in Conns |-> Nothing]
    /\ asked = [c \in Conns |-> Nothing]
    /\ asof = [c \in Conns |-> 0]
    /\ wpc = [w \in Workers |-> "none"]
    /\ sock = [w \in Workers |-> newsock]
    /\ todo = [w \in Workers |-> {}]
    /\ kind = [w \in Workers |-> "empty"]
    /\ reply = [w \in Workers |-> [f \in Fields |-> 0]]
    /\ lost = {} /\ held = 0 /\ dead = FALSE

-----------------------------------------------------------------------------
(* The peers.                                                                *)

Connect(c) ==
    /\ link[c] = "idle"
    /\ link' = [link EXCEPT ![c] = "up"]
    /\ queue' = Append(queue, c)
    /\ UNCHANGED <<spc, newsock, inbox, asked, asof, workers, lost, held, dead>>

\* One command a connection, whole, or in two pieces that may be read apart.
SendCommand(c) ==
    /\ link[c] = "up" /\ asked[c] = Nothing
    /\ \E k \in DOMAIN Commands :
          /\ inbox' = [inbox EXCEPT ![c] = k]
          /\ asked' = [asked EXCEPT ![c] = k]
    /\ asof' = [asof EXCEPT ![c] = ended]
    /\ UNCHANGED <<spc, newsock, queue, link, workers, lost, held, dead>>

SendPiece(c) ==
    /\ link[c] = "up" /\ asked[c] = Nothing /\ inbox[c] = Nothing
    /\ inbox' = [inbox EXCEPT ![c] = Piece]
    /\ UNCHANGED <<spc, newsock, queue, link, asked, asof, workers, lost, held, dead>>

\* FIN.
Finish(c) ==
    /\ link[c] = "up"
    /\ link' = [link EXCEPT ![c] = "fin"]
    /\ UNCHANGED <<spc, newsock, queue, inbox, asked, asof, workers, lost, held, dead>>

\* RST, before or after a FIN.
Reset(c) ==
    /\ link[c] \in {"up", "fin"}
    /\ link' = [link EXCEPT ![c] = IF @ = "up" THEN "rst" ELSE "abort"]
    /\ UNCHANGED <<spc, newsock, queue, inbox, asked, asof, workers, lost, held, dead>>

Peer(c) == Connect(c) \/ SendCommand(c) \/ SendPiece(c) \/ Finish(c) \/ Reset(c)

-----------------------------------------------------------------------------
(* The main thread: the loop of server_run.                                  *)

\* BUG: the thread before is waited for, as with pthread_join.
BugAcceptCall ==
    /\ spc = "accept" /\ InUse < Descriptors /\ Active = {}
    /\ spc' = "blocked"
    /\ UNCHANGED <<newsock, kernel, workers, lost, held, dead>>

AcceptCall ==
    /\ spc = "accept" /\ InUse < Descriptors
    /\ spc' = "blocked"
    /\ UNCHANGED <<newsock, kernel, workers, lost, held, dead>>

\* exit(-1): the agent and the serial thread end too.
AcceptFails ==
    /\ spc = "accept" /\ InUse >= Descriptors
    /\ dead' = TRUE
    /\ UNCHANGED <<spc, newsock, kernel, workers, lost, held>>

AcceptReturns ==
    /\ spc = "blocked" /\ queue # <<>>
    /\ spc' = "create"
    /\ newsock' = Head(queue) /\ queue' = Tail(queue)
    /\ UNCHANGED <<link, inbox, asked, asof, workers, lost, held, dead>>

CreateWorker ==
    /\ spc = "create"
    /\ spc' = "accept"
    /\ LET w == Cardinality({v \in Workers : wpc[v] # "none"}) + 1
       IN  /\ w \in Workers
           /\ wpc' = [wpc EXCEPT ![w] = "new"]
           /\ sock' = [sock EXCEPT ![w] = newsock]
    /\ UNCHANGED <<newsock, kernel, todo, kind, reply, lost, held, dead>>

\* pthread_create fails, which nobody looks at.
CreateFails ==
    /\ spc = "create" /\ "thread" \in ServerFaults
    /\ spc' = "accept"
    /\ lost' = lost \cup {newsock}
    /\ UNCHANGED <<newsock, kernel, workers, held, dead>>

Main == AcceptCall \/ AcceptFails \/ AcceptReturns \/ CreateWorker \/ CreateFails

-----------------------------------------------------------------------------
(* A worker: threadworker.                                                   *)

\* BUG: the thread is given the address of new_sockfd, not its value.
BugWorkerStart(w) ==
    /\ wpc[w] = "new"
    /\ wpc' = [wpc EXCEPT ![w] = "read"]
    /\ sock' = [sock EXCEPT ![w] = newsock]
    /\ UNCHANGED <<spc, newsock, kernel, todo, kind, reply, lost, held, dead>>

WorkerStart(w) ==
    /\ wpc[w] = "new"
    /\ wpc' = [wpc EXCEPT ![w] = "read"]
    /\ UNCHANGED <<spc, newsock, kernel, sock, todo, kind, reply, lost, held, dead>>

\* A whole command is replaced by its answer; anything else is sent back.
Buffer(k) == CASE k \in DOMAIN Commands -> "value"
               [] k = Piece             -> "echo"
               [] k = Nothing           -> "empty"

\* read() returns what has come, or 0 at the end of the connection.
WorkerRead(w) ==
    LET c == sock[w] IN
    /\ wpc[w] = "read"
    /\ inbox[c] # Nothing \/ link[c] \in {"fin", "abort"}
    /\ wpc' = [wpc EXCEPT ![w] = "reply"]
    /\ kind' = [kind EXCEPT ![w] = Buffer(inbox[c])]
    /\ todo' = [todo EXCEPT ![w] = IF Buffer(inbox[c]) = "value" THEN Commands[inbox[c]] ELSE {}]
    /\ inbox' = [inbox EXCEPT ![c] = Nothing]
    /\ UNCHANGED <<spc, newsock, queue, link, asked, asof, sock, reply, lost, held, dead>>

\* BUG: a connection at its end is taken for one that failed.
BugReadError(c) == inbox[c] = Nothing /\ link[c] \in {"fin", "rst"}

ReadError(c) == inbox[c] = Nothing /\ link[c] = "rst"

\* read() fails: pthread_exit, and the descriptor stays open.
WorkerReadFails(w) ==
    /\ wpc[w] = "read" /\ ReadError(sock[w])
    /\ wpc' = [wpc EXCEPT ![w] = "gone"]
    /\ lost' = lost \cup {sock[w]}
    /\ UNCHANGED <<spc, newsock, kernel, sock, todo, kind, reply, held, dead>>

\* The values are loaded one by one, with no lock (the mutex protects nothing).
WorkerLoad(w) ==
    /\ \E f \in todo[w] :
          /\ reply' = [reply EXCEPT ![w][f] = status[f]]
          /\ todo' = [todo EXCEPT ![w] = @ \ {f}]
    /\ UNCHANGED <<spc, newsock, kernel, wpc, sock, kind, lost, held, dead>>

Ready(w) == wpc[w] = "reply" /\ todo[w] = {}

WorkerWrites(w) ==
    /\ Ready(w)
    /\ \/ link[sock[w]] \in {"up", "fin"}
       \/ link[sock[w]] = "abort" /\ kind[w] = "empty"
    /\ wpc' = [wpc EXCEPT ![w] = "gone"]
    /\ link' = [link EXCEPT ![sock[w]] = "closed"]
    /\ UNCHANGED <<spc, newsock, queue, inbox, asked, asof, sock, todo, kind, reply, lost, held, dead>>

\* write() fails: as when read() does.
WorkerWriteFails(w) ==
    /\ Ready(w) /\ link[sock[w]] = "rst"
    /\ wpc' = [wpc EXCEPT ![w] = "gone"]
    /\ lost' = lost \cup {sock[w]}
    /\ UNCHANGED <<spc, newsock, kernel, sock, todo, kind, reply, held, dead>>

\* SIGPIPE ends the process.
WorkerKilled(w) ==
    /\ Ready(w) /\ link[sock[w]] = "abort"
    /\ dead' = TRUE
    /\ UNCHANGED <<spc, newsock, kernel, workers, lost, held>>

Worker(w) ==
    \/ WorkerStart(w) \/ WorkerRead(w) \/ WorkerReadFails(w) \/ WorkerLoad(w)
    \/ WorkerWrites(w) \/ WorkerWriteFails(w) \/ WorkerKilled(w)

-----------------------------------------------------------------------------
(* What the server promises.                                                 *)

ServerTypeOK ==
    /\ spc \in {"accept", "blocked", "create"} /\ newsock \in Conns
    /\ queue \in Seq(Conns)
    /\ link \in [Conns -> {"idle", "up", "fin", "rst", "abort", "closed"}]
    /\ inbox \in [Conns -> DOMAIN Commands \cup {Nothing, Piece}]
    /\ asked \in [Conns -> DOMAIN Commands \cup {Nothing}]
    /\ asof \in [Conns -> Nat]
    /\ wpc \in [Workers -> {"none", "new", "read", "reply", "gone"}]
    /\ sock \in [Workers -> Conns]
    /\ todo \in [Workers -> SUBSET Fields]
    /\ kind \in [Workers -> {"value", "echo", "empty"}]
    /\ reply \in [Workers -> [Fields -> Nat]]
    /\ lost \subseteq Conns /\ held \in Nat /\ dead \in BOOLEAN

\* Each accepted connection is served by exactly one thread, or lost, and no
\* thread works on a connection that is closed, lost or another one's, although
\* main goes on with the next one before the thread has looked at its argument.
ServedOnce ==
    /\ \A c \in Accepted \ lost :
          Cardinality({w \in Active : sock[w] = c}) = IF spc = "create" /\ c = newsock THEN 0 ELSE 1
    /\ \A w \in Active : sock[w] \in Accepted \ lost

\* A descriptor nobody is going to close is an accepted connection's, and stays
\* open.  If a thread was made for it, its peer has reset it, whatever else came
\* and went meanwhile; if none was, pthread_create() can fail here.
LostForCause ==
    \A c \in lost :
        /\ c \in Accepted
        /\ IF \E w \in Workers : wpc[w] # "none" /\ sock[w] = c
           THEN link[c] = "rst" ELSE "thread" \in ServerFaults

\* What a command is answered is no older than what was completely published
\* when it was sent, for each value of it.
ReplyRecent ==
    \A w \in Active : Ready(w) /\ kind[w] = "value" =>
        \A f \in Commands[asked[sock[w]]] : reply[w][f] >= asof[sock[w]]
=============================================================================
