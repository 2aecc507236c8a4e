-------------------------------- MODULE Sdk ---------------------------------
(* The process (sdk.c): the serial thread and the agent are started, and the *)
(* main thread runs the command server.  They share the status and the       *)
(* descriptors, and what ends the process in one thread ends them all; a     *)
(* SIGTERM ends the agent only.                                              *)
EXTENDS MibRefresh, SdkServer

CONSTANT Budgets    \* bounds: what happens in a behaviour

ASSUME BudgetsAssumption ==
    Budgets \subseteq
               [conns : SUBSET Conns, polls : 0 .. MaxPolls, agent : BOOLEAN, sets : 0 .. MaxSets,
                held : Nat, signal : BOOLEAN]

VARIABLE budget

sdk == <<rvars, server, budget>>

SdkInit == RefreshInit /\ ServerInit /\ budget \in Budgets

Serial ==
    /\ ~dead
    /\ Write /\ begun' <= budget.polls
    /\ UNCHANGED <<refresh, server, budget>>

\* The threads other than the server's, while the process is there.
AgentRuns(step) ==
    /\ ~dead /\ budget.agent
    /\ step
    /\ UNCHANGED <<server, budget>>

Time  == AgentRuns(Tick)
Agent == AgentRuns(AgentStep)
Woken == AgentRuns(SelectReady \/ SelectInterrupted)

Outside ==
    \/ sets < budget.sets /\ AgentRuns(SetClock)
    \/ budget.signal /\ AgentRuns(Signal)

\* A TCP client of the agent comes or goes while it handles its sockets.  It
\* only warns when there is no descriptor left.
AgentSockets ==
    /\ ~dead /\ apc = "serve"
    /\ \/ InUse < Descriptors /\ held < budget.held /\ held' = held + 1
       \/ held > 0 /\ held' = held - 1
    /\ UNCHANGED <<rvars, spc, newsock, kernel, workers, lost, dead, budget>>

\* The agent's own ends of the process (Snmpd): a full table, no memory, SIGPIPE.
AgentEnds ==
    /\ ~dead /\ apc = "serve"
    /\ dead' = TRUE
    /\ UNCHANGED <<rvars, spc, newsock, kernel, workers, lost, held, budget>>

ServerRuns(step) ==
    /\ ~dead /\ budget.conns # {}
    /\ step
    /\ UNCHANGED <<rvars, budget>>

Peers           == \E c \in budget.conns : ServerRuns(Peer(c))
MainThread      == ServerRuns(Main)
WorkerThread(w) == ServerRuns(Worker(w))

SdkNext ==
    \/ Serial \/ Time \/ Outside
    \/ Agent \/ Woken \/ AgentSockets \/ AgentEnds
    \/ Peers \/ MainThread
    \/ \E w \in Workers : WorkerThread(w)

SdkSpec == SdkInit /\ [][SdkNext]_sdk

\* Time passes, and each thread runs when it can: select() in the agent has a
\* time-out; accept() and a worker's read() may wait for ever.
SdkFairSpec ==
    /\ SdkSpec
    /\ WF_sdk(Time) /\ WF_sdk(Agent) /\ WF_sdk(MainThread)
    /\ \A w \in Workers : WF_sdk(WorkerThread(w))

-----------------------------------------------------------------------------
(* What the process promises.                                                *)

\* The type invariant of the whole: the status and who reads and writes it, the
\* refresh, where tv_sleep is never more than the Timeout, and the server.
SdkTypeOK == StatusTypeOK /\ RefreshTypeOK /\ ServerTypeOK

Stopped == dead \/ apc = "stopped"

\* What the serial thread publishes is in the MIB in the end, without a request
\* and although the clock is set.
MibCatchesUp ==
    \A n \in 1 .. MaxPolls :
        (ended >= n /\ budget.agent) ~> (Stopped \/ \A f \in Fields : mib[f] >= n)

\* A command is answered in the end, or its connection lost, although others
\* connect and send nothing.
CommandsSettled ==
    \A c \in Conns : (asked[c] # Nothing) ~> (dead \/ link[c] = "closed" \/ c \in lost)

\* SIGTERM stops the agent, whichever thread it is delivered to, by the end of
\* its time-out.
SignalStopsAgent == (quit /\ budget.agent) ~> Stopped
=============================================================================
