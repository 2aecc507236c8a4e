---------------------------- MODULE SnmpService -----------------------------
(* What the agent is to its TCP clients, without its table, buffers and      *)
(* loop: connections wait and are taken in the order they came, each request *)
(* is answered at most once and not after its connection is over, and a      *)
(* connection may be hung up on, as may all of them.  Snmpd implements it    *)
(* (run_snmpd in mini_snmpd.c).                                              *)
EXTENDS Integers, Sequences

CONSTANT Conns

VARIABLES
    waiting,    \* connections not taken yet, in their order
    served,     \* connections taken
    over,       \* connections hung up on
    pending,    \* requests of each that were made and not answered
    up          \* the agent runs

service == <<waiting, served, over, pending, up>>

InLine == {waiting[i] : i \in 1 .. Len(waiting)}

ServiceInit ==
    /\ waiting = <<>> /\ served = {} /\ over = {}
    /\ pending = [c \in Conns |-> 0]
    /\ up = TRUE

Arrive(c) ==
    /\ waiting' = Append(waiting, c)
    /\ c \notin served \cup over \cup InLine
    /\ UNCHANGED <<pending, up, served, over>>

Request(c) ==
    /\ pending' = [pending EXCEPT ![c] = @ + 1]
    /\ c \in served \cup InLine
    /\ UNCHANGED <<waiting, up, served, over>>

\* The one that came first is taken, or turned away.
Take ==
    /\ waiting # <<>> /\ waiting' = Tail(waiting)
    /\ up
    /\ served' = served \cup {Head(waiting)}
    /\ UNCHANGED <<pending, over>>

TurnAway ==
    /\ waiting # <<>> /\ waiting' = Tail(waiting)
    /\ up
    /\ over' = over \cup {Head(waiting)}
    /\ pending' = [pending EXCEPT ![Head(waiting)] = 0]
    /\ UNCHANGED <<up, served>>

Reply(c) ==
    /\ pending' = [pending EXCEPT ![c] = @ - 1]
    /\ up /\ pending[c] > 0 /\ c \in served
    /\ UNCHANGED <<waiting, up, served, over>>

HangUpOn(c) ==
    /\ pending' = [pending EXCEPT ![c] = 0]
    /\ up /\ c \in served
    /\ over' = over \cup {c} /\ served' = served \ {c}
    /\ UNCHANGED <<waiting, up>>

\* The agent ends, which taking a connection may make it do.
End ==
    /\ up /\ up' = FALSE
    /\ Take \/ UNCHANGED <<waiting, pending, served, over>>

ServiceNext ==
    \/ \E c \in Conns : Arrive(c) \/ Request(c) \/ Reply(c) \/ HangUpOn(c)
    \/ Take /\ UNCHANGED up
    \/ TurnAway
    \/ End

ServiceSpec == ServiceInit /\ [][ServiceNext]_service

-----------------------------------------------------------------------------
(* The service's invariant: no reply without a request, and each connection  *)
(* in one place.                                                             *)

ServiceInv ==
    /\ waiting \in Seq(Conns) /\ served \subseteq Conns /\ over \subseteq Conns
    /\ pending \in [Conns -> Nat] /\ up \in BOOLEAN
    /\ \A i, j \in 1 .. Len(waiting) : i # j => waiting[i] # waiting[j]
    /\ served \cap over = {} /\ InLine \cap (served \cup over) = {}
    /\ \A c \in Conns : c \notin served \cup InLine => pending[c] = 0
=============================================================================
