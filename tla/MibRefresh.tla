----------------------------- MODULE MibRefresh -----------------------------
(* How the agent's MIB follows the shared status: the timer of run_snmpd     *)
(* (tv_last, tv_sleep and ticks_since), and mib_update, which copies the     *)
(* status (get_sdkinfo) and stores it in the MIB.  The handlers, here one    *)
(* step, answer from the MIB (Snmpd, SnmpMib).                               *)
(*                                                                           *)
(* Time is counted in ticks and relative to tv_last, so that it needs no     *)
(* bound: `clock` is what ticks_since would return.  It passes at any place  *)
(* of the loop, and somebody may set the clock back or forward.              *)
EXTENDS SdkStatus

CONSTANTS
    AgentThread,    \* the agent, a reader of the status
    Timeout,        \* g_timeout
    MaxStep,        \* bound: ticks the clock is set back or forward at once
    MaxSets,        \* bound: how often it is set
    MaxTime         \* where clock and ages stop being counted

ASSUME RefreshAssumption ==
    /\ AgentThread \in Readers
    /\ Timeout \in Nat \ {0}
    /\ MaxStep \in Nat /\ MaxSets \in Nat /\ MaxTime \in Nat
    /\ MaxTime >= Timeout + MaxSets * MaxStep

VARIABLES
    apc,        \* where the agent thread is
    quit,       \* g_quit
    clock,      \* ticks by the clock since tv_last
    wait,       \* tv_sleep
    mib,        \* the poll each entry's value is from
    back,       \* ticks the clock was set back since tv_last was taken
    sets,       \* how often it has been set
    age,        \* ticks since each poll was completely published
    due         \* the polls the answers must be as new as

refresh == <<apc, quit, clock, wait, mib, back, sets, age, due>>
rvars   == <<writer, readers, refresh>>

Lesser(a, b)  == IF a < b THEN a ELSE b
Greater(a, b) == IF a < b THEN b ELSE a

Polls == 1 .. MaxPolls

\* tv_last is taken, the MIB is built, and its first update begins.
RefreshInit ==
    /\ StatusInit
    /\ apc = "boot" /\ quit = FALSE
    /\ clock = 0 /\ wait = Timeout /\ back = 0 /\ sets = 0
    /\ mib = [f \in Fields |-> 0]
    /\ age = [n \in Polls |-> 0] /\ due = {}

-----------------------------------------------------------------------------
(* Time.                                                                     *)

Tick ==
    /\ clock' = Lesser(clock + 1, MaxTime)
    /\ age' = [n \in Polls |-> IF n <= ended THEN Lesser(age[n] + 1, MaxTime) ELSE 0]
    /\ wait' = IF apc = "select" THEN Greater(wait - 1, 0) ELSE wait
    /\ UNCHANGED <<writer, readers, apc, quit, mib, back, sets, due>>

SetClock ==
    /\ sets < MaxSets /\ sets' = sets + 1
    /\ \E step \in 1 .. MaxStep :
          \/ clock' = clock - step /\ back' = back + step
          \/ clock' = Lesser(clock + step, MaxTime) /\ UNCHANGED back
    /\ UNCHANGED <<writer, readers, apc, quit, wait, mib, age, due>>

\* SIGTERM or SIGHUP, delivered to whichever thread.
Signal ==
    /\ ~quit /\ quit' = TRUE
    /\ UNCHANGED <<writer, readers, apc, clock, wait, mib, back, sets, age, due>>

-----------------------------------------------------------------------------
(* The loop of run_snmpd, as far as the MIB is concerned.                    *)

\* BUG: the flag is looked at only when select() is interrupted.
BugLoopTop ==
    /\ apc = "top"
    /\ apc' = "select"
    /\ UNCHANGED <<writer, readers, quit, clock, wait, mib, back, sets, age, due>>

LoopTop ==
    /\ apc = "top"
    /\ apc' = IF quit THEN "stopped" ELSE "select"
    /\ UNCHANGED <<writer, readers, quit, clock, wait, mib, back, sets, age, due>>

\* select() is over by a request, or when tv_sleep is.
SelectReady ==
    /\ apc = "select"
    /\ apc' = "ticks"
    /\ UNCHANGED <<writer, readers, quit, clock, wait, mib, back, sets, age, due>>

SelectTimesOut == wait = 0 /\ SelectReady

SelectInterrupted ==
    /\ apc = "select" /\ quit
    /\ apc' = "stopped"
    /\ UNCHANGED <<writer, readers, quit, clock, wait, mib, back, sets, age, due>>

\* The polls a second old, with what the clock was set back added to it, or all
\* of them when it runs behind the last update.
Overdue == {n \in 1 .. ended : clock < 0 \/ age[n] >= Timeout + back}

\* BUG: a clock that runs backwards is taken for no time at all.
BugTicksOver == clock >= Timeout

TicksOver == clock < 0 \/ clock >= Timeout

\* BUG: tv_last is taken at partial updates too.
BugUpdatePartly ==
    /\ apc = "ticks" /\ ~TicksOver
    /\ apc' = "serve"
    /\ due' = Overdue
    /\ wait' = Timeout - clock
    /\ clock' = 0 /\ back' = 0
    /\ UNCHANGED <<writer, readers, quit, mib, sets, age>>

\* Nothing in the MIB is changed; the rest of the second is slept.
UpdatePartly ==
    /\ apc = "ticks" /\ ~TicksOver
    /\ apc' = "serve"
    /\ due' = Overdue
    /\ wait' = Timeout - clock
    /\ UNCHANGED <<writer, readers, quit, clock, mib, back, sets, age>>

\* tv_now, which becomes tv_last when the update is done, is taken before it.
UpdateFully ==
    /\ apc = "ticks" /\ TicksOver
    /\ apc' = "update"
    /\ due' = Overdue
    /\ wait' = Timeout
    /\ clock' = 0 /\ back' = 0
    /\ UNCHANGED <<writer, readers, quit, mib, sets, age>>

CopyBegin ==
    /\ apc \in {"boot", "update"} /\ SnapBegin(AgentThread)
    /\ UNCHANGED <<writer, refresh>>

CopyField == SnapField(AgentThread) /\ UNCHANGED <<writer, refresh>>

\* mib_update_entry for each entry: they are updated in the order they were
\* built in, so the search for each, from the one before, finds it.
UpdateMib ==
    /\ SnapEnd(AgentThread)
    /\ mib' = snap[AgentThread]
    /\ apc' = IF apc = "boot" THEN "top" ELSE "serve"
    /\ UNCHANGED <<writer, quit, clock, wait, back, sets, age, due>>

Serve ==
    /\ apc = "serve"
    /\ apc' = "top"
    /\ UNCHANGED <<writer, readers, quit, clock, wait, mib, back, sets, age, due>>

AgentStep ==
    \/ LoopTop \/ SelectTimesOut \/ UpdatePartly \/ UpdateFully
    \/ CopyBegin \/ CopyField \/ UpdateMib \/ Serve

Publish == Write /\ UNCHANGED refresh

RefreshNext == Publish \/ Tick \/ SetClock \/ Signal \/ SelectReady \/ SelectInterrupted \/ AgentStep
RefreshSpec == RefreshInit /\ [][RefreshNext]_rvars

-----------------------------------------------------------------------------
(* What the agent promises of the values it answers.                         *)

RefreshTypeOK ==
    /\ apc \in {"boot", "top", "select", "ticks", "update", "serve", "stopped"}
    /\ quit \in BOOLEAN
    /\ clock \in Int /\ clock <= MaxTime /\ wait \in 0 .. Timeout
    /\ mib \in [Fields -> Nat] /\ back \in Nat /\ sets \in 0 .. MaxSets
    /\ age \in [Polls -> 0 .. MaxTime] /\ due \subseteq Polls

\* What is answered is at most a second old: it is from polls no older than the
\* last one completely published a Timeout, and what the clock was set back,
\* before the loop woke; and than the last one of all if the clock ran backwards.
\* That holds although mib_update reads the status while it is written.
MibFresh == apc = "serve" => \A f \in Fields, n \in due : mib[f] >= n

\* No value answered is older than one answered before.
MibAdvances == [][\A f \in Fields : mib[f] <= mib'[f]]_rvars
=============================================================================
