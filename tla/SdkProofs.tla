------------------------------ MODULE SdkProofs -----------------------------
(* Proofs about MibRefresh: how old what the agent answers may be, for any   *)
(* fields, polls and other readers, any time-out, and a clock that is set    *)
(* back and forward any number of times.                                     *)
(*                                                                           *)
(* Proofs about Sdk: the process is a refresh loop beside other threads, and *)
(* its command server shares the connections out, one to each worker, and    *)
(* answers with values no older than the command, for any connections,       *)
(* threads, commands, fields and budgets.                                    *)
EXTENDS Sdk, SdkStatusProofs, SequenceLemmas, FiniteSetTheorems

-----------------------------------------------------------------------------
(* The refresh loop.                                                         *)

\* What the agent knows of the time: a poll that was completely published after
\* its last copy began is no older than tv_last makes it, with what the clock was
\* set back since added.  Only between the decision to update and the copy that
\* may not hold, as tv_last is new then and the copy is not.
Young ==
    ~(apc = "update" /\ ~copying[AgentThread]) =>
        \A n \in Polls : since[AgentThread] < n /\ n <= ended =>
            age[n] <= clock + back \/ clock + back >= MaxTime

\* The clock is behind where it would have got by what it was set back at most.
ClockSound ==
    /\ 0 <= clock + back
    /\ back + (MaxSets - sets) * MaxStep <= MaxSets * MaxStep

\* The polls an answer must be as new as, and where they are on the way from the
\* status into the MIB.
DueSound ==
    /\ apc \in {"boot", "update"} => \A n \in due : n <= ended
    /\ apc \in {"boot", "update"} /\ copying[AgentThread] =>
          \A n \in due : n <= since[AgentThread]
    /\ apc = "serve" => \A n \in due : n <= since[AgentThread]

\* The MIB holds the agent's last copy, and a copy is only made where one is due.
MibSound ==
    /\ mib = last[AgentThread]
    /\ apc \notin {"boot", "update"} =>
          /\ ~copying[AgentThread]
          /\ \A f \in Fields : mib[f] >= since[AgentThread]

\* The inductive invariant of the refresh.
RefreshInv ==
    /\ StatusInv /\ RefreshTypeOK
    /\ begun <= MaxPolls
    /\ \A n \in Polls : n > ended => age[n] = 0
    /\ Young /\ ClockSound /\ DueSound /\ MibSound

-----------------------------------------------------------------------------
\* Each step is one of the shared status, with the agent as a reader, or none.
LEMMA RefreshCopies ==
    ASSUME [RefreshNext]_rvars
    PROVE  [Write \/ Read]_<<writer, readers>>
<1>1. CASE Publish
    BY <1>1 DEF Publish
<1>2. CASE CopyBegin \/ CopyField \/ UpdateMib
    BY <1>2, RefreshAssumption DEF CopyBegin, CopyField, UpdateMib, Read
<1>3. CASE \/ Tick \/ SetClock \/ Signal \/ SelectReady \/ SelectInterrupted \/ LoopTop
           \/ SelectTimesOut \/ UpdatePartly \/ UpdateFully \/ Serve
    BY <1>3 DEF Tick, SetClock, Signal, SelectReady, SelectInterrupted, LoopTop,
                SelectTimesOut, UpdatePartly, UpdateFully, Serve
<1>4. CASE UNCHANGED rvars
    BY <1>4 DEF rvars
<1>5. QED
    BY <1>1, <1>2, <1>3, <1>4 DEF RefreshNext, AgentStep

\* The agent is a reader of the shared status.
THEOREM RefreshReads == RefreshSpec => StatusSpec
<1>1. RefreshInit => StatusInit
    BY DEF RefreshInit
<1>2. QED
    BY <1>1, RefreshCopies, PTL DEF RefreshSpec, StatusSpec

\* Everything holds before the first update.
LEMMA RefreshStart == RefreshInit => RefreshInv
<1> SUFFICES ASSUME RefreshInit PROVE RefreshInv
    OBVIOUS
<1> USE RefreshAssumption, StatusAssumption
<1>1. StatusInv
    BY StatusStart DEF RefreshInit
<1>2. RefreshTypeOK
    <2>1. /\ apc \in {"boot", "top", "select", "ticks", "update", "serve", "stopped"}
          /\ quit \in BOOLEAN
        BY DEF RefreshInit
    <2>2. /\ clock \in Int /\ clock <= MaxTime /\ wait \in 0 .. Timeout
          /\ back \in Nat /\ sets \in 0 .. MaxSets
        <3>1. MaxTime >= 0
            BY DEF RefreshInit
        <3>2. QED
            BY <3>1 DEF RefreshInit
    <2>3. mib \in [Fields -> Nat] /\ age \in [Polls -> 0 .. MaxTime] /\ due \subseteq Polls
        BY DEF RefreshInit
    <2>4. QED
        BY <2>1, <2>2, <2>3 DEF RefreshTypeOK
<1>3. begun <= MaxPolls /\ (\A n \in Polls : n > ended => age[n] = 0) /\ Young
    BY DEF RefreshInit, StatusInit, Young, Polls
<1>4. ClockSound
    BY DEF RefreshInit, ClockSound
<1>5. DueSound /\ MibSound
    BY DEF RefreshInit, StatusInit, DueSound, MibSound
<1>6. QED
    BY <1>1, <1>2, <1>3, <1>4, <1>5 DEF RefreshInv

\* What the steps that leave the status alone keep of it.
LEMMA RefreshTypes ==
    ASSUME RefreshInv, [RefreshNext]_rvars
    PROVE  RefreshTypeOK' /\ begun' <= MaxPolls
<1> USE RefreshAssumption, StatusAssumption DEF RefreshInv, RefreshTypeOK
<1>0. StatusTypeOK /\ WriterInv
    BY DEF StatusInv
<1>1. CASE Publish
    BY <1>0, <1>1 DEF Publish, Write, PublishBegin, PublishField, refresh, readers, StatusTypeOK
<1>2. CASE Tick
    BY <1>0, <1>2 DEF Tick, Lesser, Greater, writer, Polls
<1>3. CASE SetClock
    BY <1>0, <1>3 DEF SetClock, Lesser, writer
<1>4. CASE Signal \/ SelectReady \/ SelectInterrupted \/ LoopTop \/ SelectTimesOut \/ Serve
    BY <1>0, <1>4 DEF Signal, SelectReady, SelectInterrupted, LoopTop, SelectTimesOut, Serve, writer
<1>5. CASE UpdatePartly \/ UpdateFully
    <2>1. Overdue \subseteq Polls
        BY <1>0 DEF Overdue, Polls, StatusTypeOK, WriterInv
    <2>2. QED
        BY <1>0, <1>5, <2>1 DEF UpdatePartly, UpdateFully, TicksOver, writer
<1>6. CASE CopyBegin \/ CopyField
    BY <1>0, <1>6 DEF CopyBegin, CopyField, writer, refresh
<1>7. CASE UpdateMib
    BY <1>0, <1>7 DEF UpdateMib, writer, StatusTypeOK
<1>8. CASE UNCHANGED rvars
    BY <1>0, <1>8 DEF rvars, writer, refresh
<1>9. QED
    BY <1>1, <1>2, <1>3, <1>4, <1>5, <1>6, <1>7, <1>8 DEF RefreshNext, AgentStep

\* No more is set back than the bound has room for.
LEMMA BackBound ==
    ASSUME RefreshInv
    PROVE  back <= MaxSets * MaxStep /\ Timeout + back <= MaxTime
<1>1. (MaxSets - sets) \in Nat /\ MaxStep \in Nat /\ MaxSets \in Nat
    BY RefreshAssumption DEF RefreshInv, RefreshTypeOK
<1>2. (MaxSets - sets) * MaxStep \in Nat /\ MaxSets * MaxStep \in Nat
    BY <1>1
<1>3. back \in Int /\ back + (MaxSets - sets) * MaxStep <= MaxSets * MaxStep
    BY DEF RefreshInv, RefreshTypeOK, ClockSound
<1>4. back <= MaxSets * MaxStep
    BY <1>2, <1>3
<1>5. QED
    BY <1>2, <1>3, <1>4, RefreshAssumption

\* Time passing, and the clock set back, keep what the agent knows of the time.
LEMMA ClockKept ==
    ASSUME RefreshInv, [RefreshNext]_rvars
    PROVE  ClockSound' /\ \A n \in Polls : n > ended' => age'[n] = 0
<1> USE RefreshAssumption, StatusAssumption DEF RefreshInv, RefreshTypeOK
<1>1. CASE Publish
    BY SMTT(30), <1>1 DEF Publish, Write, PublishBegin, PublishField, refresh, ClockSound, StatusInv,
                StatusTypeOK, WriterInv, Polls
<1>2. CASE Tick
    BY <1>2 DEF Tick, Lesser, writer, ClockSound, StatusInv, StatusTypeOK, Polls
<1>3. CASE SetClock
    <2>1. PICK step \in 1 .. MaxStep :
              \/ clock' = clock - step /\ back' = back + step
              \/ clock' = Lesser(clock + step, MaxTime) /\ UNCHANGED back
        BY <1>3 DEF SetClock
    <2>2. sets' = sets + 1 /\ sets < MaxSets /\ UNCHANGED <<writer, age>>
        BY <1>3 DEF SetClock
    <2>3. (MaxSets - sets') * MaxStep = (MaxSets - sets) * MaxStep - MaxStep
        BY <2>2
    <2>4. (MaxSets - sets) * MaxStep \in Int /\ MaxSets * MaxStep \in Int
        OBVIOUS
    <2>5. back' + (MaxSets - sets') * MaxStep <= MaxSets * MaxStep
        BY <2>1, <2>3, <2>4 DEF ClockSound
    <2>6. 0 <= clock' + back'
        BY <2>1 DEF ClockSound, Lesser
    <2>7. QED
        BY <2>2, <2>5, <2>6 DEF ClockSound, writer
<1>4. CASE Signal \/ SelectReady \/ SelectInterrupted \/ LoopTop \/ SelectTimesOut \/ Serve
    BY <1>4 DEF Signal, SelectReady, SelectInterrupted, LoopTop, SelectTimesOut, Serve, writer,
                ClockSound
<1>5. CASE UpdatePartly
    BY <1>5 DEF UpdatePartly, writer, ClockSound
<1>6. CASE UpdateFully
    <2>1. (MaxSets - sets) * MaxStep <= MaxSets * MaxStep
        <3>1. MaxSets - sets \in Nat /\ sets * MaxStep \in Nat
            OBVIOUS
        <3>2. (MaxSets - sets) * MaxStep = MaxSets * MaxStep - sets * MaxStep
            OBVIOUS
        <3>3. QED
            BY <3>1, <3>2
    <2>2. QED
        BY <1>6, <2>1 DEF UpdateFully, writer, ClockSound
<1>7. CASE CopyBegin \/ CopyField
    BY <1>7 DEF CopyBegin, CopyField, writer, refresh, ClockSound
<1>8. CASE UpdateMib
    BY <1>8 DEF UpdateMib, writer, ClockSound
<1>9. CASE UNCHANGED rvars
    BY <1>9 DEF rvars, writer, refresh, ClockSound
<1>10. QED
    BY <1>1, <1>2, <1>3, <1>4, <1>5, <1>6, <1>7, <1>8, <1>9 DEF RefreshNext, AgentStep

\* A bound that a greater one takes the place of.
LEMMA Later ==
    ASSUME NEW a \in Int, NEW x \in Int, NEW y \in Int, NEW m \in Int,
           y >= x, a <= x \/ x >= m
    PROVE  a <= y \/ y >= m
OBVIOUS

\* A poll published since the copy began is as young as tv_last says.
LEMMA YoungKept ==
    ASSUME RefreshInv, [RefreshNext]_rvars
    PROVE  Young'
<1> USE DEF RefreshInv, RefreshTypeOK
<1>0. StatusTypeOK /\ WriterInv /\ since[AgentThread] \in Nat /\ MaxPolls \in Nat
    BY RefreshAssumption, StatusAssumption DEF StatusInv, StatusTypeOK
<1>t. /\ clock \in Int /\ back \in Nat /\ MaxTime \in Nat /\ age \in [Polls -> 0 .. MaxTime]
      /\ AgentThread \in Readers
    BY RefreshAssumption
<1> USE <1>t
<1>1. CASE Publish
    <2>1. UNCHANGED <<readers, refresh>> /\ ended' \in Nat /\ ended \in Nat
        BY <1>0, <1>1 DEF Publish, Write, PublishBegin, PublishField, StatusTypeOK
    <2>2. ASSUME NEW n \in Polls, n > ended
          PROVE  age[n] <= clock + back
        BY <2>1, <2>2 DEF ClockSound
    <2>3. QED
        BY <1>0, <2>1, <2>2 DEF Young, readers, refresh, Polls
<1>2. CASE Tick
    <2>1. /\ UNCHANGED <<apc, back, ended, since, copying>>
          /\ clock' = Lesser(clock + 1, MaxTime)
        BY <1>2 DEF Tick, writer, readers
    <2>2. \A n \in Polls : n <= ended => age'[n] = Lesser(age[n] + 1, MaxTime)
        BY <1>2 DEF Tick
    <2>3. \A n \in Polls : n <= ended =>
              age'[n] <= age[n] + 1 /\ age[n] \in Nat /\ age'[n] \in Nat
        BY <2>2 DEF Lesser
    <2>4. ASSUME NEW n \in Polls, n <= ended, age[n] <= clock + back \/ clock + back >= MaxTime
          PROVE  age'[n] <= clock' + back' \/ clock' + back' >= MaxTime
        <3>1. clock + 1 <= MaxTime => clock' = clock + 1
            BY <2>1 DEF Lesser
        <3>2. clock + 1 > MaxTime => clock' = MaxTime
            BY <2>1 DEF Lesser
        <3>3. age'[n] <= age[n] + 1 /\ age[n] \in Nat /\ age'[n] \in Nat /\ back' = back
            BY <2>1, <2>3, <2>4
        <3>4. QED
            BY <2>4, <3>1, <3>2, <3>3
    <2>5. QED
        BY <2>1, <2>4 DEF Young
<1>3. CASE SetClock
    <2>1. /\ UNCHANGED <<apc, ended, since, copying, age>>
          /\ clock' + back' >= clock + back \/ clock' + back' >= MaxTime
        BY <1>3 DEF SetClock, Lesser, writer, readers
    <2>2. clock' \in Int /\ back' \in Nat
        BY <1>3 DEF SetClock, Lesser
    <2>3. ASSUME NEW n \in Polls, age[n] <= clock + back \/ clock + back >= MaxTime
          PROVE  age'[n] <= clock' + back' \/ clock' + back' >= MaxTime
        <3>1. age'[n] = age[n] /\ age[n] \in Nat
            BY <2>1
        <3>2. CASE clock' + back' >= clock + back
            <4>1. clock + back \in Int /\ clock' + back' \in Int
                BY <2>2
            <4>2. QED
                BY <2>3, <3>1, <3>2, <4>1, Later
        <3>3. CASE clock' + back' >= MaxTime
            BY <3>3
        <3>4. QED
            BY <2>1, <3>2, <3>3
    <2>4. QED
        BY <2>1, <2>3 DEF Young
<1>4. CASE \/ Signal \/ SelectReady \/ SelectInterrupted \/ LoopTop \/ SelectTimesOut \/ Serve
           \/ UpdatePartly
    BY <1>4 DEF Signal, SelectReady, SelectInterrupted, LoopTop, SelectTimesOut, Serve,
                UpdatePartly, writer, readers, Young
<1>5. CASE UpdateFully
    BY <1>5 DEF UpdateFully, readers, Young, MibSound
<1>6. CASE CopyBegin
    BY <1>0, <1>6 DEF CopyBegin, SnapBegin, writer, Young, StatusTypeOK, Polls
<1>7. CASE CopyField
    BY <1>7 DEF CopyField, SnapField, writer, refresh, Young
<1>8. CASE UpdateMib
    BY <1>8 DEF UpdateMib, SnapEnd, writer, Young
<1>9. CASE UNCHANGED rvars
    BY <1>9 DEF rvars, writer, readers, refresh, Young
<1>10. QED
    BY <1>1, <1>2, <1>3, <1>4, <1>5, <1>6, <1>7, <1>8, <1>9 DEF RefreshNext, AgentStep

\* What the answers must be as new as was published before the last copy began.
LEMMA DueKept ==
    ASSUME RefreshInv, [RefreshNext]_rvars
    PROVE  DueSound'
<1> USE RefreshAssumption, StatusAssumption DEF RefreshInv, RefreshTypeOK
<1>0. StatusTypeOK /\ WriterInv /\ since[AgentThread] \in Nat
    BY DEF StatusInv, StatusTypeOK
<1>1. CASE Publish
    <2>1. UNCHANGED <<readers, refresh>> /\ ended' \in Nat /\ ended \in Nat /\ ended <= ended'
        BY <1>0, <1>1 DEF Publish, Write, PublishBegin, PublishField, StatusTypeOK, WriterInv
    <2>2. QED
        BY <2>1 DEF DueSound, readers, refresh, Polls
<1>2. CASE \/ Tick \/ SetClock \/ Signal \/ SelectReady \/ SelectInterrupted \/ LoopTop
           \/ SelectTimesOut \/ Serve
    BY <1>2 DEF Tick, SetClock, Signal, SelectReady, SelectInterrupted, LoopTop, SelectTimesOut,
                Serve, writer, readers, DueSound
<1>3. CASE UpdatePartly
    <2>1. clock >= 0 /\ clock < Timeout /\ apc = "ticks" /\ apc' = "serve" /\ UNCHANGED since
        BY <1>3 DEF UpdatePartly, TicksOver, readers
    <2>2. clock + back < MaxTime
        BY <2>1, BackBound
    <2>3. ASSUME NEW n \in Overdue
          PROVE  n <= since[AgentThread]
        <3>1. n \in Polls /\ n <= ended /\ age[n] >= Timeout + back /\ age[n] \in Nat
            BY <1>0, <2>1 DEF Overdue, StatusTypeOK, WriterInv, Polls
        <3>2. ~(age[n] <= clock + back)
            BY <2>1, <3>1
        <3>3. ~(since[AgentThread] < n)
            BY <2>1, <2>2, <3>1, <3>2 DEF Young
        <3>4. QED
            BY <1>0, <3>1, <3>3 DEF Polls
    <2>4. due' = Overdue
        BY <1>3 DEF UpdatePartly
    <2>5. QED
        BY <2>1, <2>3, <2>4 DEF DueSound
<1>4. CASE UpdateFully
    <2>1. \A n \in due' : n <= ended
        BY <1>0, <1>4 DEF UpdateFully, Overdue, StatusTypeOK
    <2>2. QED
        BY <1>4, <2>1 DEF UpdateFully, DueSound, MibSound, writer, readers
<1>5. CASE CopyBegin
    BY <1>0, <1>5 DEF CopyBegin, SnapBegin, refresh, writer, DueSound, StatusTypeOK
<1>6. CASE CopyField
    BY <1>6 DEF CopyField, SnapField, writer, refresh, DueSound
<1>7. CASE UpdateMib
    BY <1>7 DEF UpdateMib, SnapEnd, writer, DueSound, MibSound
<1>8. CASE UNCHANGED rvars
    BY <1>8 DEF rvars, writer, readers, refresh, DueSound
<1>9. QED
    BY <1>1, <1>2, <1>3, <1>4, <1>5, <1>6, <1>7, <1>8 DEF RefreshNext, AgentStep

\* The MIB is the last copy.
LEMMA MibKept ==
    ASSUME RefreshInv, [RefreshNext]_rvars
    PROVE  MibSound'
<1> USE RefreshAssumption, StatusAssumption DEF RefreshInv
<1>1. CASE Publish
    BY <1>1 DEF Publish, Write, readers, refresh, MibSound
<1>2. CASE \/ Tick \/ SetClock \/ Signal \/ SelectReady \/ SelectInterrupted \/ LoopTop
           \/ SelectTimesOut \/ Serve \/ UpdatePartly \/ UpdateFully
    BY <1>2 DEF Tick, SetClock, Signal, SelectReady, SelectInterrupted, LoopTop, SelectTimesOut,
                Serve, UpdatePartly, UpdateFully, readers, MibSound
<1>3. CASE CopyBegin \/ CopyField
    BY <1>3 DEF CopyBegin, CopyField, SnapBegin, SnapField, refresh, MibSound
<1>4. CASE UpdateMib
    <2>1. \A f \in Fields : snap[AgentThread][f] >= since[AgentThread]
        BY <1>4 DEF UpdateMib, SnapEnd, StatusInv, StatusTypeOK, SnapshotWindow
    <2>2. /\ mib' = snap[AgentThread] /\ last'[AgentThread] = snap[AgentThread]
          /\ ~copying'[AgentThread] /\ UNCHANGED since
        BY <1>4 DEF UpdateMib, SnapEnd, StatusInv, StatusTypeOK
    <2>3. QED
        BY <2>1, <2>2 DEF MibSound
<1>5. CASE UNCHANGED rvars
    BY <1>5 DEF rvars, readers, refresh, MibSound
<1>6. QED
    BY <1>1, <1>2, <1>3, <1>4, <1>5 DEF RefreshNext, AgentStep

\* Every step keeps the invariant.
LEMMA RefreshStep ==
    ASSUME RefreshInv, [RefreshNext]_rvars
    PROVE  RefreshInv'
<1>1. StatusInv'
    BY RefreshCopies, StatusStep DEF RefreshInv
<1>2. QED
    BY <1>1, RefreshTypes, ClockKept, YoungKept, DueKept, MibKept DEF RefreshInv

\* RefreshInv is an invariant of the agent's loop beside any writer and readers.
THEOREM RefreshCorrect == RefreshSpec => []RefreshInv
    BY RefreshStart, RefreshStep, PTL DEF RefreshSpec

\* What is answered is at most a second, and what the clock was set back, old.
THEOREM RefreshFresh == RefreshSpec => []MibFresh
<1>1. RefreshInv => MibFresh
    <2> SUFFICES ASSUME RefreshInv, apc = "serve", NEW f \in Fields, NEW n \in due
                 PROVE  mib[f] >= n
        BY DEF MibFresh
    <2>1. n <= since[AgentThread] /\ mib[f] >= since[AgentThread]
        BY DEF RefreshInv, DueSound, MibSound
    <2>2. n \in Nat /\ since[AgentThread] \in Nat /\ mib[f] \in Nat
        BY RefreshAssumption DEF RefreshInv, RefreshTypeOK, StatusInv, StatusTypeOK, Polls
    <2>3. QED
        BY <2>1, <2>2
<1>2. QED
    BY <1>1, RefreshCorrect, PTL

\* No value answered is older than one answered before.
THEOREM RefreshAdvances == RefreshSpec => MibAdvances
<1>1. ASSUME RefreshInv, [RefreshNext]_rvars
      PROVE  [\A f \in Fields : mib[f] <= mib'[f]]_rvars
    <2>1. CASE UpdateMib
        BY <1>1, <2>1, RefreshAssumption
        DEF UpdateMib, SnapEnd, RefreshInv, StatusInv, StatusTypeOK, SnapshotsAdvance, MibSound
    <2>2. CASE UNCHANGED mib
        BY <1>1, <2>2 DEF RefreshInv, RefreshTypeOK
    <2>3. CASE UNCHANGED rvars
        BY <2>3
    <2>4. QED
        BY <1>1, <2>1, <2>2, <2>3
        DEF RefreshNext, AgentStep, Publish, Tick, SetClock, Signal, SelectReady,
            SelectInterrupted, LoopTop, SelectTimesOut, UpdatePartly, UpdateFully, CopyBegin,
            CopyField, Serve, refresh
<1>2. QED
    BY <1>1, RefreshCorrect, PTL DEF RefreshSpec, MibAdvances

-----------------------------------------------------------------------------
(* The process as a refresh loop.                                            *)

\* Each step of the process is a step of the loop, of the serial thread or of
\* the time, or one that these do not see.
LEMMA ProcessRefreshes ==
    ASSUME [SdkNext]_sdk
    PROVE  [RefreshNext]_rvars
<1>1. CASE Serial
    BY <1>1 DEF Serial, RefreshNext, Publish, Write
<1>2. CASE Time \/ Agent \/ Woken \/ Outside
    BY <1>2 DEF Time, Agent, Woken, Outside, AgentRuns, RefreshNext
<1>3. CASE AgentSockets \/ AgentEnds \/ Peers \/ MainThread \/ \E w \in Workers : WorkerThread(w)
    BY <1>3 DEF AgentSockets, AgentEnds, Peers, MainThread, WorkerThread, ServerRuns
<1>4. CASE UNCHANGED sdk
    BY <1>4 DEF sdk
<1>5. QED
    BY <1>1, <1>2, <1>3, <1>4 DEF SdkNext

\* The process implements the refresh loop, whatever else it does.
THEOREM SdkRefreshes == SdkSpec => RefreshSpec
<1>1. SdkInit => RefreshInit
    BY DEF SdkInit
<1>2. QED
    BY <1>1, ProcessRefreshes, PTL DEF SdkSpec, RefreshSpec

\* The agent's answers are at most a second old in the process too, while the
\* command server runs beside it.
THEOREM SdkFresh == SdkSpec => []MibFresh
    BY SdkRefreshes, RefreshFresh, PTL

\* And no answer of the agent is older than one before.
THEOREM SdkAdvances == SdkSpec => MibAdvances
    BY SdkRefreshes, RefreshAdvances, PTL

-----------------------------------------------------------------------------
(* The command server.                                                       *)

Made == {w \in Workers : wpc[w] # "none"}

\* Who has a connection that was opened and not closed: the queue, main between
\* accept() and pthread_create, a worker, or nobody any more.
Queued(c)  == c \in ToSet(queue)
InMain(c)  == spc = "create" /\ c = newsock
OfWorker(c) == \E w \in Active : sock[w] = c

QueueSound ==
    /\ \A i, j \in 1 .. Len(queue) : queue[i] = queue[j] => i = j
    /\ \A c \in ToSet(queue) : link[c] \notin {"idle", "closed"} /\ ~InMain(c) /\ c \notin lost

MainSound ==
    spc = "create" => /\ link[newsock] \notin {"idle", "closed"} /\ newsock \notin lost
                      /\ \A w \in Made : sock[w] # newsock

\* Threads are made in the order of their numbers, each for a new connection.
WorkersSound ==
    /\ \E k \in 0 .. MaxWorkers : Made = 1 .. k
    /\ \A v, w \in Made : sock[v] = sock[w] => v = w
    /\ \A w \in Made : link[sock[w]] # "idle" /\ ~Queued(sock[w])
    /\ \A w \in Active : link[sock[w]] # "closed" /\ sock[w] \notin lost

LostSound == \A c \in lost : link[c] \notin {"idle", "closed"}

LostReason ==
    \A c \in lost : IF \E w \in Made : sock[w] = c THEN link[c] = "rst"
                    ELSE "thread" \in ServerFaults

Shared ==
    \A c \in Up : Queued(c) \/ InMain(c) \/ OfWorker(c) \/ c \in lost

Sharing ==
    QueueSound /\ MainSound /\ WorkersSound /\ LostSound /\ Shared /\ LostReason

\* What a worker has loaded, and a command that waits to be read.
Loaded(w) ==
    /\ asked[sock[w]] # Nothing
    /\ \A f \in Commands[asked[sock[w]]] \ todo[w] : reply[w][f] >= asof[sock[w]]

LoadSound ==
    /\ \A c \in Conns : inbox[c] \in {Nothing, Piece, asked[c]} /\ asof[c] <= ended
    /\ \A w \in Active : wpc[w] = "reply" /\ kind[w] = "value" => Loaded(w)

\* The server's inductive invariant.
ServerInv ==
    /\ ServerTypeOK /\ Sharing /\ LoadSound

\* Everything holds before the first connection.
LEMMA ServerStart == SdkInit => ServerInv
<1> SUFFICES ASSUME SdkInit PROVE ServerInv
    OBVIOUS
<1> USE ServerAssumption DEF SdkInit, ServerInit
<1>1. newsock \in Conns /\ Made = {} /\ Active = {} /\ Up = {} /\ ToSet(queue) = {}
    BY DEF Made, Active, Up, ToSet
<1>2. ServerTypeOK
    <2>1. /\ queue \in Seq(Conns) /\ held \in Nat /\ dead \in BOOLEAN /\ lost \subseteq Conns
          /\ asof \in [Conns -> Nat] /\ reply \in [Workers -> [Fields -> Nat]]
          /\ inbox \in [Conns -> DOMAIN Commands \cup {Nothing, Piece}]
          /\ asked \in [Conns -> DOMAIN Commands \cup {Nothing}]
        BY EmptySeq
    <2>2. /\ spc \in {"accept", "blocked", "create"}
          /\ link \in [Conns -> {"idle", "up", "fin", "rst", "abort", "closed"}]
          /\ wpc \in [Workers -> {"none", "new", "read", "reply", "gone"}]
          /\ sock \in [Workers -> Conns] /\ todo \in [Workers -> SUBSET Fields]
          /\ kind \in [Workers -> {"value", "echo", "empty"}]
        BY <1>1
    <2>3. QED
        BY <1>1, <2>1, <2>2 DEF ServerTypeOK
<1>3. QueueSound
    BY <1>1 DEF QueueSound
<1>4. WorkersSound
    <2>1. 0 \in 0 .. MaxWorkers /\ 1 .. 0 = {}
        OBVIOUS
    <2>2. QED
        BY <1>1, <2>1 DEF WorkersSound
<1>5. MainSound /\ LostSound /\ Shared /\ LostReason
    BY <1>1 DEF MainSound, LostSound, Shared, LostReason
<1>6. LoadSound
    BY <1>1 DEF LoadSound, Loaded, RefreshInit, StatusInit
<1>7. QED
    BY <1>2, <1>3, <1>4, <1>5, <1>6 DEF ServerInv, Sharing

\* A step of the server or of one of its peers; the status is read only.
ServerStep == (\E c \in Conns : Peer(c)) \/ Main \/ (\E w \in Workers : Worker(w))

LEMMA ServerTypes ==
    ASSUME ServerTypeOK, StatusTypeOK, ServerStep
    PROVE  ServerTypeOK'
<1> USE ServerAssumption DEF ServerTypeOK, kernel, workers
<1>1. ASSUME NEW c \in Conns, Connect(c)
      PROVE  ServerTypeOK'
    BY <1>1, AppendProperties DEF Connect
<1>2. ASSUME NEW c \in Conns, SendCommand(c) \/ SendPiece(c)
      PROVE  ServerTypeOK'
    <2>1. CASE SendPiece(c)
        BY <2>1 DEF SendPiece
    <2>2. CASE SendCommand(c)
        <3>1. PICK k \in DOMAIN Commands :
                  inbox' = [inbox EXCEPT ![c] = k] /\ asked' = [asked EXCEPT ![c] = k]
            BY <2>2 DEF SendCommand
        <3>2. inbox' \in [Conns -> DOMAIN Commands \cup {Nothing, Piece}]
              /\ asked' \in [Conns -> DOMAIN Commands \cup {Nothing}]
            BY <3>1
        <3>3. asof' \in [Conns -> Nat]
            BY <2>2 DEF SendCommand, StatusTypeOK
        <3>4. QED
            BY <2>2, <3>2, <3>3 DEF SendCommand
    <2>3. QED
        BY <1>2, <2>1, <2>2
<1>3. ASSUME NEW c \in Conns, Finish(c) \/ Reset(c)
      PROVE  ServerTypeOK'
    BY <1>3 DEF Finish, Reset
<1>4. CASE AcceptCall \/ AcceptFails \/ CreateFails
    BY <1>4 DEF AcceptCall, AcceptFails, CreateFails
<1>5. CASE AcceptReturns
    BY <1>5, TailEntries DEF AcceptReturns
<1>6. CASE CreateWorker
    BY <1>6 DEF CreateWorker
<1>7. ASSUME NEW w \in Workers, WorkerStart(w) \/ WorkerReadFails(w) \/ WorkerWriteFails(w)
      PROVE  ServerTypeOK'
    <2>1. CASE WorkerStart(w)
        BY <2>1 DEF WorkerStart
    <2>2. CASE WorkerReadFails(w)
        BY <2>2 DEF WorkerReadFails
    <2>3. CASE WorkerWriteFails(w)
        BY <2>3 DEF WorkerWriteFails
    <2>4. QED
        BY <1>7, <2>1, <2>2, <2>3
<1>8. ASSUME NEW w \in Workers, WorkerRead(w)
      PROVE  ServerTypeOK'
    <2>1. Buffer(inbox[sock[w]]) \in {"value", "echo", "empty"}
          /\ (Buffer(inbox[sock[w]]) = "value" => inbox[sock[w]] \in DOMAIN Commands)
        BY DEF Buffer, Nothing, Piece
    <2>2. QED
        BY <1>8, <2>1 DEF WorkerRead
<1>9. ASSUME NEW w \in Workers, WorkerLoad(w)
      PROVE  ServerTypeOK'
    <2>1. reply' \in [Workers -> [Fields -> Nat]] /\ todo' \in [Workers -> SUBSET Fields]
        BY <1>9 DEF WorkerLoad, StatusTypeOK
    <2>2. QED
        BY <1>9, <2>1 DEF WorkerLoad
<1>10. ASSUME NEW w \in Workers, WorkerWrites(w) \/ WorkerKilled(w)
       PROVE  ServerTypeOK'
    <2>1. CASE WorkerWrites(w)
        BY <2>1 DEF WorkerWrites
    <2>2. CASE WorkerKilled(w)
        BY <2>2 DEF WorkerKilled
    <2>3. QED
        BY <1>10, <2>1, <2>2
<1>11. QED
    BY <1>1, <1>2, <1>3, <1>4, <1>5, <1>6, <1>7, <1>8, <1>9, <1>10
    DEF ServerStep, Peer, Main, Worker

-----------------------------------------------------------------------------
(* Who has which connection.                                                 *)

\* Steps that leave every connection where it is.
LEMMA NobodyTakes ==
    ASSUME Sharing, UNCHANGED <<newsock, queue, sock, lost>>,
           Made' = Made, Active' = Active, spc' = "create" <=> spc = "create",
           \A c \in Conns : /\ link'[c] = "idle" <=> link[c] = "idle"
                            /\ link'[c] = "closed" <=> link[c] = "closed"
                            /\ link[c] = "rst" => link'[c] = "rst",
           ServerTypeOK
    PROVE  Sharing'
<1> USE DEF ServerTypeOK
<1>2. ToSet(queue) \subseteq Conns /\ Up' = Up /\ Made \subseteq Workers /\ Active \subseteq Workers
    BY DEF ToSet, Up, Made, Active
<1>3. QueueSound'
    BY <1>2 DEF Sharing, QueueSound, InMain
<1>4. MainSound' /\ LostSound' /\ WorkersSound'
    BY <1>2 DEF Sharing, MainSound, LostSound, WorkersSound, Queued
<1>5. Shared'
    BY <1>2 DEF Sharing, Shared, Queued, InMain, OfWorker
<1>6. LostReason'
    BY DEF Sharing, LostReason
<1>7. QED
    BY <1>3, <1>4, <1>5, <1>6 DEF Sharing

\* A new connection goes to the end of the queue.
LEMMA ConnectShares ==
    ASSUME NEW c \in Conns, ServerTypeOK, Sharing, Connect(c)
    PROVE  Sharing'
<1> USE DEF ServerTypeOK, Connect, workers
<1>1. /\ queue \in Seq(Conns) /\ queue' = Append(queue, c) /\ link[c] = "idle"
      /\ \A d \in Conns : link'[d] = IF d = c THEN "up" ELSE link[d]
    OBVIOUS
<1>2. ToSet(queue') = ToSet(queue) \cup {c} /\ ToSet(queue) \subseteq Conns
    BY <1>1, SetOfAppend, SetOfEntries
<1>3. c \notin ToSet(queue) /\ c \notin lost /\ ~InMain(c) /\ (\A w \in Made : sock[w] # c)
    BY <1>1 DEF Sharing, QueueSound, LostSound, MainSound, WorkersSound, InMain
<1>4. Made' = Made /\ Active' = Active /\ Up' = Up \cup {c}
      /\ Made \subseteq Workers /\ Active \subseteq Workers
    BY <1>1 DEF Made, Active, Up
<1>5. QueueSound'
    <2>1. /\ Len(queue') = Len(queue) + 1 /\ Len(queue) \in Nat
          /\ \A i \in 1 .. Len(queue) : queue'[i] = queue[i] /\ queue[i] \in ToSet(queue)
          /\ queue'[Len(queue) + 1] = c
        BY <1>1, AppendProperties, LenProperties DEF ToSet
    <2>2. \A i \in 1 .. Len(queue) : queue'[i] # c
        BY <1>3, <2>1
    <2>3. \A i, j \in 1 .. Len(queue') : queue'[i] = queue'[j] => i = j
        BY <2>1, <2>2 DEF Sharing, QueueSound
    <2>4. QED
        BY <1>1, <1>2, <1>3, <2>3 DEF Sharing, QueueSound, InMain
<1>6. MainSound' /\ LostSound'
    BY <1>1, <1>2, <1>3, <1>4 DEF Sharing, MainSound, LostSound, QueueSound, InMain
<1>7. WorkersSound'
    BY <1>1, <1>2, <1>3, <1>4 DEF Sharing, WorkersSound, Queued
<1>8. Shared'
    BY <1>1, <1>2, <1>3, <1>4 DEF Sharing, Shared, Queued, InMain, OfWorker
<1>9. LostReason'
    BY <1>1, <1>3, <1>4 DEF Sharing, LostReason
<1>10. QED
    BY <1>5, <1>6, <1>7, <1>8, <1>9 DEF Sharing

\* accept() takes the first of the queue into main.
LEMMA AcceptShares ==
    ASSUME ServerTypeOK, Sharing, AcceptReturns
    PROVE  Sharing'
<1> USE DEF ServerTypeOK, AcceptReturns, workers
<1>1. /\ queue \in Seq(Conns) /\ queue # <<>> /\ queue' = Tail(queue) /\ newsock' = Head(queue)
      /\ \A i, j \in 1 .. Len(queue) : i # j => queue[i] # queue[j]
    BY DEF Sharing, QueueSound
<1>2. /\ ToSet(queue') = ToSet(queue) \ {newsock'} /\ newsock' \in ToSet(queue)
      /\ \A i, j \in 1 .. Len(queue') : i # j => queue'[i] # queue'[j]
      /\ ToSet(queue) \subseteq Conns
    <2>1. ToSet(Tail(queue)) = ToSet(queue) \ {Head(queue)}
          /\ \A i, j \in 1 .. Len(Tail(queue)) : i # j => Tail(queue)[i] # Tail(queue)[j]
        BY <1>1, SetOfTail
    <2>2. Head(queue) = queue[1] /\ 1 \in DOMAIN queue
        BY <1>1, TailEntries, LenProperties
    <2>3. Head(queue) \in ToSet(queue)
        BY <2>2 DEF ToSet
    <2>4. ToSet(queue) \subseteq Conns
        BY <1>1, SetOfEntries
    <2>5. QED
        BY <1>1, <2>1, <2>3, <2>4
<1>3. Made' = Made /\ Active' = Active /\ Up' = Up
      /\ Made \subseteq Workers /\ Active \subseteq Workers
    BY DEF Made, Active, Up
<1>4. link[newsock'] \notin {"idle", "closed"} /\ newsock' \notin lost
      /\ \A w \in Made : sock[w] # newsock'
    BY <1>2 DEF Sharing, QueueSound, WorkersSound, Queued
<1>5. QueueSound'
    BY <1>2 DEF Sharing, QueueSound, InMain
<1>6. MainSound' /\ LostSound' /\ WorkersSound'
    BY <1>2, <1>3, <1>4 DEF Sharing, MainSound, LostSound, WorkersSound, Queued
<1>7. Shared'
    BY <1>2, <1>3 DEF Sharing, Shared, Queued, InMain, OfWorker
<1>8. LostReason'
    BY <1>3 DEF Sharing, LostReason
<1>9. QED
    BY <1>5, <1>6, <1>7, <1>8 DEF Sharing

\* The next thread gets the connection main has just accepted.
LEMMA CreateShares ==
    ASSUME ServerTypeOK, Sharing, CreateWorker
    PROVE  Sharing'
<1> USE DEF ServerTypeOK
<1> DEFINE n == Cardinality({v \in Workers : wpc[v] # "none"}) + 1
<1>1. /\ spc = "create" /\ spc' = "accept" /\ n \in Workers
      /\ wpc' = [wpc EXCEPT ![n] = "new"] /\ sock' = [sock EXCEPT ![n] = newsock]
      /\ UNCHANGED <<newsock, queue, link, lost>>
    BY DEF CreateWorker, kernel
<1>2. PICK k \in 0 .. MaxWorkers : Made = 1 .. k
    BY DEF Sharing, WorkersSound
<1>3. n = k + 1
    <2>1. n = Cardinality(1 .. k) + 1
        BY <1>2 DEF Made
    <2>2. Cardinality(1 .. k) = k
        BY FS_Interval
    <2>3. QED
        BY <2>1, <2>2
<1> HIDE DEF n
<1>4. n \in Workers /\ n \notin Made /\ Made' = Made \cup {n} /\ Active' = Active \cup {n}
    BY <1>1, <1>2, <1>3 DEF Made, Active
<1>5. Made' = 1 .. k + 1 /\ k + 1 \in 0 .. MaxWorkers
    BY <1>1, <1>2, <1>3, <1>4, ServerAssumption DEF Workers
<1>6. \A w \in Workers : sock'[w] = IF w = n THEN newsock ELSE sock[w]
    BY <1>1
<1>7. Made \subseteq Workers /\ Active \subseteq Made /\ Up' = Up
    BY <1>1 DEF Made, Active, Up
<1>8. QueueSound'
    BY <1>1 DEF Sharing, QueueSound, InMain
<1>9. MainSound' /\ LostSound'
    BY <1>1 DEF Sharing, MainSound, LostSound
<1>10. WorkersSound'
    <2>1. newsock \notin ToSet(queue)
        BY <1>1 DEF Sharing, QueueSound, InMain
    <2>2. \A v, w \in Made' : sock'[v] = sock'[w] => v = w
        BY <1>1, <1>4, <1>6, <1>7 DEF Sharing, WorkersSound, MainSound
    <2>3. \A w \in Made' : link'[sock'[w]] # "idle" /\ ~Queued(sock[w])'
        BY <1>1, <1>4, <1>6, <1>7, <2>1 DEF Sharing, WorkersSound, MainSound, Queued
    <2>4. \A w \in Active' : link'[sock'[w]] # "closed" /\ sock'[w] \notin lost'
        BY <1>1, <1>4, <1>6, <1>7 DEF Sharing, WorkersSound, MainSound
    <2>5. QED
        BY <1>5, <2>2, <2>3, <2>4 DEF WorkersSound
<1>11. Shared'
    BY <1>1, <1>4, <1>6, <1>7 DEF Sharing, Shared, Queued, InMain, OfWorker
<1>12. LostReason'
    BY <1>1, <1>4, <1>6, <1>7 DEF Sharing, LostReason, MainSound
<1>13. QED
    BY <1>8, <1>9, <1>10, <1>11, <1>12 DEF Sharing

\* A connection no thread could be made for.
LEMMA CreateLoses ==
    ASSUME ServerTypeOK, Sharing, CreateFails
    PROVE  Sharing'
<1> USE DEF ServerTypeOK, CreateFails, kernel, workers
<1>1. Made' = Made /\ Active' = Active /\ Up' = Up
      /\ Made \subseteq Workers /\ Active \subseteq Made
    BY DEF Made, Active, Up
<1>2. QueueSound' /\ MainSound' /\ LostSound'
    BY DEF Sharing, QueueSound, MainSound, LostSound, InMain
<1>3. WorkersSound'
    BY <1>1 DEF Sharing, WorkersSound, MainSound, Queued
<1>4. Shared'
    BY <1>1 DEF Sharing, Shared, Queued, InMain, OfWorker
<1>5. LostReason'
    BY <1>1 DEF Sharing, LostReason, MainSound
<1>6. QED
    BY <1>2, <1>3, <1>4, <1>5 DEF Sharing

\* A worker ends, and leaves its connection closed or, if it was reset, lost.
LEMMA WorkerShares ==
    ASSUME NEW w \in Workers, ServerTypeOK, Sharing, w \in Active,
           wpc' = [wpc EXCEPT ![w] = "gone"], UNCHANGED <<spc, newsock, queue, sock>>,
           \/ UNCHANGED link /\ link[sock[w]] = "rst" /\ lost' = lost \cup {sock[w]}
           \/ UNCHANGED lost /\ link' = [link EXCEPT ![sock[w]] = "closed"]
    PROVE  Sharing'
<1> USE DEF ServerTypeOK
<1>1. /\ Made' = Made /\ Active' = Active \ {w} /\ w \in Made
      /\ Made \subseteq Workers /\ Active \subseteq Made
    BY DEF Made, Active
<1>2. \A c \in Conns : link'[c] # "idle" <=> link[c] # "idle"
    BY <1>1 DEF Sharing, WorkersSound
<1>3. \A c \in Conns : c # sock[w] => link'[c] = link[c] /\ (c \in lost' <=> c \in lost)
    OBVIOUS
<1>4. ~Queued(sock[w]) /\ ~InMain(sock[w]) /\ sock[w] \in Conns /\ ToSet(queue) \subseteq Conns
    BY <1>1 DEF Sharing, WorkersSound, MainSound, InMain, ToSet
<1>5. QueueSound'
    BY <1>3, <1>4 DEF Sharing, QueueSound, InMain, Queued
<1>6. MainSound'
    BY <1>1, <1>3, <1>4 DEF Sharing, MainSound, InMain
<1>7. WorkersSound'
    BY <1>1, <1>2, <1>3 DEF Sharing, WorkersSound, Queued
<1>8. LostSound'
    BY <1>1, <1>2 DEF Sharing, LostSound, WorkersSound
<1>9. Shared'
    BY <1>1, <1>3 DEF Sharing, Shared, Queued, InMain, OfWorker, Up
<1>10. LostReason'
    <2>1. sock[w] \notin lost
        BY DEF Sharing, WorkersSound
    <2>2. ASSUME NEW c \in lost', c # sock[w]
          PROVE  IF \E v \in Made' : sock'[v] = c THEN link'[c] = "rst"
                 ELSE "thread" \in ServerFaults
        <3>1. c \in lost /\ link'[c] = link[c]
            BY <1>3, <2>2
        <3>2. QED
            BY <1>1, <3>1 DEF Sharing, LostReason
    <2>3. sock[w] \in lost' => link'[sock[w]] = "rst"
        BY <2>1
    <2>4. QED
        BY <1>1, <2>2, <2>3 DEF LostReason
<1>11. QED
    BY <1>5, <1>6, <1>7, <1>8, <1>9, <1>10 DEF Sharing

\* Every step of the server keeps the connections shared out.
LEMMA ServerShares ==
    ASSUME ServerTypeOK, Sharing, ServerStep
    PROVE  Sharing'
<1> USE DEF ServerTypeOK
<1>1. ASSUME NEW c \in Conns, Peer(c)
      PROVE  Sharing'
    <2>1. CASE Connect(c)
        BY <2>1, ConnectShares
    <2>2. CASE SendCommand(c) \/ SendPiece(c) \/ Finish(c) \/ Reset(c)
        BY <2>2, NobodyTakes
        DEF SendCommand, SendPiece, Finish, Reset, workers, Made, Active
    <2>3. QED
        BY <1>1, <2>1, <2>2 DEF Peer
<1>2. CASE AcceptCall \/ AcceptFails
    BY <1>2, NobodyTakes DEF AcceptCall, AcceptFails, kernel, workers, Made, Active
<1>3. CASE AcceptReturns \/ CreateWorker \/ CreateFails
    BY <1>3, AcceptShares, CreateShares, CreateLoses
<1>4. ASSUME NEW w \in Workers, WorkerStart(w) \/ WorkerRead(w) \/ WorkerLoad(w) \/ WorkerKilled(w)
      PROVE  Sharing'
    <2>1. Made' = Made /\ Active' = Active
        BY <1>4 DEF WorkerStart, WorkerRead, WorkerLoad, WorkerKilled, workers, Made, Active
    <2>2. UNCHANGED <<spc, newsock, queue, link, sock, lost>>
        BY <1>4 DEF WorkerStart, WorkerRead, WorkerLoad, WorkerKilled, workers, kernel
    <2>3. QED
        BY <2>1, <2>2, NobodyTakes
<1>5. ASSUME NEW w \in Workers, WorkerReadFails(w) \/ WorkerWrites(w) \/ WorkerWriteFails(w)
      PROVE  Sharing'
    BY <1>5, WorkerShares
    DEF WorkerReadFails, WorkerWrites, WorkerWriteFails, ReadError, Ready, kernel, Active
<1>6. QED
    BY <1>1, <1>2, <1>3, <1>4, <1>5 DEF ServerStep, Main, Worker

-----------------------------------------------------------------------------
(* What the workers answer.                                                  *)

\* A worker's loads come after its command, and each finds a poll at least as
\* new as the last one completed.
LEMMA LoadsRecent ==
    ASSUME ServerTypeOK, LoadSound, StatusTypeOK, WriterInv, ServerStep, UNCHANGED ended
    PROVE  LoadSound'
<1> USE ServerAssumption DEF ServerTypeOK, kernel, workers
<1>0. Active \subseteq Workers /\ ended \in Nat
    BY DEF Active, StatusTypeOK
<1>1. ASSUME NEW c \in Conns, Peer(c)
      PROVE  LoadSound'
    <2>0. Active' = Active
        BY <1>1 DEF Peer, Connect, SendCommand, SendPiece, Finish, Reset, Active
    <2>1. CASE Connect(c) \/ Finish(c) \/ Reset(c)
        <3>1. UNCHANGED <<inbox, asked, asof, workers>>
            BY <2>1 DEF Connect, Finish, Reset
        <3>2. QED
            BY <2>0, <3>1 DEF LoadSound, Loaded
    <2>2. CASE SendPiece(c)
        BY <2>0, <2>2 DEF SendPiece, LoadSound, Loaded
    <2>3. CASE SendCommand(c)
        <3>1. PICK k \in DOMAIN Commands :
                  inbox' = [inbox EXCEPT ![c] = k] /\ asked' = [asked EXCEPT ![c] = k]
            BY <2>3 DEF SendCommand
        <3>2. asked[c] = Nothing /\ asof' = [asof EXCEPT ![c] = ended] /\ UNCHANGED workers
            BY <2>3 DEF SendCommand
        <3>3. \A d \in Conns : inbox'[d] \in {Nothing, Piece, asked'[d]} /\ asof'[d] <= ended'
            BY <1>0, <3>1, <3>2 DEF LoadSound, Loaded
        <3>4. \A w \in Active : wpc[w] = "reply" /\ kind[w] = "value" =>
                  sock[w] # c /\ sock[w] \in Conns
            BY <1>0, <3>2 DEF LoadSound, Loaded
        <3>5. ASSUME NEW w \in Active', wpc'[w] = "reply", kind'[w] = "value"
              PROVE  Loaded(w)'
            <4>1. Loaded(w) /\ sock[w] # c /\ sock[w] \in Conns
                BY <2>0, <3>2, <3>4, <3>5 DEF LoadSound
            <4>2. asked'[sock'[w]] = asked[sock[w]] /\ asof'[sock'[w]] = asof[sock[w]]
                BY <3>1, <3>2, <4>1
            <4>3. QED
                BY <3>2, <4>1, <4>2 DEF Loaded
        <3>6. QED
            BY <3>3, <3>5 DEF LoadSound
    <2>4. QED
        BY <1>1, <2>1, <2>2, <2>3 DEF Peer
<1>2. CASE AcceptCall \/ AcceptFails \/ AcceptReturns \/ CreateFails
    BY <1>2 DEF AcceptCall, AcceptFails, AcceptReturns, CreateFails, LoadSound, Loaded, Active
<1>3. CASE CreateWorker
    <2>1. PICK n \in Workers : wpc' = [wpc EXCEPT ![n] = "new"] /\ sock' = [sock EXCEPT ![n] = newsock]
        BY <1>3 DEF CreateWorker
    <2>2. \A w \in Active' : wpc'[w] = "reply" =>
              w \in Active /\ wpc[w] = "reply" /\ sock'[w] = sock[w]
        BY <2>1 DEF Active
    <2>3. QED
        <3>1. UNCHANGED <<kernel, todo, kind, reply>>
            BY <1>3 DEF CreateWorker
        <3>2. ASSUME NEW w \in Active', wpc'[w] = "reply", kind'[w] = "value"
              PROVE  Loaded(w)'
            BY <2>2, <3>1, <3>2 DEF LoadSound, Loaded
        <3>3. QED
            BY <3>1, <3>2 DEF LoadSound
<1>4. ASSUME NEW w \in Workers, Worker(w)
      PROVE  LoadSound'
    <2>1. CASE WorkerStart(w) \/ WorkerReadFails(w) \/ WorkerWriteFails(w) \/ WorkerWrites(w)
        <3>1. \A v \in Active' : wpc'[v] = "reply" => v \in Active /\ wpc[v] = "reply"
            BY <2>1 DEF WorkerStart, WorkerReadFails, WorkerWriteFails, WorkerWrites, Active
        <3>2. UNCHANGED <<inbox, asked, asof, sock, reply, todo, kind>>
            BY <2>1 DEF WorkerStart, WorkerReadFails, WorkerWriteFails, WorkerWrites
        <3>3. \A c \in Conns : inbox'[c] \in {Nothing, Piece, asked'[c]} /\ asof'[c] <= ended'
            BY <3>2 DEF LoadSound
        <3>4. ASSUME NEW v \in Active', wpc'[v] = "reply", kind'[v] = "value"
              PROVE  Loaded(v)'
            <4>1. v \in Active /\ wpc[v] = "reply" /\ kind[v] = "value"
                BY <3>1, <3>2, <3>4
            <4>2. QED
                BY <3>2, <4>1 DEF LoadSound, Loaded
        <3>5. QED
            BY <3>3, <3>4 DEF LoadSound
    <2>2. CASE WorkerKilled(w)
        BY <2>2 DEF WorkerKilled, LoadSound, Loaded, Active
    <2>3. CASE WorkerRead(w)
        <3>1. /\ sock[w] \in Conns /\ inbox' = [inbox EXCEPT ![sock[w]] = Nothing]
              /\ kind' = [kind EXCEPT ![w] = Buffer(inbox[sock[w]])]
              /\ todo' = [todo EXCEPT ![w] = IF Buffer(inbox[sock[w]]) = "value"
                                             THEN Commands[inbox[sock[w]]] ELSE {}]
              /\ UNCHANGED <<asked, asof, sock, reply>>
            BY <2>3 DEF WorkerRead
        <3>2. \A v \in Active' : v # w => v \in Active /\ wpc'[v] = wpc[v]
            BY <2>3 DEF WorkerRead, Active
        <3>3. Buffer(inbox[sock[w]]) = "value" =>
                  /\ inbox[sock[w]] = asked[sock[w]] /\ asked[sock[w]] # Nothing
                  /\ todo'[w] = Commands[asked[sock[w]]]
            BY <3>1 DEF Buffer, LoadSound, Nothing, Piece
        <3>4. \A c \in Conns : inbox'[c] \in {Nothing, Piece, asked'[c]} /\ asof'[c] <= ended'
            BY <3>1 DEF LoadSound, Loaded
        <3>5. ASSUME NEW v \in Active', wpc'[v] = "reply", kind'[v] = "value"
              PROVE  Loaded(v)'
            <4>1. CASE v = w
                BY <3>1, <3>3, <3>5, <4>1 DEF Loaded
            <4>2. CASE v # w
                <5>1. v \in Active /\ wpc[v] = "reply" /\ kind[v] = "value" /\ v \in Workers
                    BY <3>1, <3>2, <3>5, <4>2 DEF Active
                <5>2. Loaded(v)
                    BY <5>1 DEF LoadSound
                <5>3. QED
                    BY <3>1, <4>2, <5>1, <5>2 DEF Loaded
            <4>3. QED
                BY <4>1, <4>2
        <3>6. QED
            BY <3>4, <3>5 DEF LoadSound, Loaded
    <2>4. CASE WorkerLoad(w)
        <3>1. PICK f \in todo[w] : /\ reply' = [reply EXCEPT ![w][f] = status[f]]
                                   /\ todo' = [todo EXCEPT ![w] = @ \ {f}]
            BY <2>4 DEF WorkerLoad
        <3>2. UNCHANGED <<kernel, wpc, sock, kind>> /\ Active' = Active
            BY <2>4 DEF WorkerLoad, Active
        <3>3. f \in Fields /\ status[f] >= ended /\ status[f] \in Nat
            <4>1. f \in Fields
                BY <3>1
            <4>2. QED
                BY <1>0, <4>1, StatusRange DEF StatusTypeOK
        <3>4. \A v \in Workers, g \in Fields :
                  reply'[v][g] = IF v = w /\ g = f THEN status[f] ELSE reply[v][g]
            BY <3>1, <3>3
        <3>5. \A v \in Workers : asof[sock[v]] <= ended /\ asof[sock[v]] \in Nat
            BY DEF LoadSound, Loaded
        <3>6. ASSUME NEW v \in Active', wpc'[v] = "reply", kind'[v] = "value",
                     NEW g \in Commands[asked'[sock'[v]]] \ todo'[v]
              PROVE  reply'[v][g] >= asof'[sock'[v]]
            <4>1. v \in Workers /\ asked[sock[v]] \in DOMAIN Commands /\ g \in Fields
                BY <1>0, <3>2, <3>6 DEF LoadSound, Loaded
            <4>2. CASE v = w /\ g = f
                BY <1>0, <3>2, <3>3, <3>4, <3>5, <4>1, <4>2
            <4>3. CASE ~(v = w /\ g = f)
                <5>1. g \notin todo[v]
                    BY <3>1, <3>6, <4>1, <4>3
                <5>2. reply[v][g] >= asof[sock[v]]
                    BY <3>2, <3>6, <5>1 DEF LoadSound, Loaded
                <5>3. reply'[v][g] = reply[v][g]
                    BY <3>4, <4>1, <4>3
                <5>4. QED
                    BY <3>2, <5>2, <5>3
            <4>4. QED
                BY <4>2, <4>3
        <3>7. QED
            BY <3>2, <3>6 DEF LoadSound, Loaded
    <2>5. QED
        BY <1>4, <2>1, <2>2, <2>3, <2>4 DEF Worker
<1>5. QED
    BY <1>1, <1>2, <1>3, <1>4 DEF ServerStep, Main

-----------------------------------------------------------------------------
(* The process.                                                              *)

SdkInv == RefreshInv /\ ServerInv /\ budget \in Budgets

\* What the other threads do, and the agent's descriptors, the server sees only
\* as polls that are published.
LEMMA OthersRun ==
    ASSUME ServerInv, UNCHANGED <<spc, newsock, kernel, workers, lost>>,
           ended \in Nat, ended' \in Nat, ended <= ended', held' \in Nat, dead' \in BOOLEAN
    PROVE  ServerInv'
<1> USE DEF ServerInv, kernel, workers
<1>1. ServerTypeOK'
    BY DEF ServerTypeOK
<1>2. Sharing'
    BY NobodyTakes DEF Made, Active
<1>3. LoadSound'
    BY DEF LoadSound, Loaded, Active, ServerTypeOK
<1>4. QED
    BY <1>1, <1>2, <1>3

LEMMA ProcessStep ==
    ASSUME SdkInv, [SdkNext]_sdk
    PROVE  SdkInv'
<1>1. RefreshInv'
    BY ProcessRefreshes, RefreshStep DEF SdkInv
<1>0. /\ StatusTypeOK /\ WriterInv /\ ServerTypeOK /\ ended \in Nat /\ ended' \in Nat
      /\ held \in Nat /\ dead \in BOOLEAN
    BY <1>1 DEF SdkInv, RefreshInv, StatusInv, StatusTypeOK, ServerInv, ServerTypeOK
<1>2. ended <= ended'
    <2>1. CASE Publish
        BY <1>0, <2>1 DEF Publish, Write, PublishBegin, PublishField, WriterInv, StatusTypeOK
    <2>2. CASE UNCHANGED ended
        BY <1>0, <2>2
    <2>3. Publish \/ UNCHANGED ended
        BY ProcessRefreshes
        DEF RefreshNext, rvars, writer, Tick, SetClock, Signal, SelectReady, SelectInterrupted,
            AgentStep, LoopTop, SelectTimesOut, UpdatePartly, UpdateFully, CopyBegin, CopyField,
            UpdateMib, Serve
    <2>4. QED
        BY <2>1, <2>2, <2>3
<1>b. budget' \in Budgets
    BY DEF SdkInv, SdkNext, Serial, Time, Agent, Woken, Outside, AgentRuns, AgentSockets, AgentEnds,
           Peers, MainThread, WorkerThread, ServerRuns, sdk
<1>3. CASE Serial \/ Time \/ Agent \/ Woken \/ Outside \/ UNCHANGED sdk
    <2>1. UNCHANGED server
        BY <1>3 DEF Serial, Time, Agent, Woken, Outside, AgentRuns, sdk
    <2>2. QED
        BY <1>0, <1>1, <1>2, <1>b, <2>1, OthersRun DEF SdkInv, server
<1>4. CASE AgentSockets \/ AgentEnds
    <2>1. UNCHANGED <<spc, newsock, kernel, workers, lost>> /\ held' \in Nat /\ dead' \in BOOLEAN
        <3>1. UNCHANGED <<spc, newsock, kernel, workers, lost>>
            BY <1>4 DEF AgentSockets, AgentEnds
        <3>2. held' \in Nat
            BY <1>0, <1>4 DEF AgentSockets, AgentEnds
        <3>3. dead' \in BOOLEAN
            BY <1>0, <1>4 DEF AgentSockets, AgentEnds
        <3>4. QED
            BY <3>1, <3>2, <3>3
    <2>2. QED
        BY <1>0, <1>1, <1>2, <1>b, <2>1, OthersRun DEF SdkInv
<1>5. CASE Peers \/ MainThread \/ \E w \in Workers : WorkerThread(w)
    <2>1. ServerStep /\ UNCHANGED ended
        <3>1. ServerStep
            <4>1. budget.conns \subseteq Conns
                BY BudgetsAssumption DEF SdkInv
            <4>2. QED
                BY <1>5, <4>1 DEF Peers, MainThread, WorkerThread, ServerRuns, ServerStep
        <3>2. QED
            BY <1>5, <3>1 DEF Peers, MainThread, WorkerThread, ServerRuns, rvars, writer
    <2>2. QED
        BY <1>0, <1>1, <1>b, <2>1, ServerTypes, ServerShares, LoadsRecent DEF SdkInv, ServerInv
<1>6. QED
    BY <1>3, <1>4, <1>5 DEF SdkNext

\* SdkInv is an invariant of the process.
THEOREM SdkCorrect == SdkSpec => []SdkInv
<1>1. SdkInit => SdkInv
    BY RefreshStart, ServerStart DEF SdkInit, SdkInv
<1>2. QED
    BY <1>1, ProcessStep, PTL DEF SdkSpec

\* The type invariant.
THEOREM SdkTypes == SdkSpec => []SdkTypeOK
<1>1. SdkInv => SdkTypeOK
    BY DEF SdkInv, RefreshInv, StatusInv, ServerInv, SdkTypeOK
<1>2. QED
    BY <1>1, SdkCorrect, PTL

\* Each accepted connection has one worker, or is in main's hands, or is lost.
THEOREM SdkServed == SdkSpec => []ServedOnce
<1>1. SdkInv => ServedOnce
    <2> SUFFICES ASSUME SdkInv PROVE ServedOnce
        OBVIOUS
    <2> USE DEF SdkInv, ServerInv, Sharing
    <2>0. Active \subseteq Made /\ Made \subseteq Workers
        BY DEF Active, Made
    <2>1. ASSUME NEW c \in Accepted \ lost
          PROVE  Cardinality({w \in Active : sock[w] = c}) =
                     IF spc = "create" /\ c = newsock THEN 0 ELSE 1
        <3>1. CASE InMain(c)
            <4>1. {w \in Active : sock[w] = c} = {}
                BY <2>0, <3>1 DEF InMain, MainSound
            <4>2. QED
                BY <3>1, <4>1, FS_EmptySet DEF InMain
        <3>2. CASE ~InMain(c)
            <4>1. PICK w \in Active : sock[w] = c
                BY <3>2 DEF Shared, Accepted, Queued, OfWorker
            <4>2. {v \in Active : sock[v] = c} = {w}
                BY <2>0, <4>1 DEF WorkersSound
            <4>3. QED
                BY <3>2, <4>2, FS_Singleton DEF InMain
        <3>3. QED
            BY <3>1, <3>2
    <2>2. ASSUME NEW w \in Active
          PROVE  sock[w] \in Accepted \ lost
        BY <2>0 DEF WorkersSound, Queued, Accepted, Up, ServerTypeOK
    <2>3. QED
        BY <2>1, <2>2 DEF ServedOnce
<1>2. QED
    BY <1>1, SdkCorrect, PTL

\* The descriptors nobody closes are accepted connections', still open: those a
\* thread gave up after their peer's reset and, where pthread_create() may fail,
\* those no thread was made for (server.c:46, :90 and :162).
THEOREM SdkLoses == SdkSpec => []LostForCause
<1>1. SdkInv => LostForCause
    <2> SUFFICES ASSUME SdkInv, NEW c \in lost
                 PROVE  /\ c \in Accepted
                        /\ IF \E w \in Workers : wpc[w] # "none" /\ sock[w] = c
                           THEN link[c] = "rst" ELSE "thread" \in ServerFaults
        BY DEF LostForCause
    <2> USE DEF SdkInv, ServerInv, Sharing
    <2>1. c \in Conns /\ link[c] \notin {"idle", "closed"} /\ c \notin ToSet(queue)
        BY DEF ServerTypeOK, LostSound, QueueSound
    <2>2. c \in Accepted
        BY <2>1 DEF Accepted, Up
    <2>3. QED
        BY <2>2 DEF LostReason, Made
<1>2. QED
    BY <1>1, SdkCorrect, PTL

\* A command's answer is as new as what was published when it was sent.
THEOREM SdkReplies == SdkSpec => []ReplyRecent
<1>1. SdkInv => ReplyRecent
    BY DEF SdkInv, ServerInv, LoadSound, Loaded, ReplyRecent, Ready
<1>2. QED
    BY <1>1, SdkCorrect, PTL
=============================================================================
