-------------------------- MODULE SerialPollProofs -------------------------
(* Proofs about SerialPoll: the serial thread publishes as SdkStatus says it *)
(* does, so what holds of its readers holds of those of the serial thread.   *)
EXTENDS SerialPoll, SdkStatusProofs

\* Each step of the serial thread, the unit and the copying reader is one of the
\* shared status, or none.
LEMMA PollerWrites ==
    ASSUME SerialNext
    PROVE  Write \/ Read \/ UNCHANGED <<writer, readers>>
<1>1. CASE Poller
    BY <1>1 DEF Poller, Open, Ask, WaitReads, WaitTimesOut, WaitFails, ParseBegin,
                ParseField, Write
<1>2. CASE Unit
    BY <1>2 DEF Unit, UnitAnswers, UnitLoses
<1>3. CASE Reading
    BY <1>3 DEF Reading
<1>4. QED
    BY <1>1, <1>2, <1>3 DEF SerialNext

\* The serial thread, with its requests, time-outs and late answers, publishes
\* the status exactly as the shared struct's specification allows.
THEOREM PollerPublishes == SerialSpec => StatusSpec
<1>1. SerialInit => StatusInit
    BY DEF SerialInit
<1>2. [SerialNext]_svars => [Write \/ Read]_<<writer, readers>>
    BY PollerWrites DEF svars, writer, readers
<1>3. QED
    BY <1>1, <1>2, PTL DEF SerialSpec, StatusSpec

\* What get_sdkinfo and the server's commands copy without a lock is torn at
\* most by the polls the copy overlaps.
THEOREM CopiesAreRecent == SerialSpec => []SnapshotWindow
<1>1. StatusInv => SnapshotWindow
    BY DEF StatusInv
<1>2. QED
    BY <1>1, StatusCorrect, PollerPublishes, PTL

\* No field of a copy is older than the same field of the reader's last copy.
THEOREM CopiesAdvance == SerialSpec => []SnapshotsAdvance
<1>1. StatusInv => SnapshotsAdvance
    BY DEF StatusInv
<1>2. QED
    BY <1>1, StatusCorrect, PollerPublishes, PTL
-----------------------------------------------------------------------------
(* The exchange with the unit.                                               *)

Cell == [kind : {"none", "status", "word2", "word3"}, poll : 0 .. MaxPolls]

\* The request the thread waits for an answer to.
Asked == [kind |-> asked, poll |-> IF asked = "status" THEN begun + 1 ELSE begun]

SerialTypes ==
    /\ spc \in {"open", "ended", "ask", "wait", "parse", "fill"}
    /\ asked \in {"status", "word2", "word3"}
    /\ ans \in [{"head", "tail"} -> Cell]
    /\ tty \in Seq(Cell) /\ dev \in Seq(Cell) /\ Len(dev) <= MaxPending
    /\ begun \in 0 .. MaxPolls /\ lost \in 0 .. MaxLost
    /\ missed \in BOOLEAN
    /\ (at > 0) = (spc = "fill")
    /\ spc = "wait" /\ asked = "status" => begun < MaxPolls

\* Without a miss, the line and the unit hold at most what is asked for now, and
\* the buffer, once it is parsed, the whole answer to it.
LinePrompt ==
    IF spc = "wait" THEN \/ dev = <<>> /\ tty = <<>>
                         \/ dev = <<Asked>> /\ tty = <<>>
                         \/ dev = <<>> /\ tty = Cells(Asked)
                    ELSE dev = <<>> /\ tty = <<>>
AnswerPrompt ==
    /\ spc = "parse" => \A part \in {"head", "tail"} :
                            ans[part] = [kind |-> "status", poll |-> begun + 1]
    /\ spc = "fill" => \A part \in {"head", "tail"} :
                            ans[part] = [kind |-> "status", poll |-> begun]

SerialInv ==
    /\ SerialTypes
    /\ shown \in [Fields -> Cell]
    /\ ~missed => LinePrompt /\ AnswerPrompt /\ PromptShown

LEMMA SerialInitInv == SerialInit => SerialInv
<1> SUFFICES ASSUME SerialInit PROVE SerialInv
    OBVIOUS
<1>1. NoCell \in Cell
    BY StatusAssumption DEF NoCell, Cell
<1>2. SerialTypes
    <2>1. <<>> \in Seq(Cell) /\ Len(<<>>) = 0
        OBVIOUS
    <2>2. ans \in [{"head", "tail"} -> Cell]
        BY <1>1 DEF SerialInit
    <2>3. tty \in Seq(Cell) /\ dev \in Seq(Cell) /\ Len(dev) <= MaxPending
        BY <2>1, SerialAssumption DEF SerialInit
    <2>4. spc = "open" /\ asked = "status" /\ at = 0 /\ begun = 0 /\ lost = 0 /\ missed = FALSE
        BY DEF SerialInit, StatusInit
    <2>5. (at > 0) = (spc = "fill")
        BY <2>4
    <2>6. begun \in 0 .. MaxPolls /\ lost \in 0 .. MaxLost
        BY <2>4, StatusAssumption, SerialAssumption
    <2>7. QED
        BY <2>2, <2>3, <2>4, <2>5, <2>6 DEF SerialTypes
<1>3. shown \in [Fields -> Cell]
    BY <1>1 DEF SerialInit
<1>4. LinePrompt /\ AnswerPrompt /\ PromptShown
    BY DEF SerialInit, StatusInit, LinePrompt, AnswerPrompt, PromptShown
<1>5. QED
    BY <1>2, <1>3, <1>4 DEF SerialInv

\* What the buffer holds after a read().
LEMMA ReceivedCells ==
    ASSUME tty \in Seq(Cell), tty # <<>>
    PROVE  /\ Received \in Seq(Cell) /\ Len(Received) > 0
           /\ Received[1] = tty[1]
           /\ Len(Received) > 1 => Received[2] = tty[2]
           /\ Len(Received) = IF Len(tty) < ReadCap THEN Len(tty) ELSE ReadCap
           /\ SubSeq(tty, Len(Received) + 1, Len(tty)) \in Seq(Cell)
           /\ Len(tty) < 3 => SubSeq(tty, Len(Received) + 1, Len(tty)) = <<>>
<1> DEFINE n == IF Len(tty) < ReadCap THEN Len(tty) ELSE ReadCap
<1>1. n \in 1 .. Len(tty) /\ Received = SubSeq(tty, 1, n)
    BY SerialAssumption DEF Received
<1> HIDE DEF n
<1>2. Received \in Seq(Cell) /\ Len(Received) = n
    BY <1>1
<1>3. \A i \in 1 .. n : Received[i] = tty[i]
    BY <1>1
<1>4. SubSeq(tty, n + 1, Len(tty)) \in Seq(Cell)
    BY <1>1
<1>5. Len(tty) < 3 => SubSeq(tty, n + 1, Len(tty)) = <<>>
    <2>1. Len(tty) < 3 => n = Len(tty)
        BY SerialAssumption DEF n
    <2>2. SubSeq(tty, Len(tty) + 1, Len(tty)) = <<>>
        OBVIOUS
    <2>3. QED
        BY <2>1, <2>2
<1>6. QED
    BY <1>1, <1>2, <1>3, <1>4, <1>5 DEF n

LEMMA UnitKeeps ==
    ASSUME SerialInv, Unit
    PROVE  SerialInv'
<1> USE DEF SerialInv, SerialTypes
<1>1. CASE UnitLoses
    <2>1. LinePrompt => LinePrompt'
        BY <1>1 DEF UnitLoses, LinePrompt, Asked, writer
    <2>2. QED
        BY <1>1, <2>1, SerialAssumption DEF UnitLoses, AnswerPrompt, PromptShown, writer, Cell
<1>2. CASE UnitAnswers
    <2>1. Head(dev) \in Cell /\ Cells(Head(dev)) \in Seq(Cell) /\ Tail(dev) \in Seq(Cell)
        BY <1>2 DEF UnitAnswers, Cells
    <2>2. LinePrompt => LinePrompt'
        <3>1. /\ Asked' = Asked /\ spc' = spc /\ dev # <<>>
              /\ tty' = tty \o Cells(Head(dev)) /\ dev' = Tail(dev)
              /\ Cells(Asked)' = Cells(Asked)
            BY <1>2 DEF UnitAnswers, Asked, Cells, writer
        <3>2. dev = <<Asked>> => Head(dev) = Asked /\ Tail(dev) = <<>>
            OBVIOUS
        <3>3. tty = <<>> => tty \o Cells(Head(dev)) = Cells(Head(dev))
            BY <2>1
        <3>4. QED
            BY <3>1, <3>2, <3>3 DEF LinePrompt
    <2>3. QED
        <3>1. tty' \in Seq(Cell) /\ dev' \in Seq(Cell) /\ Len(dev') <= MaxPending
            BY <1>2, <2>1, SerialAssumption DEF UnitAnswers
        <3>2. SerialTypes'
            BY <1>2, <3>1 DEF UnitAnswers, writer
        <3>3. QED
            BY <1>2, <2>2, <3>2 DEF UnitAnswers, AnswerPrompt, PromptShown, writer
<1>3. QED
    BY <1>1, <1>2 DEF Unit

LEMMA PollerKeeps ==
    ASSUME SerialInv, StatusTypeOK, Poller
    PROVE  SerialInv'
<1> USE SerialAssumption, StatusAssumption DEF SerialInv, SerialTypes
<1>1. CASE Open
    BY <1>1 DEF Open, LinePrompt, AnswerPrompt, PromptShown, writer
<1>2. CASE Ask
    <2>1. Asked \in Cell
        BY <1>2 DEF Ask, Asked, Cell, StatusTypeOK
    <2>2. \/ dev' = IF Len(dev) < MaxPending THEN Append(dev, Asked) ELSE dev
          \/ dev' = dev
        BY <1>2 DEF Ask, Asked
    <2>5. dev' \in Seq(Cell) /\ Len(dev') <= MaxPending
        <3>1. Append(dev, Asked) \in Seq(Cell) /\ Len(Append(dev, Asked)) = Len(dev) + 1
            BY <2>1
        <3>2. \/ Len(dev) < MaxPending /\ dev' = Append(dev, Asked)
              \/ dev' = dev
            BY <2>2
        <3>3. CASE Len(dev) < MaxPending /\ dev' = Append(dev, Asked)
            <4>1. Len(dev) + 1 <= MaxPending
                BY <3>3
            <4>2. QED
                BY <3>1, <3>3, <4>1
        <3>4. CASE dev' = dev
            BY <3>4
        <3>5. QED
            BY <3>2, <3>3, <3>4
    <2>3. ~missed => LinePrompt'
        <3>1. Asked' = Asked /\ spc = "ask" /\ spc' = "wait" /\ tty' = tty
            BY <1>2 DEF Ask, Asked, writer
        <3>2. dev = <<>> => dev' = <<Asked>> \/ dev' = <<>>
            BY <2>1, <2>2
        <3>3. missed' = missed
            BY <1>2 DEF Ask
        <3>4. QED
            BY <3>1, <3>2, <3>3 DEF LinePrompt
    <2>4. QED
        <3>1. SerialTypes'
            BY <1>2, <2>5 DEF Ask, writer
        <3>2. shown' \in [Fields -> Cell] /\ (~missed' => AnswerPrompt' /\ PromptShown')
            BY <1>2 DEF Ask, AnswerPrompt, PromptShown, writer
        <3>3. QED
            BY <1>2, <2>3, <3>1, <3>2 DEF Ask
<1>3. CASE WaitReads
    <2>1. ans' \in [{"head", "tail"} -> Cell] /\ tty' \in Seq(Cell)
        BY <1>3, ReceivedCells DEF WaitReads
    <2>2. ASSUME ~missed
          PROVE  /\ tty' = <<>> /\ dev' = <<>>
                 /\ asked = "status" => \A part \in {"head", "tail"} : ans'[part] = Asked
        <3>1. spc = "wait" /\ tty # <<>> /\ dev' = dev
            BY <1>3 DEF WaitReads
        <3>2. dev = <<>> /\ tty = Cells(Asked)
            BY <2>2, <3>1 DEF LinePrompt
        <3>3. \/ tty = <<Asked, Asked>>
              \/ tty = <<Asked>> /\ asked # "status"
            BY <3>2 DEF Cells, Asked
        <3>4. Len(tty) < 3 /\ tty[1] = Asked
            <4>1. ASSUME NEW q PROVE /\ Len(<<q>>) < 3 /\ <<q>>[1] = q
                                     /\ Len(<<q, q>>) < 3 /\ <<q, q>>[1] = q
                OBVIOUS
            <4>2. QED
                BY <3>3, <4>1
        <3>5. tty' = <<>>
            BY <1>3, <3>1, <3>4, ReceivedCells DEF WaitReads
        <3>6. asked = "status" => Len(tty) = 2 /\ tty[2] = Asked
            BY <3>3
        <3>7. asked = "status" => Len(Received) = 2 /\ Received[1] = Asked /\ Received[2] = Asked
            <4>1. Len(Received) = (IF Len(tty) < ReadCap THEN Len(tty) ELSE ReadCap)
                  /\ Received[1] = tty[1] /\ (Len(Received) > 1 => Received[2] = tty[2])
                BY <3>1, ReceivedCells
            <4>2. \A n \in Nat : n = 2 => (IF n < ReadCap THEN n ELSE ReadCap) = 2
                OBVIOUS
            <4>3. asked = "status" => Len(Received) = 2
                BY ZenonT(30), <3>6, <4>1, <4>2
            <4>4. ASSUME asked = "status" PROVE Received[2] = Asked
                <5>1. Len(Received) = 2
                    BY <4>3, <4>4
                <5>2. tty[2] = Asked
                    BY <3>6, <4>4
                <5>3. Len(Received) > 1
                    BY <5>1
                <5>4. QED
                    BY <4>1, <5>2, <5>3
            <4>5. Received[1] = Asked
                BY <3>4, <4>1
            <4>6. QED
                BY <4>3, <4>4, <4>5
        <3>8. QED
            BY <1>3, <3>1, <3>2, <3>5, <3>7 DEF WaitReads
    <2>3. ~missed => LinePrompt' /\ AnswerPrompt'
        BY <1>3, <2>2 DEF WaitReads, AfterWait, LinePrompt, AnswerPrompt, Asked, writer
    <2>4. QED
        BY <1>3, <2>1, <2>3 DEF WaitReads, AfterWait, PromptShown, writer
<1>4. CASE WaitTimesOut
    BY <1>4 DEF WaitTimesOut, AfterWait, writer
<1>5. CASE WaitFails
    BY <1>5 DEF WaitFails, AfterWait, writer
<1>6. CASE ParseBegin
    BY <1>6 DEF ParseBegin, PublishBegin, LinePrompt, AnswerPrompt, PromptShown, StatusTypeOK
<1>7. CASE ParseField
    <2>1. spc = "fill" /\ at \in 1 .. Len(Order) /\ Order[at] \in Fields
        BY <1>7 DEF ParseField, StatusTypeOK, Fields
    <2>2. PartOf[Order[at]] \in {"head", "tail"}
        BY <2>1
    <2>3. shown' \in [Fields -> Cell]
        BY <1>7, <2>1, <2>2 DEF ParseField
    <2>4. ~missed => PromptShown'
        BY <1>7, <2>1, <2>2 DEF ParseField, PublishField, PromptShown, AnswerPrompt, StatusTypeOK
    <2>5. ~missed => LinePrompt' /\ AnswerPrompt'
        BY <1>7, <2>1 DEF ParseField, PublishField, LinePrompt, AnswerPrompt
    <2>6. QED
        BY <1>7, <2>1, <2>3, <2>4, <2>5 DEF ParseField, PublishField, StatusTypeOK
<1>8. QED
    BY <1>1, <1>2, <1>3, <1>4, <1>5, <1>6, <1>7 DEF Poller

\* The exchange with the unit, whatever its timing.
THEOREM SerialCorrect == SerialSpec => []SerialInv
<1>1. SerialInv /\ UNCHANGED svars => SerialInv'
    BY DEF svars, serial, writer, SerialInv, SerialTypes, LinePrompt, AnswerPrompt, Asked,
           PromptShown
<1>2. SerialInv /\ Reading => SerialInv'
    BY DEF Reading, Read, serial, writer, SerialInv, SerialTypes, LinePrompt, AnswerPrompt,
           Asked, PromptShown
<1>3. SerialInv /\ StatusInv /\ [SerialNext]_svars => SerialInv'
    BY <1>1, <1>2, UnitKeeps, PollerKeeps DEF SerialNext, StatusInv
<1>4. QED
    BY <1>3, SerialInitInv, StatusCorrect, PollerPublishes, PTL DEF SerialSpec

\* The thread's place, its buffers and its counters are of their types.
THEOREM SerialTyped == SerialSpec => []SerialTypeOK
<1>1. SerialInv => SerialTypeOK
    BY DEF SerialInv, SerialTypes, SerialTypeOK, Cell
<1>2. QED
    BY <1>1, SerialCorrect, PTL

\* While every answer has come in time, each field is published from the answer
\* to the very poll that published it, whatever part of the answer it is in.
THEOREM PollsShown == SerialSpec => []PromptShown
<1>1. SerialInv => PromptShown
    BY DEF SerialInv, PromptShown
<1>2. QED
    BY <1>1, SerialCorrect, PTL
=============================================================================
