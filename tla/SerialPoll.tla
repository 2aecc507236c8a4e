----------------------------- MODULE SerialPoll ----------------------------
(* The serial thread (threading_sdk_serial in parser_sdk.c, request_port in  *)
(* serial.c), the SDK unit at the other end of the line, and the readers of  *)
(* the status the thread publishes (SdkStatus).                              *)
(*                                                                           *)
(* Bytes come in cells.  The answer to get_status is two: "head", with the   *)
(* versions, and "tail", with relay, dry contacts and temperature; the       *)
(* answers to word_2 and word_3 are one.  A cell carries the request it      *)
(* answers and the poll that request was made in.                            *)
EXTENDS SdkStatus

CONSTANTS
    PartOf,       \* the part of the status answer each field is parsed from
    ReadCap,      \* cells one read() takes: 56 bytes
    MaxPending,   \* bound: requests the unit keeps until it answers them
    MaxLost,      \* bound: exchanges that fail on the line or in a system call
    Late,         \* TRUE: the unit may answer after request_port gave up
    SerialFaults  \* which system calls may fail

ASSUME SerialAssumption ==
    /\ PartOf \in [Fields -> {"head", "tail"}]
    /\ ReadCap \in Nat /\ ReadCap >= 2
    /\ MaxPending \in Nat \ {0} /\ MaxLost \in Nat
    /\ Late \in BOOLEAN /\ SerialFaults \subseteq {"open", "write", "select", "read"}

VARIABLES
    spc,      \* where the serial thread is
    asked,    \* the request it waits for an answer to
    ans,      \* answer_sdk
    tty,      \* cells received and not read
    dev,      \* requests the unit has not answered
    lost,     \* exchanges that have failed so far
    missed,   \* TRUE once request_port returned without an answer
    shown     \* the cell each field was last parsed from

serial == <<spc, asked, ans, tty, dev, lost, missed, shown>>
svars  == <<writer, readers, serial>>

NoCell == [kind |-> "none", poll |-> 0]

SerialInit ==
    /\ StatusInit
    /\ spc = "open" /\ asked = "status"
    /\ ans = [part \in {"head", "tail"} |-> NoCell]
    /\ tty = <<>> /\ dev = <<>> /\ lost = 0 /\ missed = FALSE
    /\ shown = [f \in Fields |-> NoCell]

-----------------------------------------------------------------------------
(* The SDK unit.                                                             *)

Cells(q) == IF q.kind = "status" THEN <<q, q>> ELSE <<q>>

UnitAnswers ==
    /\ dev # <<>>
    /\ tty' = tty \o Cells(Head(dev)) /\ dev' = Tail(dev)
    /\ UNCHANGED <<writer, readers, spc, asked, ans, lost, missed, shown>>

UnitLoses ==
    /\ dev # <<>> /\ lost < MaxLost
    /\ dev' = Tail(dev) /\ lost' = lost + 1
    /\ UNCHANGED <<writer, readers, spc, asked, ans, tty, missed, shown>>

-----------------------------------------------------------------------------
(* The serial thread.                                                        *)

\* open_serial_port returns 0 when open() fails: the thread ends, for good.
Open ==
    /\ spc = "open"
    /\ spc' \in {"ask"} \cup (IF "open" \in SerialFaults THEN {"ended"} ELSE {})
    /\ UNCHANGED <<writer, readers, asked, ans, tty, dev, lost, missed, shown>>

\* write(): a failure is only logged, and a unit with no room drops the request.
Ask ==
    /\ spc = "ask" /\ (asked = "status" => begun < MaxPolls)
    /\ spc' = "wait"
    /\ LET q == [kind |-> asked,
                 poll |-> IF asked = "status" THEN begun + 1 ELSE begun]
       IN  \/ /\ dev' = IF Len(dev) < MaxPending THEN Append(dev, q) ELSE dev
              /\ UNCHANGED lost
           \/ /\ "write" \in SerialFaults /\ lost < MaxLost
              /\ lost' = lost + 1 /\ UNCHANGED dev
    /\ UNCHANGED <<writer, readers, asked, ans, tty, missed, shown>>

\* After get_status a length <= 0 makes the thread ask again; the lengths after
\* word_2 and word_3 are not looked at.
AfterWait(answered) ==
    /\ asked' = CASE asked = "status" -> "status"
                  [] asked = "word2"  -> "word3"
                  [] asked = "word3"  -> "status"
    /\ spc' = IF asked = "status" /\ answered THEN "parse" ELSE "ask"

\* BUG: read() without the usleep(150000) before it finds the first cell only.
BugReceived == SubSeq(tty, 1, 1)

\* Data is there: read() takes what the buffer holds; as much of answer_sdk is
\* overwritten as was read.
Received == SubSeq(tty, 1, IF Len(tty) < ReadCap THEN Len(tty) ELSE ReadCap)
WaitReads ==
    /\ spc = "wait" /\ tty # <<>>
    /\ ans' = [part \in {"head", "tail"} |->
                  IF part = "head" THEN Received[1]
                  ELSE IF Len(Received) > 1 THEN Received[2] ELSE ans[part]]
    /\ tty' = SubSeq(tty, Len(Received) + 1, Len(tty))
    /\ AfterWait(TRUE)
    /\ UNCHANGED <<writer, readers, dev, lost, missed, shown>>

\* BUG: select() without a timeout waits on.
BugWaitTimesOut ==
    /\ spc = "wait" /\ tty = <<>> /\ (Late \/ dev = <<>>)
    /\ UNCHANGED svars

\* 150 ms pass with no data: request_port ends without a return statement, and
\* its caller finds any length (gcc -O2 leaves the descriptor, which is > 0).
WaitTimesOut ==
    /\ spc = "wait" /\ tty = <<>> /\ (Late \/ dev = <<>>)
    /\ \E answered \in BOOLEAN : AfterWait(answered)
    /\ missed' = TRUE
    /\ UNCHANGED <<writer, readers, ans, tty, dev, lost, shown>>

\* select() fails, as when a signal interrupts it, or read() gives nothing, as
\* when the line hangs up: -1.
WaitFails ==
    /\ spc = "wait" /\ SerialFaults \cap {"select", "read"} # {} /\ lost < MaxLost
    /\ AfterWait(FALSE)
    /\ missed' = TRUE /\ lost' = lost + 1
    /\ UNCHANGED <<writer, readers, ans, tty, dev, shown>>

ParseBegin ==
    /\ spc = "parse" /\ PublishBegin
    /\ spc' = "fill"
    /\ UNCHANGED <<readers, asked, ans, tty, dev, lost, missed, shown>>

\* BUG: the poll ends one field early.
BugParseField ==
    /\ spc = "fill" /\ PublishField
    /\ shown' = [shown EXCEPT ![Order[at]] = ans[PartOf[Order[at]]]]
    /\ IF at' = Len(Order) THEN spc' = "ask" /\ asked' = "word2"
                           ELSE UNCHANGED <<spc, asked>>
    /\ UNCHANGED <<readers, ans, tty, dev, lost, missed>>

\* Each field is parsed from its place in answer_sdk, whatever that holds.
ParseField ==
    /\ spc = "fill" /\ PublishField
    /\ shown' = [shown EXCEPT ![Order[at]] = ans[PartOf[Order[at]]]]
    /\ IF at' = 0 THEN spc' = "ask" /\ asked' = "word2"
                  ELSE UNCHANGED <<spc, asked>>
    /\ UNCHANGED <<readers, ans, tty, dev, lost, missed>>

Poller == Open \/ Ask \/ WaitReads \/ WaitTimesOut \/ WaitFails \/ ParseBegin \/ ParseField
Unit   == UnitAnswers \/ UnitLoses
Reading == Read /\ UNCHANGED serial

SerialNext == Poller \/ Unit \/ Reading
SerialSpec == SerialInit /\ [][SerialNext]_svars

\* The thread sleeps and waits with timeouts only, and the unit answers in the
\* end each request it does not lose.
SerialFairSpec == SerialSpec /\ WF_svars(Poller) /\ WF_svars(UnitAnswers)

-----------------------------------------------------------------------------
(* What the serial thread promises.                                          *)

SerialTypeOK ==
    /\ spc \in {"open", "ended", "ask", "wait", "parse", "fill"}
    /\ asked \in {"status", "word2", "word3"}
    /\ \A part \in {"head", "tail"} : ans[part].poll \in 0 .. MaxPolls
    /\ Len(dev) <= MaxPending /\ lost \in 0 .. MaxLost
    /\ (at > 0) = (spc = "fill")

\* While every exchange has been answered in time, a field written by a poll
\* holds the unit's answer to that poll's get_status.
PromptShown ==
    ~missed => \A f \in Fields :
        status[f] > 0 => shown[f] = [kind |-> "status", poll |-> status[f]]

\* What is published comes from a status answer of the unit: without one the
\* thread asks again ("Not response from SDK", parser_sdk.c:60).
ShownIsStatus == \A f \in Fields : status[f] > 0 => shown[f].kind = "status"

\* The thread goes on polling: lost requests, late answers and missing lengths
\* do not stop it.
PollsGoOn == (spc = "ask") ~> (begun = MaxPolls)
=============================================================================
