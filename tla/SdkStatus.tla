----------------------------- MODULE SdkStatus -----------------------------
(* The status of the SDK unit, external_sdk_53 (server.c): a struct the      *)
(* serial thread fills field by field after each poll and the SNMP agent and *)
(* the command server copy field by field, with no lock around either.       *)
(*                                                                           *)
(* A field's value is the number of the poll that wrote it; SerialPoll says  *)
(* what was in it.                                                           *)
EXTENDS Integers, Sequences

CONSTANTS
    Order,      \* the fields, in the order the serial thread assigns them
    Readers,    \* the agent thread and the command server's threads
    MaxPolls    \* bound: polls published

Fields == {Order[i] : i \in 1 .. Len(Order)}

ASSUME StatusAssumption ==
    /\ Order \in Seq(Fields) /\ Order # <<>>
    /\ \A i, j \in 1 .. Len(Order) : i # j => Order[i] # Order[j]
    /\ MaxPolls \in Nat

VARIABLES
    status,     \* external_sdk_53: the poll each field was written by, 0 if none
    at,         \* the field the serial thread writes next, 0 between polls
    begun,      \* polls whose answer the serial thread has begun to write
    ended,      \* polls it has written completely
    left,       \* the fields each reader has still to copy
    copying,    \* whether a reader is inside its copy
    snap,       \* the reader's copy
    since,      \* polls completely written when the copy began
    last        \* the reader's copy before this one

writer  == <<status, at, begun, ended>>
readers == <<left, copying, snap, since, last>>

StatusInit ==
    /\ status = [f \in Fields |-> 0]
    /\ at = 0 /\ begun = 0 /\ ended = 0
    /\ left = [r \in Readers |-> {}]
    /\ copying = [r \in Readers |-> FALSE]
    /\ snap = [r \in Readers |-> [f \in Fields |-> 0]]
    /\ since = [r \in Readers |-> 0]
    /\ last = [r \in Readers |-> [f \in Fields |-> 0]]

-----------------------------------------------------------------------------
(* The serial thread: the assignments of threading_sdk_serial.               *)

PublishBegin ==
    /\ at = 0 /\ begun < MaxPolls
    /\ at' = 1 /\ begun' = begun + 1
    /\ UNCHANGED <<status, ended>>

\* BUG: the last field is forgotten.
BugPublishField ==
    /\ at > 0
    /\ IF at >= Len(Order) - 1 THEN at' = 0 /\ ended' = begun
                               ELSE at' = at + 1 /\ UNCHANGED ended
    /\ status' = [status EXCEPT ![Order[at]] = begun]
    /\ UNCHANGED begun

PublishField ==
    /\ at > 0
    /\ IF at = Len(Order) THEN at' = 0 /\ ended' = begun
                          ELSE at' = at + 1 /\ UNCHANGED ended
    /\ status' = [status EXCEPT ![Order[at]] = begun]
    /\ UNCHANGED begun

-----------------------------------------------------------------------------
(* A reader: get_sdkinfo, or a command of the server.                        *)

SnapBegin(r) ==
    /\ ~copying[r]
    /\ copying' = [copying EXCEPT ![r] = TRUE]
    /\ left' = [left EXCEPT ![r] = Fields]
    /\ since' = [since EXCEPT ![r] = ended]
    /\ UNCHANGED <<snap, last>>

\* BUG: a reader that finds the thread writing reports the field as not set.
BugSnapField(r) ==
    /\ \E f \in left[r] :
          /\ snap' = [snap EXCEPT ![r][f] = IF at = 0 THEN status[f] ELSE 0]
          /\ left' = [left EXCEPT ![r] = @ \ {f}]
    /\ UNCHANGED <<copying, since, last>>

\* The loads race with the stores: nothing keeps them in the program's order.
SnapField(r) ==
    /\ \E f \in left[r] :
          /\ snap' = [snap EXCEPT ![r][f] = status[f]]
          /\ left' = [left EXCEPT ![r] = @ \ {f}]
    /\ UNCHANGED <<copying, since, last>>

SnapEnd(r) ==
    /\ copying[r] /\ left[r] = {}
    /\ copying' = [copying EXCEPT ![r] = FALSE]
    /\ last' = [last EXCEPT ![r] = snap[r]]
    /\ UNCHANGED <<left, snap, since>>

Write == (PublishBegin \/ PublishField) /\ UNCHANGED readers
Read  == (\E r \in Readers : SnapBegin(r) \/ SnapField(r) \/ SnapEnd(r)) /\ UNCHANGED writer

StatusSpec == StatusInit /\ [][Write \/ Read]_<<writer, readers>>

-----------------------------------------------------------------------------
(* What a reader may rely on.                                                *)

StatusTypeOK ==
    /\ status \in [Fields -> Nat]
    /\ at \in 0 .. Len(Order) /\ begun \in Nat /\ ended \in Nat
    /\ left \in [Readers -> SUBSET Fields]
    /\ copying \in [Readers -> BOOLEAN]
    /\ snap \in [Readers -> [Fields -> Nat]]
    /\ since \in [Readers -> Nat]
    /\ last \in [Readers -> [Fields -> Nat]]

\* A copy made without a lock is torn at most by the polls it overlaps: each
\* field is from a poll written no earlier than the last one completed before
\* the copy began, and begun before the field was read.
SnapshotWindow ==
    \A r \in Readers, f \in Fields :
        copying[r] /\ f \notin left[r] => snap[r][f] \in since[r] .. begun

\* No field of a later copy is older than the same field of an earlier one.
SnapshotsAdvance ==
    \A r \in Readers, f \in Fields :
        copying[r] /\ f \notin left[r] => last[r][f] <= snap[r][f]

\* What the writer has done at any moment: the fields before the next one are
\* of the poll being written, the others of the poll before.
WriterInv ==
    /\ ended <= begun
    /\ begun = IF at = 0 THEN ended ELSE ended + 1
    /\ \A i \in 1 .. Len(Order) :
          status[Order[i]] = IF i < at THEN begun ELSE ended

\* The inductive invariant behind the two properties above.
StatusInv ==
    /\ StatusTypeOK /\ WriterInv /\ SnapshotWindow /\ SnapshotsAdvance
    /\ \A r \in Readers : since[r] <= ended
    /\ \A r \in Readers, f \in Fields :
          /\ last[r][f] <= status[f]
          /\ copying[r] /\ f \notin left[r] => snap[r][f] <= status[f]
=============================================================================
