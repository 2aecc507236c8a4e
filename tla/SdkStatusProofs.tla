-------------------------- MODULE SdkStatusProofs --------------------------
(* Proofs about SdkStatus: what a reader that takes no lock may still rely   *)
(* on, for any fields, readers and number of polls.                          *)
EXTENDS SdkStatus, TLAPS

\* Each field has its place in the order of the assignments.
LEMMA OrderFacts ==
    /\ Len(Order) \in Nat \ {0}
    /\ \A i \in 1 .. Len(Order) : Order[i] \in Fields
    /\ \A f \in Fields : \E i \in 1 .. Len(Order) : f = Order[i]
BY StatusAssumption DEF Fields

\* A field holds the last poll completed or the one being written.
LEMMA StatusRange ==
    ASSUME StatusTypeOK, WriterInv
    PROVE  \A f \in Fields : status[f] \in ended .. begun
BY OrderFacts DEF StatusTypeOK, WriterInv

\* Before the first poll.
LEMMA StatusStart == StatusInit => StatusInv
BY OrderFacts DEF StatusInit, StatusInv, StatusTypeOK, WriterInv, SnapshotWindow, SnapshotsAdvance

\* A write makes no field older, and what was copied was no newer than it.
LEMMA StatusWrite ==
    ASSUME StatusInv, Write
    PROVE  StatusInv'
<1>0. StatusTypeOK /\ WriterInv /\ UNCHANGED readers
    BY DEF StatusInv, Write
<1>a. ASSUME PublishBegin
      PROVE  StatusTypeOK' /\ WriterInv' /\ \A f \in Fields : status[f] <= status'[f]
    <2>1. StatusTypeOK' /\ WriterInv'
        BY <1>0, <1>a, OrderFacts DEF PublishBegin, StatusTypeOK, WriterInv, readers
    <2>2. \A f \in Fields : status[f] \in Nat /\ status'[f] = status[f]
        BY <1>0, <1>a DEF PublishBegin, StatusTypeOK
    <2>3. QED
        BY <2>1, <2>2, OrderFacts
<1>b. ASSUME PublishField
      PROVE  StatusTypeOK' /\ WriterInv' /\ \A f \in Fields : status[f] <= status'[f]
    <2>1. at \in 1 .. Len(Order) /\ Order[at] \in Fields
        BY <1>0, <1>b, OrderFacts DEF PublishField, StatusTypeOK
    <2>2. \A f \in Fields : status'[f] = IF f = Order[at] THEN begun ELSE status[f]
        BY <1>0, <1>b DEF PublishField, StatusTypeOK
    <2>3. at' = IF at = Len(Order) THEN 0 ELSE at + 1
        BY <1>b DEF PublishField
    <2>4. begun' = begun /\ ended' = IF at = Len(Order) THEN begun ELSE ended
        BY <1>b DEF PublishField
    <2>5. StatusTypeOK'
        <3>1. status' \in [Fields -> Nat]
            BY <1>0, <1>b, <2>1 DEF PublishField, StatusTypeOK
        <3>2. at' \in 0 .. Len(Order) /\ begun' \in Nat /\ ended' \in Nat
            BY <1>0, <2>1, <2>3, <2>4, OrderFacts DEF StatusTypeOK
        <3>3. QED
            BY <1>0, <3>1, <3>2 DEF StatusTypeOK, readers
    <2>6. WriterInv'
        <3>1. ended' <= begun' /\ begun' = IF at' = 0 THEN ended' ELSE ended' + 1
            BY <1>0, <2>1, <2>3, <2>4, OrderFacts DEF StatusTypeOK, WriterInv
        <3>2. ASSUME NEW i \in 1 .. Len(Order)
              PROVE  status'[Order[i]] = IF i < at' THEN begun' ELSE ended'
            <4>1. Order[i] \in Fields /\ (i # at => Order[i] # Order[at])
                BY <2>1, OrderFacts, StatusAssumption
            <4>2. status'[Order[i]] = IF i = at THEN begun ELSE status[Order[i]]
                BY <2>2, <4>1
            <4>3. status[Order[i]] = IF i < at THEN begun ELSE ended
                BY <1>0 DEF WriterInv
            <4>4. QED
                BY <2>1, <2>3, <2>4, <4>2, <4>3, OrderFacts
        <3>3. QED
            BY <3>1, <3>2 DEF WriterInv
    <2>7. ASSUME NEW f \in Fields
          PROVE  status[f] <= status'[f]
        <3>1. status[f] \in Nat /\ begun \in Nat /\ ended \in Nat /\ status[f] \in ended .. begun
            BY <1>0, StatusRange DEF StatusTypeOK
        <3>2. QED
            BY <2>2, <3>1
    <2>8. QED
        BY <2>5, <2>6, <2>7
<1>1. StatusTypeOK' /\ WriterInv' /\ \A f \in Fields : status[f] <= status'[f]
    BY <1>a, <1>b DEF Write
<1>4. begun <= begun' /\ ended <= ended'
    BY <1>0 DEF Write, PublishBegin, PublishField, StatusTypeOK, WriterInv
<1>5. SnapshotWindow'
    BY <1>0, <1>1, <1>4 DEF StatusInv, SnapshotWindow, StatusTypeOK, readers
<1>6. SnapshotsAdvance'
    BY <1>0 DEF StatusInv, SnapshotsAdvance, readers
<1>7. \A r \in Readers : since'[r] <= ended'
    BY <1>0, <1>1, <1>4 DEF StatusInv, StatusTypeOK, readers
<1>8. \A r \in Readers, f \in Fields :
          /\ last'[r][f] <= status'[f]
          /\ copying'[r] /\ f \notin left'[r] => snap'[r][f] <= status'[f]
    BY <1>0, <1>1 DEF StatusInv, StatusTypeOK, readers
<1>9. QED
    BY <1>1, <1>5, <1>6, <1>7, <1>8 DEF StatusInv

\* What is copied now is between the last complete poll and the one being written.
LEMMA StatusRead ==
    ASSUME StatusInv, Read
    PROVE  StatusInv'
<1>0. PICK r \in Readers : SnapBegin(r) \/ SnapField(r) \/ SnapEnd(r)
    BY DEF Read
<1>1. /\ StatusTypeOK /\ WriterInv /\ UNCHANGED <<status, at, begun, ended>>
      /\ \A f \in Fields : status[f] \in ended .. begun
    BY StatusRange DEF StatusInv, Read, writer
<1>2. CASE SnapBegin(r)
    BY <1>1, <1>2 DEF SnapBegin, StatusInv, StatusTypeOK, WriterInv, SnapshotWindow, SnapshotsAdvance
<1>3. CASE SnapField(r)
    <2>1. PICK f \in left[r] :
              /\ snap' = [snap EXCEPT ![r][f] = status[f]]
              /\ left' = [left EXCEPT ![r] = @ \ {f}]
        BY <1>3 DEF SnapField
    <2>2. StatusTypeOK' /\ WriterInv'
        BY <1>1, <1>3, <2>1 DEF SnapField, StatusTypeOK, WriterInv
    <2>3. \A q \in Readers, g \in Fields :
              copying'[q] /\ g \notin left'[q] =>
                  snap'[q][g] \in since'[q] .. begun' /\ last'[q][g] <= snap'[q][g]
                  /\ snap'[q][g] <= status'[g]
        BY SMTT(30), <1>1, <1>3, <2>1
        DEF SnapField, StatusInv, StatusTypeOK, SnapshotWindow, SnapshotsAdvance
    <2>4. QED
        BY <1>1, <1>3, <2>2, <2>3 DEF SnapField, StatusInv, SnapshotWindow, SnapshotsAdvance
<1>4. CASE SnapEnd(r)
    BY <1>1, <1>4 DEF SnapEnd, StatusInv, StatusTypeOK, WriterInv, SnapshotWindow, SnapshotsAdvance
<1>5. QED
    BY <1>0, <1>2, <1>3, <1>4

\* A step of the writer or of a reader, or of neither.
LEMMA StatusStep ==
    ASSUME StatusInv, [Write \/ Read]_<<writer, readers>>
    PROVE  StatusInv'
<1>1. CASE UNCHANGED <<writer, readers>>
    BY <1>1 DEF StatusInv, StatusTypeOK, WriterInv, SnapshotWindow, SnapshotsAdvance,
                writer, readers
<1>2. QED
    BY <1>1, StatusWrite, StatusRead

\* StatusInv is an invariant of every writer and reader of the shared struct,
\* whatever the fields, the number of readers and the number of polls.
THEOREM StatusCorrect == StatusSpec => []StatusInv
    BY StatusStart, StatusStep, PTL DEF StatusSpec
=============================================================================
