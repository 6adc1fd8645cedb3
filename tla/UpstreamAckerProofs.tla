------------------------ MODULE UpstreamAckerProofs ------------------------
(***************************************************************************)
(* Proofs about UpstreamAcker, for every number of positions, every mix of *)
(* positions and both litestream modes: the upstream slot never forgets a  *)
(* transaction that is not in the change DB.                               *)
(***************************************************************************)
EXTENDS UpstreamAcker, TLAPS

\* The acker's result is one of the watermarks it compares.
LEMMA MaybeAckRange ==
  ASSUME TypeOK,
         NEW pg \in Position, NEW backup \in Position,
         NEW tx \in Position, NEW status \in Position,
         MaybeAck(pg, backup, tx, status)
  PROVE  /\ lastAck' \in Position
         /\ waitingForDownstreamAck' \in Position
         /\ confirmed' \in Position
  BY LSNAssumption
  DEF TypeOK, MaybeAck, CurrentWatermark, SourceAck, Confirm, Max2, Min2, Position

\* Every field keeps its type (Spec => []TypeOK).
THEOREM TypeCorrect == Spec => []TypeOK
<1>1. Init => TypeOK
  BY LSNAssumption DEF Init, TypeOK, Position, Message
<1>2. TypeOK /\ [Next]_vars => TypeOK'
  <2> SUFFICES ASSUME TypeOK, [Next]_vars PROVE TypeOK'
    OBVIOUS
  <2>1. CASE PushBegin
    BY <2>1, LSNAssumption
    DEF PushBegin, TypeOK, Position, LSN, storeVars, ackerVars
  <2>2. CASE PushCommit
    <3>1. openTx \in LSN
      BY <2>2, LSNAssumption DEF PushCommit, TypeOK, Position, LSN
    <3>2. [tag |-> "commit", lsn |-> openTx] \in Message
      BY <3>1 DEF Message
    <3>3. stream' \in Seq(Message)
      BY <2>2, <3>2 DEF PushCommit, TypeOK
    <3> QED
      BY <2>2, <3>1, <3>3, LSNAssumption
      DEF PushCommit, Max2, TypeOK, Position, LSN, storeVars, ackerVars
  <2>3. CASE PushStatusForAck
    <3>1. [tag |-> "status", lsn |-> NextLSN] \in Message
      BY <2>3 DEF PushStatusForAck, Keepalive, Message
    <3>2. stream' \in Seq(Message)
      BY <2>3, <3>1 DEF PushStatusForAck, TypeOK
    <3> QED
      BY <2>3, <3>2, LSNAssumption
      DEF PushStatusForAck, Keepalive, TypeOK, Position, LSN, storeVars, ackerVars
  <2>4. CASE PushQuietStatus
    BY <2>4, LSNAssumption
    DEF PushQuietStatus, Keepalive, AckIfDownstreamIsCaughtUp, Confirm, Max2, TypeOK,
        Position, LSN, storeVars, ackerVars
  <2>5. CASE PushQuietStatusInTx
    BY <2>5, LSNAssumption
    DEF PushQuietStatusInTx, AckIfDownstreamIsCaughtUp, Confirm, Max2, TypeOK,
        Position, LSN, sourceVars, storeVars, ackerVars
  <2>6. CASE ConsumeCommit
    <3>1. /\ Head(stream) \in Message
          /\ stream' \in Seq(Message)
      BY <2>6 DEF ConsumeCommit, TypeOK
    <3>2. lastTx' \in Position /\ consumed' \in Position
      BY <2>6, <3>1, LSNAssumption DEF ConsumeCommit, Message, Position, LSN
    <3>3. /\ lastAck' \in Position
          /\ waitingForDownstreamAck' \in Position
          /\ confirmed' \in Position
      BY <2>6, <3>2, MaybeAckRange DEF ConsumeCommit, TypeOK
    <3> QED
      BY <2>6, <3>1, <3>2, <3>3 DEF ConsumeCommit, TypeOK, storeVars
  <2>7. CASE ConsumeStatus
    <3>1. /\ Head(stream) \in Message
          /\ stream' \in Seq(Message)
      BY <2>7 DEF ConsumeStatus, TypeOK
    <3>2. lastStatus' \in Position
      BY <2>7, <3>1, LSNAssumption DEF ConsumeStatus, Message, Position, LSN
    <3>3. /\ lastAck' \in Position
          /\ waitingForDownstreamAck' \in Position
          /\ confirmed' \in Position
      BY <2>7, <3>2, MaybeAckRange DEF ConsumeStatus, TypeOK
    <3> QED
      BY <2>7, <3>1, <3>2, <3>3 DEF ConsumeStatus, TypeOK, storeVars
  <2>8. ASSUME NEW w \in LSN, StorerCommit(w) PROVE TypeOK'
    <3>1. w \in Position
      BY LSNAssumption DEF LSN, Position
    <3>2. pgChangeLogWatermark' \in Position
      BY <2>8, <3>1 DEF StorerCommit, TypeOK, Max2
    <3>3. /\ lastAck' \in Position
          /\ waitingForDownstreamAck' \in Position
          /\ confirmed' \in Position
      BY <2>8, <3>2, MaybeAckRange DEF StorerCommit, TypeOK
    <3> QED
      BY <2>8, <3>1, <3>2, <3>3 DEF StorerCommit, TypeOK
  <2>9. ASSUME NEW w \in LSN, BackupProgress(w) PROVE TypeOK'
    BY <2>9, LSNAssumption
    DEF BackupProgress, TypeOK, Position, LSN, sourceVars, ackerVars
  <2>10. CASE TrackBackupWatermark
    <3>1. backupWatermark' \in Position
      BY <2>10 DEF TrackBackupWatermark, TypeOK
    <3>2. /\ lastAck' \in Position
          /\ waitingForDownstreamAck' \in Position
          /\ confirmed' \in Position
      BY <2>10, <3>1, MaybeAckRange DEF TrackBackupWatermark, TypeOK
    <3> QED
      BY <2>10, <3>1, <3>2 DEF TrackBackupWatermark, TypeOK, storeVars
  <2>11. CASE Reconnect
    BY <2>11, LSNAssumption
    DEF Reconnect, StartStream, TypeOK, Position, Message, storeVars
  <2>12. CASE Restart
    BY <2>12, LSNAssumption
    DEF Restart, StartStream, TypeOK, Position, Message, storeVars
  <2>13. CASE UNCHANGED vars
    BY <2>13 DEF vars, sourceVars, ackerVars, TypeOK
  <2> QED
    BY <2>1, <2>2, <2>3, <2>4, <2>5, <2>6, <2>7, <2>8, <2>9, <2>10, <2>11,
       <2>12, <2>13 DEF Next
<1> QED
  BY <1>1, <1>2, PTL DEF Spec

----------------------------------------------------------------------------
\* What the arithmetic below needs of TypeOK.
Numbers ==
    /\ confirmed \in Nat /\ pushed \in Nat /\ openTx \in Nat
    /\ waitingForDownstreamAck \in Nat /\ consumed \in Nat
    /\ lastWatermark \in Nat /\ backedUp \in Nat
    /\ pgChangeLogWatermark \in Nat /\ backupWatermark \in Nat
    /\ lastTx \in Nat /\ lastStatus \in Nat /\ lastAck \in Nat
    /\ \A p \in Published : p \in Nat /\ p # 0

StreamNumbers ==
    /\ Len(stream) \in Nat
    /\ \A i \in 1 .. Len(stream) : stream[i] \in Message /\ stream[i].lsn \in Nat

\* Typed positions are numbers, before and after a step, so that the leaves
\* below can do arithmetic without expanding TypeOK.
LEMMA TypeNumbers ==
  /\ TypeOK => Numbers /\ StreamNumbers
  /\ TypeOK' => Numbers' /\ StreamNumbers'
<1>1. Position \subseteq Nat /\ LSN \subseteq Nat /\ 0 \notin LSN
  BY LSNAssumption DEF Position, LSN
<1>2. Published \subseteq LSN /\ Published' \subseteq LSN
  BY DEF Published
<1>3. ASSUME NEW s \in Seq(Message)
      PROVE  /\ Len(s) \in Nat
             /\ \A i \in 1 .. Len(s) : s[i] \in Message /\ s[i].lsn \in Nat
  <2>1. ASSUME NEW m \in Message PROVE m.lsn \in Nat
    BY <1>1 DEF Message
  <2>2. Len(s) \in Nat /\ \A i \in 1 .. Len(s) : s[i] \in Message
    OBVIOUS
  <2> QED
    BY <2>1, <2>2
<1>4. TypeOK => Numbers
  BY <1>1, <1>2 DEF TypeOK, Numbers
<1>5. TypeOK' => Numbers'
  BY <1>1, <1>2 DEF TypeOK, Numbers
<1>6. TypeOK => StreamNumbers
  BY <1>3 DEF TypeOK, StreamNumbers
<1>7. TypeOK' => StreamNumbers'
  BY <1>3 DEF TypeOK, StreamNumbers
<1> QED
  BY <1>4, <1>5, <1>6, <1>7

(* The UpstreamAcker side of the argument, shared by the four actions that *)
(* end in #maybeAck.                                                       *)

\* #maybeAck acks nothing that is not durable, provided that the tracked
\* watermarks it is given mean what AckerKnowledge says they mean.
LEMMA MaybeAckSafe ==
  ASSUME TypeOK, TypeOK', kind' = kind, SourceAwaits, Durable(lastAck),
         ConfirmedIsDurable, lastAck <= pushed, pushed' = pushed, openTx' = openTx,
         lastWatermark <= lastWatermark', lastWatermark' <= pushed,
         NEW pg \in Position, NEW backup \in Position,
         NEW tx \in Position, NEW status \in Position,
         pg <= lastWatermark',
         status <= pushed,
         \A p \in Published : p <= status => p <= tx \/ p <= lastWatermark',
         MaybeAck(pg, backup, tx, status)
  PROVE  /\ Durable(lastAck)'
         /\ lastAck' <= pushed'
         /\ ConfirmedIsDurable'
         /\ SourceAwaits'
<1>0. Numbers /\ Numbers' /\ pg \in Nat /\ backup \in Nat /\ tx \in Nat /\ status \in Nat
  BY TypeNumbers, LSNAssumption DEF Position
<1>1. Published' = Published
  BY DEF Published
<1> DEFINE afterCommit == Max2(lastAck, CurrentWatermark(pg, backup))
           afterStatus == IF afterCommit >= tx /\ status > afterCommit
                          THEN status ELSE afterCommit
<1>2. /\ afterCommit \in Position
      /\ afterCommit <= pushed
      /\ \A p \in Published : p <= afterCommit => p <= lastWatermark'
  <2>1. CurrentWatermark(pg, backup) \in Position /\ CurrentWatermark(pg, backup) <= pg
    BY <1>0 DEF CurrentWatermark, Min2
  <2>2. \/ afterCommit = lastAck
        \/ afterCommit = CurrentWatermark(pg, backup)
    BY DEF Max2
  <2>3. CASE afterCommit = lastAck
    <3>1. lastAck \in Position
      BY DEF TypeOK
    <3>2. \A p \in Published : p <= lastAck => p <= lastWatermark'
      BY <1>0 DEF Durable, Numbers
    <3> QED
      BY <2>3, <3>1, <3>2
  <2>4. CASE afterCommit = CurrentWatermark(pg, backup)
    <3>1. CurrentWatermark(pg, backup) \in Nat
      BY <2>1, LSNAssumption DEF Position
    <3>2. CurrentWatermark(pg, backup) <= pushed
      BY <1>0, <2>1, <3>1 DEF Numbers
    <3>3. \A p \in Published : p <= CurrentWatermark(pg, backup) => p <= lastWatermark'
      BY <1>0, <2>1, <3>1 DEF Numbers
    <3> QED
      BY <2>1, <2>4, <3>2, <3>3
  <2> QED
    BY <2>2, <2>3, <2>4
<1>3. /\ afterStatus \in Position
      /\ afterStatus <= pushed
      /\ \A p \in Published : p <= afterStatus => p <= lastWatermark'
  <2> HIDE DEF afterCommit
  <2> QED
    BY <1>0, <1>2 DEF Numbers
<1>4. /\ lastAck' = afterStatus
      /\ IF afterStatus > lastAck
         THEN SourceAck(afterStatus)
         ELSE UNCHANGED <<waitingForDownstreamAck, confirmed>>
  BY DEF MaybeAck
<1> HIDE DEF afterStatus, afterCommit
<1>5. Durable(lastAck)' /\ lastAck' <= pushed'
  BY <1>1, <1>3, <1>4 DEF Durable
<1>6. ConfirmedIsDurable'
  <2>1. confirmed' = confirmed \/ confirmed' = afterStatus
    BY <1>4 DEF SourceAck, Confirm, Max2
  <2>2. \A p \in Published : p <= confirmed => p <= lastWatermark'
    BY <1>0 DEF ConfirmedIsDurable, Numbers
  <2> QED
    BY <1>1, <1>3, <2>1, <2>2 DEF ConfirmedIsDurable
<1>7. SourceAwaits'
  <2> SUFFICES ASSUME NEW p \in Published, p <= pushed \/ p = openTx
               PROVE  p <= waitingForDownstreamAck' \/ p <= lastWatermark'
    BY <1>1 DEF SourceAwaits
  <2>1. p <= waitingForDownstreamAck \/ p <= lastWatermark
    BY DEF SourceAwaits
  <2>2. /\ p \in Nat /\ waitingForDownstreamAck \in Nat /\ lastWatermark \in Nat
        /\ lastWatermark' \in Nat /\ afterStatus \in Nat
    BY <1>0, <1>3, LSNAssumption DEF Numbers, Position
  <2>3. CASE afterStatus > lastAck /\ waitingForDownstreamAck <= afterStatus
    BY <1>3, <2>1, <2>2, <2>3
  <2>4. CASE ~(afterStatus > lastAck /\ waitingForDownstreamAck <= afterStatus)
    <3>1. waitingForDownstreamAck' = waitingForDownstreamAck
      BY <1>4, <2>4 DEF SourceAck
    <3> QED
      BY <2>1, <2>2, <3>1
  <2> QED
    BY <2>3, <2>4
<1> QED
  BY <1>5, <1>6, <1>7

----------------------------------------------------------------------------
KeepaliveFacts ==
    /\ NextLSN \in LSN /\ NextLSN \in Nat
    /\ pushed' = NextLSN
    /\ pushed < NextLSN /\ openTx < NextLSN
    /\ openTx # 0 => kind[openTx] = "skip"
    /\ \A p \in Published : p <= NextLSN => p <= pushed

\* A keepalive is ahead of everything pushed, and no published transaction
\* lies between it and what was pushed before, even if it comes in the middle
\* of a backfill transaction.
LEMMA KeepaliveIsNext == TypeOK /\ StreamOrder /\ Keepalive => KeepaliveFacts
<1> SUFFICES ASSUME TypeOK, StreamOrder, Keepalive PROVE KeepaliveFacts
  OBVIOUS
<1>1. Numbers
  BY TypeNumbers
<1>2. /\ NextLSN \in LSN /\ pushed' = NextLSN /\ kind[NextLSN] = "idle"
      /\ openTx # 0 => kind[openTx] = "skip"
  BY DEF Keepalive
<1>3. NextLSN \in Nat /\ pushed < NextLSN /\ openTx < NextLSN
  BY <1>1 DEF Numbers, NextLSN, Max2
<1>4. ASSUME NEW p \in Published, p <= NextLSN, ~(p <= pushed) PROVE FALSE
  <2>1. p # NextLSN /\ p # openTx
    BY <1>2, <1>1 DEF Published, Numbers
  <2>2. p = openTx
    BY <1>1, <1>3, <1>4, <2>1 DEF StreamOrder, Numbers, NextLSN, Max2
  <2> QED
    BY <2>1, <2>2
<1> QED
  BY <1>2, <1>3, <1>4 DEF KeepaliveFacts

\* A fresh slot, stream and acker satisfy the inductive invariant.
LEMMA AckInit == Init => AckInvariant
  BY LSNAssumption
  DEF Init, AckInvariant, StreamOrder, StreamComplete, AckerKnowledge, Durable,
      SourceAwaits, ConfirmedIsDurable, Published, LSN

\* Every push, consumption, storer commit, backup report, reconnect and
\* restart preserves the inductive invariant.
LEMMA AckNext == TypeOK /\ TypeOK' /\ AckInvariant /\ [Next]_vars => AckInvariant'
<1> SUFFICES ASSUME TypeOK, TypeOK', AckInvariant, [Next]_vars PROVE AckInvariant'
  OBVIOUS
<1> USE DEF AckInvariant
<1>0. /\ Numbers /\ Numbers' /\ StreamNumbers /\ StreamNumbers'
      /\ kind' = kind => Published' = Published
  BY TypeNumbers DEF Published
<1>1. CASE PushBegin
  <2> USE <1>1 DEF PushBegin, storeVars, ackerVars
  <2>1. StreamOrder'
    BY <1>0 DEF StreamOrder, Numbers, StreamNumbers
  <2>2. StreamComplete'
    BY <1>0 DEF StreamComplete
  <2>3. AckerKnowledge'
    BY <1>0 DEF AckerKnowledge, Durable
  <2>4. SourceAwaits'
    BY <1>0 DEF SourceAwaits, Published, Numbers, StreamOrder
  <2>5. ConfirmedIsDurable'
    BY <1>0 DEF ConfirmedIsDurable
  <2> QED
    BY <2>1, <2>2, <2>3, <2>4, <2>5
<1>2. CASE PushCommit
  <2> USE <1>2 DEF PushCommit, storeVars, ackerVars
  <2> DEFINE m == [tag |-> "commit", lsn |-> openTx]
  <2>0. /\ stream \in Seq(Message)
        /\ Len(stream') = Len(stream) + 1
        /\ \A i \in 1 .. Len(stream) : stream'[i] = stream[i]
        /\ stream'[Len(stream) + 1] = m
        /\ Len(stream) \in Nat
        /\ pushed <= pushed' /\ openTx <= pushed'
        /\ pushed' = pushed \/ pushed' = openTx
    BY <1>0 DEF TypeOK, Max2, Numbers
  <2>1. StreamOrder'
    <3>1. /\ consumed < m.lsn /\ m.lsn <= pushed'
          /\ \A i \in 1 .. Len(stream) :
                \/ stream[i].lsn < m.lsn
                \/ stream[i].tag = "status" /\ kind[m.lsn] = "skip"
      <4>1. \A i \in 1 .. Len(stream) : stream[i].tag \in {"commit", "status"}
        BY <1>0 DEF StreamNumbers, Message
      <4> QED
        BY <1>0, <2>0, <4>1 DEF StreamOrder, Numbers, StreamNumbers
    <3> HIDE DEF m
    <3> QED
      BY <1>0, <2>0, <3>1 DEF StreamOrder, Numbers, StreamNumbers
  <2>2. StreamComplete'
    BY <1>0, <2>0 DEF StreamComplete, StreamOrder, Numbers, StreamNumbers
  <2>3. AckerKnowledge'
    BY <1>0, <2>0 DEF AckerKnowledge, Durable, Numbers
  <2>4. SourceAwaits'
    BY <1>0, <2>0 DEF SourceAwaits, StreamOrder, Numbers
  <2>5. ConfirmedIsDurable'
    BY <1>0 DEF ConfirmedIsDurable
  <2> QED
    BY <2>1, <2>2, <2>3, <2>4, <2>5
<1>3. CASE PushStatusForAck
  <2> USE <1>3 DEF PushStatusForAck, storeVars, ackerVars
  <2> DEFINE m == [tag |-> "status", lsn |-> NextLSN]
  <2>a. Keepalive /\ KeepaliveFacts
    BY KeepaliveIsNext DEF KeepaliveFacts
  <2>0. /\ stream \in Seq(Message)
        /\ Len(stream') = Len(stream) + 1
        /\ \A i \in 1 .. Len(stream) : stream'[i] = stream[i]
        /\ stream'[Len(stream) + 1] = m
        /\ Len(stream) \in Nat
    BY DEF TypeOK
  <2>1. StreamOrder'
    BY <1>0, <2>a, <2>0 DEF KeepaliveFacts, StreamOrder, Numbers, StreamNumbers
  <2>2. StreamComplete'
    BY <1>0, <2>a, <2>0 DEF KeepaliveFacts, StreamComplete, Numbers, StreamNumbers
  <2>3. AckerKnowledge'
    BY <1>0, <2>a DEF KeepaliveFacts, AckerKnowledge, Durable, Numbers
  <2>4. SourceAwaits'
    BY <1>0, <2>a DEF KeepaliveFacts, SourceAwaits, Numbers
  <2>5. ConfirmedIsDurable'
    BY <1>0 DEF ConfirmedIsDurable
  <2> QED
    BY <2>1, <2>2, <2>3, <2>4, <2>5
<1>4. CASE PushQuietStatus
  <2> USE <1>4 DEF PushQuietStatus, storeVars, ackerVars
  <2>a. Keepalive /\ KeepaliveFacts
    BY KeepaliveIsNext DEF KeepaliveFacts
  <2>1. StreamOrder'
    <3>1. /\ stream' = stream /\ openTx' = openTx /\ consumed' = consumed
          /\ lastWatermark' = lastWatermark /\ kind' = kind
          /\ pushed < pushed' /\ pushed' \in Nat
      BY <2>a DEF KeepaliveFacts
    <3>2. /\ (consumed <= pushed)'
          /\ (openTx # 0 =>
                 /\ consumed < openTx /\ openTx <= pushed + 1
                 /\ kind[openTx] # "skip" => openTx = pushed + 1)'
      BY <1>0, <2>a, <3>1 DEF KeepaliveFacts, StreamOrder, Numbers
    <3>3. \A i \in 1 .. Len(stream) : consumed < stream[i].lsn /\ stream[i].lsn <= pushed'
      BY <1>0, <3>1 DEF StreamOrder, Numbers, StreamNumbers
    <3> HIDE <1>4 DEF PushQuietStatus
    <3> QED
      BY <1>0, <3>1, <3>2, <3>3 DEF StreamOrder
  <2>2. StreamComplete'
    BY <1>0, <2>a DEF KeepaliveFacts, StreamComplete, Numbers
  <2>3. AckerKnowledge'
    BY <1>0, <2>a DEF KeepaliveFacts, AckerKnowledge, Durable, Numbers
  <2>4. SourceAwaits'
    BY <1>0, <2>a DEF KeepaliveFacts, SourceAwaits, Numbers
  <2>5. ConfirmedIsDurable'
    BY <1>0, <2>a
    DEF KeepaliveFacts, ConfirmedIsDurable, SourceAwaits,
        AckIfDownstreamIsCaughtUp, Confirm, Max2, Numbers
  <2> QED
    BY <2>1, <2>2, <2>3, <2>4, <2>5
<1>5. CASE PushQuietStatusInTx
  <2> USE <1>5 DEF PushQuietStatusInTx, sourceVars, storeVars, ackerVars
  <2>1. StreamOrder'
    BY DEF StreamOrder
  <2>2. StreamComplete'
    BY <1>0 DEF StreamComplete
  <2>3. AckerKnowledge'
    BY <1>0 DEF AckerKnowledge, Durable
  <2>4. SourceAwaits'
    BY <1>0 DEF SourceAwaits
  <2>5. ConfirmedIsDurable'
    BY <1>0
    DEF ConfirmedIsDurable, SourceAwaits, StreamOrder, AckIfDownstreamIsCaughtUp,
        Confirm, Max2, Published, Numbers
  <2> QED
    BY <2>1, <2>2, <2>3, <2>4, <2>5
<1>6. CASE ConsumeCommit
  <2> USE <1>6 DEF ConsumeCommit, storeVars
  <2>0. /\ Len(stream) \in Nat /\ Len(stream) >= 1
        /\ Head(stream) = stream[1]
        /\ Len(stream') = Len(stream) - 1
        /\ \A i \in 1 .. Len(stream') : stream'[i] = stream[i + 1]
        /\ consumed < stream[1].lsn /\ stream[1].lsn <= pushed
    BY DEF TypeOK, StreamOrder
  <2>1. StreamOrder'
    <3>1. /\ pushed' = pushed /\ openTx' = openTx
          /\ lastWatermark' = lastWatermark /\ kind' = kind
          /\ consumed' = stream[1].lsn
          /\ stream[1].tag = "commit"
          /\ stream[1].lsn \in Nat
      BY <1>0, <2>0 DEF StreamNumbers
    <3>2. /\ (lastWatermark <= consumed)'
          /\ (openTx # 0 => consumed < openTx)'
      BY <1>0, <2>0, <3>1 DEF StreamOrder, Numbers
    <3>3. \A i, j \in 1 .. Len(stream) : i < j =>
             \/ stream[i].lsn < stream[j].lsn
             \/ stream[i].tag = "status" /\ kind[stream[j].lsn] = "skip"
      BY <1>0 DEF StreamOrder
    <3> HIDE <1>6 DEF ConsumeCommit
    <3>4. \A i \in 1 .. Len(stream') :
             /\ i + 1 \in 1 .. Len(stream)
             /\ consumed' < stream'[i].lsn /\ stream'[i].lsn <= pushed
      BY <1>0, <2>0, <3>1, <3>3 DEF StreamOrder
    <3>5. \A i, j \in 1 .. Len(stream') : i < j =>
             \/ stream'[i].lsn < stream'[j].lsn
             \/ stream'[i].tag = "status" /\ kind[stream'[j].lsn] = "skip"
      <4> SUFFICES ASSUME NEW i \in 1 .. Len(stream'), NEW j \in 1 .. Len(stream'), i < j
                   PROVE  \/ stream'[i].lsn < stream'[j].lsn
                          \/ stream'[i].tag = "status" /\ kind[stream'[j].lsn] = "skip"
        OBVIOUS
      <4>1. /\ i + 1 \in 1 .. Len(stream) /\ j + 1 \in 1 .. Len(stream)
            /\ i + 1 < j + 1
        BY <3>4
      <4>2. stream'[i] = stream[i + 1] /\ stream'[j] = stream[j + 1]
        BY <2>0
      <4> QED
        BY <3>3, <4>1, <4>2
    <3>6. openTx # 0 => /\ openTx <= pushed + 1
                        /\ kind[openTx] # "skip" => openTx = pushed + 1
                        /\ \A i \in 1 .. Len(stream) :
                              stream[i].tag = "commit" => stream[i].lsn < openTx
      BY <1>0 DEF StreamOrder
    <3>7. openTx # 0 => \A i \in 1 .. Len(stream') :
                           stream'[i].tag = "commit" => stream'[i].lsn < openTx
      BY <2>0, <3>4, <3>6
    <3>8. consumed' <= pushed
      BY <2>0, <3>1
    <3> QED
      BY <3>1, <3>2, <3>4, <3>5, <3>6, <3>7, <3>8, Zenon DEF StreamOrder
  <2>2. StreamComplete'
    <3> SUFFICES ASSUME NEW p \in Published, consumed' < p, p <= pushed
                 PROVE  \E j \in 1 .. Len(stream') : stream'[j] = [tag |-> "commit", lsn |-> p]
      BY <1>0 DEF StreamComplete
    <3>1. PICK j \in 1 .. Len(stream) : stream[j] = [tag |-> "commit", lsn |-> p]
      BY <1>0, <2>0 DEF StreamComplete, Numbers, StreamNumbers
    <3>2. j # 1
      BY <1>0, <2>0, <3>1 DEF Numbers
    <3>3. j - 1 \in 1 .. Len(stream') /\ stream'[j - 1] = stream[j]
      BY <2>0, <3>1, <3>2
    <3> QED
      BY <3>1, <3>3
  <2>3. \A p \in Published : p <= lastStatus => p <= lastTx' \/ p <= lastWatermark'
    BY <1>0, <2>0 DEF AckerKnowledge, Numbers
  <2>4. /\ Durable(lastAck)'
        /\ lastAck' <= pushed'
        /\ ConfirmedIsDurable'
        /\ SourceAwaits'
    <3>1. /\ lastWatermark <= lastWatermark' /\ lastWatermark' <= pushed
          /\ pgChangeLogWatermark <= lastWatermark'
      BY <1>0 DEF StreamOrder, AckerKnowledge, Numbers
    <3> QED
      BY <2>3, <3>1, MaybeAckSafe DEF AckerKnowledge, TypeOK
  <2>5. \A p \in Published : p <= lastStatus => p <= consumed'
    BY <1>0, <2>0 DEF AckerKnowledge, Numbers
  <2>6. AckerKnowledge'
    BY <1>0, <2>4, <2>5 DEF AckerKnowledge
  <2> QED
    BY <2>1, <2>2, <2>4, <2>6
<1>7. CASE ConsumeStatus
  <2> USE <1>7 DEF ConsumeStatus, storeVars
  <2>0. /\ Len(stream) \in Nat /\ Len(stream) >= 1
        /\ Head(stream) = stream[1]
        /\ Len(stream') = Len(stream) - 1
        /\ \A i \in 1 .. Len(stream') : stream'[i] = stream[i + 1]
        /\ consumed < stream[1].lsn /\ stream[1].lsn <= pushed
    BY DEF TypeOK, StreamOrder
  <2>1. StreamOrder'
    BY <1>0, <2>0 DEF StreamOrder, Numbers, StreamNumbers
  <2>2. StreamComplete'
    <3> SUFFICES ASSUME NEW p \in Published, consumed < p, p <= pushed
                 PROVE  \E j \in 1 .. Len(stream') : stream'[j] = [tag |-> "commit", lsn |-> p]
      BY <1>0 DEF StreamComplete
    <3>1. PICK j \in 1 .. Len(stream) : stream[j] = [tag |-> "commit", lsn |-> p]
      BY DEF StreamComplete
    <3>2. j # 1
      BY <2>0, <3>1
    <3>3. j - 1 \in 1 .. Len(stream') /\ stream'[j - 1] = stream[j]
      BY <2>0, <3>1, <3>2
    <3> QED
      BY <3>1, <3>3
  <2>3. \A p \in Published : p <= lastStatus' => p <= consumed
    <3> SUFFICES ASSUME NEW p \in Published, p <= stream[1].lsn, ~(p <= consumed)
                 PROVE  FALSE
      BY <2>0
    <3>0. consumed < p /\ p <= pushed
      BY <1>0, <2>0 DEF Numbers
    <3>1. PICK j \in 1 .. Len(stream) : stream[j] = [tag |-> "commit", lsn |-> p]
      BY <3>0 DEF StreamComplete
    <3>2. j # 1
      BY <2>0, <3>1
    <3>3. stream[1].lsn < stream[j].lsn
      BY <2>0, <3>1, <3>2 DEF StreamOrder, Published
    <3> QED
      BY <1>0, <2>0, <3>1, <3>3 DEF Numbers
  <2>4. /\ Durable(lastAck)'
        /\ lastAck' <= pushed'
        /\ ConfirmedIsDurable'
        /\ SourceAwaits'
    <3>1. /\ lastWatermark <= lastWatermark' /\ lastWatermark' <= pushed
          /\ pgChangeLogWatermark <= lastWatermark'
          /\ lastStatus' <= pushed
      BY <1>0, <2>0 DEF StreamOrder, AckerKnowledge, Numbers
    <3>2. \A p \in Published : p <= lastStatus' => p <= lastTx \/ p <= lastWatermark'
      BY <1>0, <2>3 DEF AckerKnowledge, Numbers
    <3> QED
      BY <3>1, <3>2, MaybeAckSafe DEF AckerKnowledge, TypeOK
  <2>5. AckerKnowledge'
    BY <1>0, <2>0, <2>3, <2>4 DEF AckerKnowledge, Numbers
  <2> QED
    BY <2>1, <2>2, <2>4, <2>5
<1>8. ASSUME NEW w \in LSN, StorerCommit(w) PROVE AckInvariant'
  <2> USE <1>8 DEF StorerCommit
  <2>0. /\ w \in Nat /\ lastWatermark < w /\ w <= consumed
        /\ pgChangeLogWatermark' <= lastWatermark'
    BY <1>0 DEF AckerKnowledge, Numbers, Max2
  <2>1. StreamOrder'
    BY <1>0, <2>0 DEF StreamOrder, Numbers, StreamNumbers
  <2>2. StreamComplete'
    BY <1>0 DEF StreamComplete
  <2>3. /\ lastWatermark <= lastWatermark' /\ lastWatermark' <= pushed
    BY <1>0, <2>0 DEF StreamOrder, Numbers, StreamNumbers
  <2>4. /\ Durable(lastAck)'
        /\ lastAck' <= pushed'
        /\ ConfirmedIsDurable'
        /\ SourceAwaits'
    <3>1. CASE kind[w] = "tx"
      <4>1. \A p \in Published : p <= lastStatus => p <= lastTx \/ p <= lastWatermark'
        BY <1>0, <2>3 DEF AckerKnowledge, Numbers
      <4>2. MaybeAck(pgChangeLogWatermark', backupWatermark, lastTx, lastStatus)
        BY <3>1
      <4> QED
        BY <2>0, <2>3, <4>1, <4>2, MaybeAckSafe DEF AckerKnowledge, TypeOK
    <3>2. CASE kind[w] # "tx"
      BY <1>0, <2>3, <3>2
      DEF AckerKnowledge, Durable, ConfirmedIsDurable, SourceAwaits, Numbers
    <3> QED
      BY <3>1, <3>2
  <2>5. AckerKnowledge'
    BY <1>0, <2>0, <2>4 DEF AckerKnowledge, Numbers
  <2> QED
    BY <2>1, <2>2, <2>4, <2>5
<1>9. ASSUME NEW w \in LSN, BackupProgress(w) PROVE AckInvariant'
  BY <1>0, <1>9
  DEF BackupProgress, sourceVars, ackerVars, StreamOrder, StreamComplete,
      AckerKnowledge, Durable, SourceAwaits, ConfirmedIsDurable
<1>10. CASE TrackBackupWatermark
  <2> USE <1>10 DEF TrackBackupWatermark, storeVars
  <2>1. StreamOrder' /\ StreamComplete'
    BY <1>0 DEF StreamOrder, StreamComplete
  <2>2. /\ lastWatermark <= lastWatermark' /\ lastWatermark' <= pushed
        /\ pgChangeLogWatermark <= lastWatermark'
    BY <1>0 DEF StreamOrder, AckerKnowledge, Numbers
  <2>3. \A p \in Published : p <= lastStatus => p <= lastTx \/ p <= lastWatermark'
    BY <1>0 DEF AckerKnowledge, Numbers
  <2>4. /\ Durable(lastAck)'
        /\ lastAck' <= pushed'
        /\ ConfirmedIsDurable'
        /\ SourceAwaits'
    BY <2>2, <2>3, MaybeAckSafe DEF AckerKnowledge, TypeOK
  <2>5. AckerKnowledge'
    BY <1>0, <2>4 DEF AckerKnowledge
  <2> QED
    BY <2>1, <2>4, <2>5
<1>11. CASE Reconnect \/ Restart
  <2> USE <1>11 DEF Reconnect, Restart, StartStream, storeVars
  <2>0. /\ \A i \in 1 .. Len(stream') : FALSE
        /\ lastWatermark' = lastWatermark /\ consumed' = lastWatermark
        /\ pushed' = lastWatermark /\ openTx' = 0
    OBVIOUS
  <2>1. StreamOrder'
    <3>1. lastWatermark \in Nat
      BY <1>0 DEF Numbers
    <3>2. (lastWatermark <= consumed /\ consumed <= pushed)'
      BY <2>0, <3>1
    <3> HIDE <1>11
    <3>3. \A i \in 1 .. Len(stream') : \A j \in 1 .. Len(stream') : FALSE
      BY <2>0
    <3> QED
      BY <2>0, <3>2, <3>3, Zenon DEF StreamOrder
  <2>2. StreamComplete'
    BY <1>0 DEF StreamComplete, Numbers, StreamNumbers
  <2>3. AckerKnowledge'
    BY <1>0 DEF AckerKnowledge, Durable, Numbers
  <2>4. SourceAwaits'
    BY <1>0 DEF SourceAwaits, Numbers
  <2>5. ConfirmedIsDurable'
    BY <1>0 DEF ConfirmedIsDurable
  <2> QED
    BY <2>1, <2>2, <2>3, <2>4, <2>5
<1>12. CASE UNCHANGED vars
  BY <1>0, <1>12
  DEF vars, sourceVars, ackerVars, StreamOrder, StreamComplete,
      AckerKnowledge, Durable, SourceAwaits, ConfirmedIsDurable
<1> QED
  BY <1>1, <1>2, <1>3, <1>4, <1>5, <1>6, <1>7, <1>8, <1>9, <1>10, <1>11, <1>12
  DEF Next

\* The stream between Acker and UpstreamAcker stays ordered and complete, and
\* neither acker knows more than is durable, for every upstream log.
THEOREM AckInductive == Spec => []AckInvariant
<1>1. Init => AckInvariant
  BY AckInit
<1>2. TypeOK /\ TypeOK' /\ AckInvariant /\ [Next]_vars => AckInvariant'
  BY AckNext
<1> QED
  BY <1>1, <1>2, TypeCorrect, PTL DEF Spec

\* No transaction is lost between the upstream slot and the change DB: what
\* the slot was told to forget is durable, for any upstream log, any schedule
\* of reconnects and restarts, with and without litestream v5.
THEOREM ConfirmedDurable == Spec => []ConfirmedIsDurable
<1>1. AckInvariant => ConfirmedIsDurable
  BY DEF AckInvariant
<1> QED
  BY <1>1, AckInductive, PTL

============================================================================
