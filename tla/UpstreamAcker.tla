--------------------------- MODULE UpstreamAcker ---------------------------
(***************************************************************************)
(* How the replication-manager acknowledges upstream log positions.        *)
(*                                                                         *)
(* Two objects decide what the upstream replication slot may forget:       *)
(* UpstreamAcker in the change-streamer, which combines the progress of    *)
(* the Postgres change log and of the litestream backup, and Acker in the  *)
(* Postgres change source, which answers idle keepalives by itself.        *)
(* Between them runs the asynchronous change stream.  A position that has  *)
(* been confirmed is never sent again, so confirming a transaction that is *)
(* not yet durable loses it.                                               *)
(*                                                                         *)
(* A position (LSN, "watermark") is a number in 1..MaxLSN; 0 is the empty  *)
(* string every tracked watermark starts from.  kind[p] says what the      *)
(* upstream log holds at p: a published transaction, a backfill            *)
(* transaction (begin carries skipAck), or nothing of interest ("idle").   *)
(* The watermark of a backfill transaction, a minor version of the last    *)
(* transaction, is abstracted to a position of its own after it.           *)
(***************************************************************************)
EXTENDS Naturals, Sequences

CONSTANTS MaxLSN,       \* the last upstream position explored
          Kinds,        \* the kinds of position the upstream log may hold
          TrackBackup   \* litestream v5: acks also wait for the backup

ASSUME LSNAssumption == MaxLSN \in Nat
ASSUME KindsAssumption == Kinds \subseteq {"tx", "skip", "idle"}
ASSUME TrackBackupAssumption == TrackBackup \in BOOLEAN

LSN == 1 .. MaxLSN

Position == 0 .. MaxLSN

VARIABLES
    kind,                     \* the upstream log (never changes)
    confirmed,                \* confirmed_flush_lsn of the replication slot
    pushed,                   \* last position the change source has pushed
    openTx,                   \* transaction begun but not committed, or 0
    waitingForDownstreamAck,  \* Acker: position the change-streamer owes, or 0
    stream,                   \* the change stream, pushed but not consumed
    consumed,                 \* last commit the change-streamer consumed
    lastWatermark,            \* replicationState: last durable transaction
    backedUp,                 \* last position that is safe in the backup
    pgChangeLogWatermark, backupWatermark, lastTx, lastStatus, lastAck

sourceVars == <<pushed, openTx, waitingForDownstreamAck>>
storeVars == <<kind, lastWatermark, backedUp>>
ackerVars == <<pgChangeLogWatermark, backupWatermark, lastTx, lastStatus, lastAck>>
vars == <<kind, confirmed, sourceVars, stream, consumed, lastWatermark,
          backedUp, ackerVars>>

Max2(a, b) == IF a >= b THEN a ELSE b

Min2(a, b) == IF a <= b THEN a ELSE b

Init ==
    /\ kind \in [LSN -> Kinds]
    /\ confirmed = 0
    /\ pushed = 0
    /\ openTx = 0
    /\ waitingForDownstreamAck = 0
    /\ stream = <<>>
    /\ consumed = 0
    /\ lastWatermark = 0
    /\ backedUp = 0
    /\ pgChangeLogWatermark = 0
    /\ backupWatermark = 0
    /\ lastTx = 0
    /\ lastStatus = 0
    /\ lastAck = 0

----------------------------------------------------------------------------
(* The Postgres change source and its Acker. *)

\* The slot only ever moves forward (external: Postgres).
Confirm(w) == confirmed' = Max2(confirmed, w)

\* Acker.onChange(begin): only transactions that will be acked are awaited.
PushBegin ==
    /\ openTx = 0
    /\ pushed + 1 \in LSN
    /\ kind[pushed + 1] # "idle"
    /\ openTx' = pushed + 1
    /\ waitingForDownstreamAck' =
           IF kind[pushed + 1] = "tx" THEN pushed + 1 ELSE waitingForDownstreamAck
    /\ UNCHANGED <<confirmed, pushed, stream, consumed, storeVars, ackerVars>>

PushCommit ==
    /\ openTx # 0
    /\ stream' = Append(stream, [tag |-> "commit", lsn |-> openTx])
    /\ pushed' = Max2(pushed, openTx)
    /\ openTx' = 0
    /\ UNCHANGED <<confirmed, waitingForDownstreamAck, consumed, storeVars, ackerVars>>

\* Mutant: quiet keepalives are confirmed whatever is outstanding.
AckIfDownstreamIsCaughtUp_Unguarded(w) == Confirm(w)

\* ackIfDownstreamIsCaughtUp: a keepalive that asks for no answer confirms
\* its position unless the change-streamer still owes an ack.
AckIfDownstreamIsCaughtUp(w) ==
    IF waitingForDownstreamAck = 0 THEN Confirm(w) ELSE UNCHANGED confirmed

NextLSN == Max2(pushed, openTx) + 1

\* A keepalive at a position of its own.  It needs no reservation of the
\* stream, and so may come in the middle of a backfill transaction.
Keepalive ==
    /\ openTx # 0 => kind[openTx] = "skip"
    /\ NextLSN \in LSN
    /\ kind[NextLSN] = "idle"
    /\ pushed' = NextLSN

\* A keepalive with shouldRespond: the change-streamer has to answer it.
PushStatusForAck ==
    /\ Keepalive
    /\ waitingForDownstreamAck' = NextLSN
    /\ stream' = Append(stream, [tag |-> "status", lsn |-> NextLSN])
    /\ UNCHANGED <<confirmed, openTx, consumed, storeVars, ackerVars>>

\* A keepalive without shouldRespond is not sent downstream.
PushQuietStatus ==
    /\ Keepalive
    /\ AckIfDownstreamIsCaughtUp(NextLSN)
    /\ UNCHANGED <<openTx, waitingForDownstreamAck, stream, consumed, storeVars, ackerVars>>

\* Keepalives in the middle of a published transaction are at its commit
\* watermark, and do not ask for an answer (comment on Acker.onChange).
PushQuietStatusInTx ==
    /\ openTx # 0
    /\ kind[openTx] = "tx"
    /\ AckIfDownstreamIsCaughtUp(openTx)
    /\ UNCHANGED <<sourceVars, stream, consumed, storeVars, ackerVars>>

\* Acker.ack: an ack from the change-streamer settles what was awaited.
SourceAck(w) ==
    /\ waitingForDownstreamAck' =
           IF waitingForDownstreamAck <= w THEN 0 ELSE waitingForDownstreamAck
    /\ Confirm(w)

----------------------------------------------------------------------------
(* UpstreamAcker in the change-streamer. *)

\* Mutant: acknowledges the position after the last durable one.
CurrentWatermark_NextPosition(pg, backup) ==
    1 + (IF TrackBackup THEN Min2(pg, backup) ELSE pg)

\* currentWatermark of #maybeAck, as the stores stand at pg and backup.
CurrentWatermark(pg, backup) == IF TrackBackup THEN Min2(pg, backup) ELSE pg

\* Mutant: a status waits for a transaction strictly after the last one.
MaybeAck_StrictlyAfter(pg, backup, tx, status) ==
    LET afterCommit == Max2(lastAck, CurrentWatermark(pg, backup))
        afterStatus == IF afterCommit > tx /\ status > afterCommit
                       THEN status ELSE afterCommit
    IN  /\ lastAck' = afterStatus
        /\ IF afterStatus > lastAck
           THEN SourceAck(afterStatus)
           ELSE UNCHANGED <<waitingForDownstreamAck, confirmed>>

\* Mutant: a status is acked as soon as it is the latest position.
MaybeAck_IgnoringTx(pg, backup, tx, status) ==
    LET afterStatus == Max2(Max2(lastAck, CurrentWatermark(pg, backup)), status)
    IN  /\ lastAck' = afterStatus
        /\ IF afterStatus > lastAck
           THEN SourceAck(afterStatus)
           ELSE UNCHANGED <<waitingForDownstreamAck, confirmed>>

\* #maybeAck after the tracked watermarks became pg, backup, tx and status:
\* the new lastAck, and at most two acks pushed upstream, the larger last.
MaybeAck(pg, backup, tx, status) ==
    LET afterCommit == Max2(lastAck, CurrentWatermark(pg, backup))
        afterStatus == IF afterCommit >= tx /\ status > afterCommit
                       THEN status ELSE afterCommit
    IN  /\ lastAck' = afterStatus
        /\ IF afterStatus > lastAck
           THEN SourceAck(afterStatus)
           ELSE UNCHANGED <<waitingForDownstreamAck, confirmed>>

\* trackDownstream(commit): the transaction also goes to the storer's queue.
ConsumeCommit ==
    /\ stream # <<>>
    /\ Head(stream).tag = "commit"
    /\ stream' = Tail(stream)
    /\ consumed' = Head(stream).lsn
    /\ lastTx' = Head(stream).lsn
    /\ MaybeAck(pgChangeLogWatermark, backupWatermark, lastTx', lastStatus)
    /\ UNCHANGED <<pushed, openTx, storeVars, pgChangeLogWatermark,
                   backupWatermark, lastStatus>>

\* trackDownstream(status) with ack set.
ConsumeStatus ==
    /\ stream # <<>>
    /\ Head(stream).tag = "status"
    /\ stream' = Tail(stream)
    /\ lastStatus' = Head(stream).lsn
    /\ MaybeAck(pgChangeLogWatermark, backupWatermark, lastTx, lastStatus')
    /\ UNCHANGED <<pushed, openTx, consumed, storeVars, pgChangeLogWatermark,
                   backupWatermark, lastTx>>

\* The storer commits the next consumed transaction w to the change DB and
\* reports it to trackPgChangeLog, unless its begin said skipAck.
StorerCommit(w) ==
    /\ w \in lastWatermark + 1 .. consumed
    /\ kind[w] # "idle"
    /\ \A p \in lastWatermark + 1 .. w - 1 : kind[p] = "idle"
    /\ lastWatermark' = w
    /\ IF kind[w] = "tx"
       THEN /\ pgChangeLogWatermark' = Max2(w, pgChangeLogWatermark)
            /\ MaybeAck(pgChangeLogWatermark', backupWatermark, lastTx, lastStatus)
       ELSE UNCHANGED <<pgChangeLogWatermark, lastAck, waitingForDownstreamAck, confirmed>>
    /\ UNCHANGED <<kind, pushed, openTx, stream, consumed, backedUp,
                   backupWatermark, lastTx, lastStatus>>

\* External: the backup replica applied the stream up to w and litestream
\* uploaded it.  The backup can be ahead of the change DB.
BackupProgress(w) ==
    /\ w \in backedUp + 1 .. consumed
    /\ backedUp' = w
    /\ UNCHANGED <<kind, confirmed, sourceVars, stream, consumed,
                   lastWatermark, ackerVars>>

\* trackBackup, called by the poller that watches the backup.
TrackBackupWatermark ==
    /\ backupWatermark < backedUp
    /\ backupWatermark' = backedUp
    /\ MaybeAck(pgChangeLogWatermark, backupWatermark', lastTx, lastStatus)
    /\ UNCHANGED <<pushed, openTx, stream, consumed, storeVars,
                   pgChangeLogWatermark, lastTx, lastStatus>>

\* A new stream from the durable watermark: a new Acker, and reset().
StartStream ==
    /\ pushed' = lastWatermark
    /\ consumed' = lastWatermark
    /\ openTx' = 0
    /\ waitingForDownstreamAck' = 0
    /\ stream' = <<>>
    /\ lastTx' = 0
    /\ lastStatus' = 0
    /\ lastAck' = 0

\* The stream is interrupted; the tracked store watermarks are retained.
Reconnect ==
    /\ StartStream
    /\ UNCHANGED <<confirmed, storeVars, pgChangeLogWatermark, backupWatermark>>

\* The process dies and starts again with a new UpstreamAcker.
Restart ==
    /\ StartStream
    /\ pgChangeLogWatermark' = 0
    /\ backupWatermark' = 0
    /\ UNCHANGED <<confirmed, storeVars>>

Next ==
    \/ PushBegin
    \/ PushCommit
    \/ PushStatusForAck
    \/ PushQuietStatus
    \/ PushQuietStatusInTx
    \/ ConsumeCommit
    \/ ConsumeStatus
    \/ \E w \in LSN : StorerCommit(w)
    \/ \E w \in LSN : BackupProgress(w)
    \/ TrackBackupWatermark
    \/ Reconnect
    \/ Restart

Spec == Init /\ [][Next]_vars

\* The change-streamer's loop, the storer's loop, the backup and its poller
\* keep running; nothing obliges the upstream or the connection to act.
Fairness ==
    /\ WF_vars(ConsumeCommit)
    /\ WF_vars(ConsumeStatus)
    /\ WF_vars(\E w \in LSN : StorerCommit(w))
    /\ WF_vars(BackupProgress(consumed))
    /\ WF_vars(TrackBackupWatermark)

FairSpec == Spec /\ Fairness

----------------------------------------------------------------------------
Message == [tag : {"commit", "status"}, lsn : LSN]

\* Every variable holds a value the code's fields can hold.
TypeOK ==
    /\ kind \in [LSN -> Kinds]
    /\ confirmed \in Position
    /\ pushed \in Position
    /\ openTx \in Position
    /\ waitingForDownstreamAck \in Position
    /\ stream \in Seq(Message)
    /\ consumed \in Position
    /\ lastWatermark \in Position
    /\ backedUp \in Position
    /\ pgChangeLogWatermark \in Position
    /\ backupWatermark \in Position
    /\ lastTx \in Position
    /\ lastStatus \in Position
    /\ lastAck \in Position

Published == {p \in LSN : kind[p] = "tx"}

\* Whatever the upstream slot has been told it may forget is durable in the
\* Postgres change log, across reconnects and restarts: no transaction can be
\* lost between the slot and the change DB (UpstreamAcker.#maybeAck and
\* Acker.#ackIfDownstreamIsCaughtUp together).
ConfirmedIsDurable == \A p \in Published : p <= confirmed => p <= lastWatermark

\* The UpstreamAcker class comment's promise for litestream v5: "only
\* watermarks that have been reached by both stores are acked".
AckedByBothStores ==
    \A p \in Published : p <= lastAck => p <= lastWatermark /\ p <= backedUp

\* Every status that asks for an ack is echoed once the transactions before
\* it are stored (protocol/current/status.ts), unless the connection is
\* replaced or a transaction that is never acked (skipAck) came last.
StatusIsEchoed ==
    \A p \in LSN :
        (lastStatus = p) ~> (\/ confirmed >= p
                             \/ lastStatus = 0
                             \/ lastTx # 0 /\ kind[lastTx] = "skip")

----------------------------------------------------------------------------
(* The inductive strengthening of ConfirmedIsDurable. *)

\* All published transactions up to w are in the change DB.
Durable(w) == \A p \in Published : p <= w => p <= lastWatermark

\* The three ends of the stream are ordered, and so is the stream, except
\* that keepalives overtake the commit of a backfill transaction.
StreamOrder ==
    /\ lastWatermark <= consumed
    /\ consumed <= pushed
    /\ openTx # 0 => /\ consumed < openTx /\ openTx <= pushed + 1
                     /\ kind[openTx] # "skip" => openTx = pushed + 1
                     /\ \A i \in 1 .. Len(stream) :
                            stream[i].tag = "commit" => stream[i].lsn < openTx
    /\ \A i \in 1 .. Len(stream) : consumed < stream[i].lsn /\ stream[i].lsn <= pushed
    /\ \A i, j \in 1 .. Len(stream) : i < j =>
          \/ stream[i].lsn < stream[j].lsn
          \/ stream[i].tag = "status" /\ kind[stream[j].lsn] = "skip"

\* Every published transaction that was pushed and not consumed is on its way.
StreamComplete ==
    \A p \in Published : consumed < p /\ p <= pushed =>
        \E j \in 1 .. Len(stream) : stream[j] = [tag |-> "commit", lsn |-> p]

\* What the UpstreamAcker knows of this connection and of the change DB.
AckerKnowledge ==
    /\ pgChangeLogWatermark <= lastWatermark
    /\ consumed = lastTx \/ (lastTx = 0 /\ consumed <= lastWatermark)
    /\ lastStatus <= pushed
    /\ \A p \in Published : p <= lastStatus => p <= consumed
    /\ lastAck <= pushed
    /\ Durable(lastAck)

\* The change source awaits an ack at or after everything not yet durable.
SourceAwaits ==
    \A p \in Published :
        p <= pushed \/ p = openTx => p <= waitingForDownstreamAck \/ p <= lastWatermark

\* The inductive invariant: whatever the interleaving of source, stream,
\* storer, backup and acker, the stream is ordered and complete, the acker
\* knows no more than is true, and the source awaits what is not durable.
AckInvariant ==
    /\ StreamOrder
    /\ StreamComplete
    /\ AckerKnowledge
    /\ SourceAwaits
    /\ ConfirmedIsDurable

============================================================================
