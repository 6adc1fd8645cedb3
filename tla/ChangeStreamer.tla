--------------------------- MODULE ChangeStreamer ---------------------------
(***************************************************************************)
(* How transactions travel from the upstream to the replicas.              *)
(*                                                                         *)
(* The change-streamer reads one upstream stream and hands every change,   *)
(* in the same turn of its loop, to two components: the Storer, which      *)
(* writes whole transactions to the change DB behind an asynchronous       *)
(* queue, and the Forwarder, which sends the change to the subscribers     *)
(* that are active.  A subscriber that is behind is caught up from a       *)
(* snapshot of the change DB while its live changes collect in a backlog.  *)
(* Storer and Forwarder agree on where a subscriber's history ends and its *)
(* live changes begin only because both see the same order of changes and  *)
(* subscriptions.                                                          *)
(*                                                                         *)
(* Transactions are numbered by their watermarks, 1 .. MaxTx.  The message *)
(* "begin" stands for the begin and the data changes that follow it.       *)
(* Watermark 0 is the replica version, at which the initial sync was made. *)
(***************************************************************************)
EXTENDS Naturals, Sequences, FiniteSets

CONSTANTS Replicas,     \* the subscribing replicas
          Backup,       \* the replica that litestream backs up, if explored
          MaxTx,        \* the last upstream transaction explored
          Start,        \* transactions replicated everywhere at the start
          MaxQueue,     \* how far the Storer may fall behind
          Faults,       \* the faults that may happen
          MaxFaults     \* how many of them

ASSUME ReplicasAssumption == IsFiniteSet(Replicas)
ASSUME TxAssumption == MaxTx \in Nat /\ Start \in 0 .. MaxTx
ASSUME FaultsAssumption ==
    /\ Faults \subseteq {"disconnect", "storer", "late", "rollback", "crash"}
    /\ MaxFaults \in Nat
    /\ MaxQueue \in Nat

Watermark == 0 .. MaxTx

VARIABLES
    changeLog,      \* watermarks of the transactions in the change DB
    lastWatermark,  \* replicationState.lastWatermark
    resetRequired,  \* replicationConfig.resetRequired
    backedUp,       \* watermark of the latest litestream backup
    purgeFloor,     \* watermark a running purge deletes up to, or 0
    phase,          \* of the change-streamer's run loop
    next,           \* the next transaction the upstream sends
    watermark,      \* of the transaction the run loop is in, or 0
    inTransaction,  \* the Forwarder's #inTransaction
    running,        \* whether the Storer's loop runs
    queue,          \* the Storer's #queue
    tx,             \* the transaction open in the Storer, or 0
    catchupQueue,   \* subscribers waiting for that transaction to end
    sub,            \* the Subscriber that serves each replica
    replicaWm,      \* durable watermark of each replica
    replicaTx,      \* transaction open in each replica, or 0
    faults          \* number of faults so far

dbVars == <<changeLog, lastWatermark, resetRequired>>
loopVars == <<phase, next, watermark, inTransaction>>
storerVars == <<running, queue, tx, catchupQueue>>
replicaVars == <<replicaWm, replicaTx>>
vars == <<dbVars, backedUp, purgeFloor, loopVars, storerVars, sub, replicaVars, faults>>

NoSubscriber == [state |-> "off", forwarder |-> "out", watermark |-> 0,
                 backlog |-> <<>>, rows |-> {}, downstream |-> <<>>]

Init ==
    /\ changeLog = 0 .. Start
    /\ lastWatermark = Start
    /\ resetRequired = FALSE
    /\ backedUp = Start
    /\ purgeFloor = 0
    /\ phase = "stopping"
    /\ next = Start + 1
    /\ watermark = 0
    /\ inTransaction = FALSE
    /\ running = FALSE
    /\ queue = <<>>
    /\ tx = 0
    /\ catchupQueue = {}
    /\ sub = [r \in Replicas |-> NoSubscriber]
    /\ replicaWm = [r \in Replicas |-> Start]
    /\ replicaTx = [r \in Replicas |-> 0]
    /\ faults = 0

Fault(f) == f \in Faults /\ faults < MaxFaults /\ faults' = faults + 1

----------------------------------------------------------------------------
(* Subscriber: one per connection of a replica. *)

Buffering(x) == x.state \in {"waiting", "catchup", "sending", "draining"}

\* Mutant: changes the subscriber already has are sent again.
SendChange_Again(x, m) ==
    [x EXCEPT !.downstream = Append(@, m),
              !.watermark = IF m.tag = "commit" THEN m.watermark ELSE @]

\* #sendChange: changes at or before the subscriber's watermark are dropped.
SendChange(x, m) ==
    IF m.watermark <= x.watermark THEN x
    ELSE [x EXCEPT !.downstream = Append(@, m),
                   !.watermark = IF m.tag = "commit" THEN m.watermark ELSE @]

\* send: live changes wait in the backlog until the subscriber is caught up.
Send(x, m) ==
    IF m.watermark <= x.watermark THEN x
    ELSE IF Buffering(x) THEN [x EXCEPT !.backlog = Append(@, m)]
    ELSE SendChange(x, m)

\* close and fail; the cleanup of the subscription removes it from the
\* Forwarder.  What was already sent may still reach the replica.
Close(x) == [x EXCEPT !.state = "closed", !.forwarder = "out",
                      !.backlog = <<>>, !.rows = {}]

CloseWithError(x) ==
    [Close(x) EXCEPT !.downstream = Append(@, [tag |-> "error", watermark |-> 0])]

\* The Storer ignores the entry of a subscriber that is gone.
Forget(q, r) ==
    LET own == {i \in 1 .. Len(q) : q[i].type = "subscriber" /\ q[i].replica = r}
        k == CHOOSE i \in own : TRUE
    IN  IF own = {} THEN q
        ELSE [i \in 1 .. Len(q) - 1 |-> IF i < k THEN q[i] ELSE q[i + 1]]

----------------------------------------------------------------------------
(* Forwarder. *)

\* #updateActiveSubscribers: the end of a transaction activates the queued.
Activate(x, tag) ==
    IF x.forwarder = "queued" /\ tag \in {"commit", "rollback"}
    THEN [x EXCEPT !.forwarder = "active"] ELSE x

\* forward: to the active subscribers, then the queued become active.
Forward(m) ==
    [r \in Replicas |->
        Activate(IF sub[r].forwarder = "active" THEN Send(sub[r], m) ELSE sub[r], m.tag)]

----------------------------------------------------------------------------
(* The change-streamer's run loop. *)

\* Mutant: the stream resumes from the last forwarded transaction.
Connect_FromForwarded ==
    /\ phase = "stopping"
    /\ ~running
    /\ phase' = "streaming"
    /\ watermark' = 0
    /\ running' = TRUE
    /\ tx' = 0
    /\ catchupQueue' = {}
    /\ UNCHANGED <<dbVars, backedUp, purgeFloor, next, inTransaction, queue, sub,
                   replicaVars, faults>>

\* A new stream from the durable watermark, and a new run of the Storer.
Connect ==
    /\ phase = "stopping"
    /\ ~running
    /\ phase' = "streaming"
    /\ next' = lastWatermark + 1
    /\ watermark' = 0
    /\ running' = TRUE
    /\ tx' = 0
    /\ catchupQueue' = {}
    /\ UNCHANGED <<dbVars, backedUp, purgeFloor, inTransaction, queue, sub,
                   replicaVars, faults>>

\* store and forward, in one turn of the loop.
StoreAndForward(m) ==
    /\ queue' = Append(queue, [type |-> "change", tag |-> m.tag, watermark |-> m.watermark])
    /\ sub' = Forward(m)
    /\ inTransaction' = (m.tag = "begin")

\* The stream yields changes; once the Storer has failed at most one more,
\* which the loop was about to handle.
Receiving ==
    \/ phase = "streaming" /\ UNCHANGED <<phase, faults>>
    \/ phase = "cancelled" /\ phase' = "ended" /\ Fault("late")

ReceiveBegin ==
    /\ Receiving
    /\ watermark = 0
    /\ next <= MaxTx
    /\ Len(queue) < MaxQueue
    /\ StoreAndForward([tag |-> "begin", watermark |-> next])
    /\ watermark' = next
    /\ UNCHANGED <<dbVars, backedUp, purgeFloor, next, running, tx, catchupQueue, replicaVars>>

\* A commit may leave the loop waiting for flow control, with the watermark
\* of the transaction still set although it has been forwarded.
ReceiveCommit ==
    /\ Receiving
    /\ inTransaction
    /\ StoreAndForward([tag |-> "commit", watermark |-> watermark])
    /\ next' = next + 1
    /\ watermark' \in {0, watermark}
    /\ UNCHANGED <<dbVars, backedUp, purgeFloor, running, tx, catchupQueue, replicaVars>>

FlowControlDone ==
    /\ phase = "streaming"
    /\ watermark # 0
    /\ ~inTransaction
    /\ watermark' = 0
    /\ UNCHANGED <<dbVars, backedUp, purgeFloor, phase, next, inTransaction, storerVars,
                   sub, replicaVars, faults>>

\* The change source rolls its transaction back.
ReceiveRollback ==
    /\ Fault("rollback")
    /\ phase = "streaming"
    /\ inTransaction
    /\ StoreAndForward([tag |-> "rollback", watermark |-> watermark])
    /\ watermark' = 0
    /\ UNCHANGED <<dbVars, backedUp, purgeFloor, phase, next, running, tx, catchupQueue, replicaVars>>

Abort == [type |-> "abort"]

Stop == [type |-> "stop"]

\* After the stream has ended: abort the transaction the loop was in, tell
\* the subscribers, and stop the Storer, which drains its queue first.
EndStream ==
    /\ phase' = "stopping"
    /\ queue' = queue \o (IF watermark # 0 THEN <<Abort>> ELSE <<>>)
                      \o (IF running THEN <<Abort, Stop>> ELSE <<>>)
    /\ sub' = IF watermark # 0
              THEN Forward([tag |-> "rollback", watermark |-> watermark]) ELSE sub
    /\ watermark' = 0
    /\ inTransaction' = FALSE
    /\ UNCHANGED <<dbVars, backedUp, purgeFloor, next, running, tx, catchupQueue, replicaVars>>

\* The upstream connection is lost.
Disconnect ==
    /\ Fault("disconnect")
    /\ phase = "streaming"
    /\ EndStream

\* The Storer has cancelled the stream.
Interrupt ==
    /\ phase \in {"cancelled", "ended"}
    /\ EndStream
    /\ UNCHANGED faults

----------------------------------------------------------------------------
(* Storer. *)

\* #startCatchup: a snapshot of the change DB is taken for each subscriber.
StartCatchup(x, log, last) ==
    [x EXCEPT !.state = "catchup",
              !.rows = {w \in log : x.watermark <= w /\ w <= last}]

\* Mutant: the subscribers in catchupQueue are not disconnected.
StorerFails_KeepsCatchupQueue ==
    /\ running' = FALSE
    /\ queue' = <<>>
    /\ tx' = 0
    /\ catchupQueue' = {}
    /\ sub' = [r \in Replicas |->
                  IF \E i \in 1 .. Len(queue) : /\ queue[i].type = "subscriber"
                                                /\ queue[i].replica = r
                  THEN Close(sub[r]) ELSE sub[r]]
    /\ phase' = IF phase = "streaming" THEN "cancelled" ELSE phase

\* An exception ends the Storer's loop: the subscribers in catchupQueue and
\* in the queue are disconnected and the stream is cancelled.
StorerFails ==
    LET lost == catchupQueue \cup {r \in Replicas :
                    \E i \in 1 .. Len(queue) : queue[i].type = "subscriber"
                                               /\ queue[i].replica = r}
    IN  /\ running' = FALSE
        /\ queue' = <<>>
        /\ tx' = 0
        /\ catchupQueue' = {}
        /\ sub' = [r \in Replicas |-> IF r \in lost THEN Close(sub[r]) ELSE sub[r]]
        /\ phase' = IF phase = "streaming"
                    THEN (IF watermark # 0 /\ ~inTransaction THEN "ended" ELSE "cancelled")
                    ELSE phase

Dequeue(type) ==
    /\ running
    /\ queue # <<>>
    /\ Head(queue).type = type

DequeueChange(tag) ==
    /\ Dequeue("change")
    /\ Head(queue).tag = tag

StoreBegin ==
    /\ DequeueChange("begin")
    /\ tx = 0
    /\ queue' = Tail(queue)
    /\ tx' = Head(queue).watermark
    /\ UNCHANGED <<dbVars, backedUp, purgeFloor, loopVars, running, catchupQueue, sub,
                   replicaVars, faults>>

\* The whole transaction and lastWatermark become durable together; then the
\* waiting subscribers are caught up from a snapshot that includes it.
StoreCommit ==
    /\ DequeueChange("commit")
    /\ tx # 0
    /\ queue' = Tail(queue)
    /\ tx' = 0
    /\ changeLog' = changeLog \cup {tx}
    /\ lastWatermark' = tx
    /\ catchupQueue' = {}
    /\ sub' = [r \in Replicas |->
                  IF r \in catchupQueue THEN StartCatchup(sub[r], changeLog', lastWatermark')
                  ELSE sub[r]]
    /\ UNCHANGED <<resetRequired, backedUp, purgeFloor, loopVars, running, replicaVars, faults>>

StoreRollback ==
    /\ DequeueChange("rollback")
    /\ tx # 0
    /\ queue' = Tail(queue)
    /\ tx' = 0
    /\ catchupQueue' = {}
    /\ sub' = [r \in Replicas |->
                  IF r \in catchupQueue THEN StartCatchup(sub[r], changeLog, lastWatermark)
                  ELSE sub[r]]
    /\ UNCHANGED <<dbVars, backedUp, purgeFloor, loopVars, running, replicaVars, faults>>

\* The asserts on tx: a change left over from before the Storer failed.
StoreAssertFails ==
    /\ Dequeue("change")
    /\ (Head(queue).tag = "begin") = (tx # 0)
    /\ StorerFails
    /\ UNCHANGED <<dbVars, backedUp, purgeFloor, next, watermark, inTransaction,
                   replicaVars, faults>>

\* Mutant: a subscriber is caught up although a transaction is open.
StoreSubscriber_AtOnce ==
    /\ Dequeue("subscriber")
    /\ queue' = Tail(queue)
    /\ sub' = [sub EXCEPT ![Head(queue).replica] =
                  StartCatchup(@, changeLog, lastWatermark)]
    /\ UNCHANGED <<dbVars, backedUp, purgeFloor, loopVars, running, tx, catchupQueue,
                   replicaVars, faults>>

\* A subscriber waits for the open transaction, or is caught up at once.
StoreSubscriber ==
    /\ Dequeue("subscriber")
    /\ queue' = Tail(queue)
    /\ LET r == Head(queue).replica IN
       IF tx # 0
       THEN /\ catchupQueue' = catchupQueue \cup {r}
            /\ UNCHANGED sub
       ELSE /\ sub' = [sub EXCEPT ![r] = StartCatchup(@, changeLog, lastWatermark)]
            /\ UNCHANGED catchupQueue
    /\ UNCHANGED <<dbVars, backedUp, purgeFloor, loopVars, running, tx, replicaVars, faults>>

StoreAbort ==
    /\ Dequeue("abort")
    /\ queue' = Tail(queue)
    /\ tx' = 0
    /\ UNCHANGED <<dbVars, backedUp, purgeFloor, loopVars, running, catchupQueue, sub,
                   replicaVars, faults>>

\* The loop ends; what is queued behind 'stop' is cancelled.
StoreStop ==
    /\ Dequeue("stop")
    /\ running' = FALSE
    /\ queue' = <<>>
    /\ tx' = 0
    /\ catchupQueue' = {}
    /\ sub' = [r \in Replicas |->
                  IF \E i \in 1 .. Len(queue) : /\ queue[i].type = "subscriber"
                                                /\ queue[i].replica = r
                  THEN Close(sub[r]) ELSE sub[r]]
    /\ UNCHANGED <<dbVars, backedUp, purgeFloor, loopVars, replicaVars, faults>>

\* A statement fails, or the change DB connection is lost.
StorerError ==
    /\ Fault("storer")
    /\ running
    /\ StorerFails
    /\ UNCHANGED <<dbVars, backedUp, purgeFloor, next, watermark, inTransaction, replicaVars>>

\* The commit succeeds, but its answer is lost.
StorerErrorAfterCommit ==
    /\ Fault("storer")
    /\ DequeueChange("commit")
    /\ tx # 0
    /\ changeLog' = changeLog \cup {tx}
    /\ lastWatermark' = tx
    /\ StorerFails
    /\ UNCHANGED <<resetRequired, backedUp, purgeFloor, next, watermark, inTransaction,
                   replicaVars>>

\* #catchup decides whether the change DB still holds what the subscriber
\* needs.  The backup replica being too old requires a reset.
WatermarkFound(x) == x.watermark = 0 \/ x.watermark \in x.rows

CatchupStarts(r) ==
    /\ sub[r].state = "catchup"
    /\ WatermarkFound(sub[r]) \/ sub[r].rows = {}
    /\ sub' = [sub EXCEPT ![r].state = "sending", ![r].rows = @ \ {sub[r].watermark}]
    /\ UNCHANGED <<dbVars, backedUp, purgeFloor, loopVars, storerVars, replicaVars, faults>>

CatchupTooOld(r) ==
    /\ sub[r].state = "catchup"
    /\ ~WatermarkFound(sub[r])
    /\ sub[r].rows # {}
    /\ sub' = [sub EXCEPT ![r] = IF r = Backup THEN Close(@) ELSE CloseWithError(@)]
    /\ resetRequired' = (resetRequired \/ r = Backup)
    /\ UNCHANGED <<changeLog, lastWatermark, backedUp, purgeFloor, loopVars, storerVars,
                   replicaVars, faults>>

\* catchup: the next transaction of the snapshot is sent.
SendTransaction(x, w) ==
    LET begun == SendChange(x, [tag |-> "begin", watermark |-> w])
        sent == SendChange(begun, [tag |-> "commit", watermark |-> w])
    IN  [sent EXCEPT !.rows = x.rows \ {w}]

CatchupSends(r) ==
    /\ sub[r].state = "sending"
    /\ \E w \in sub[r].rows :
         /\ \A v \in sub[r].rows : w <= v
         /\ sub' = [sub EXCEPT ![r] = SendTransaction(@, w)]
    /\ UNCHANGED <<dbVars, backedUp, purgeFloor, loopVars, storerVars, replicaVars, faults>>

SetCaughtUp(r) ==
    /\ sub[r].state = "sending"
    /\ sub[r].rows = {}
    /\ sub' = [sub EXCEPT ![r].state = "draining"]
    /\ UNCHANGED <<dbVars, backedUp, purgeFloor, loopVars, storerVars, replicaVars, faults>>

\* #drainBacklog: live changes keep joining the backlog until it is empty.
Drain(x) ==
    IF x.backlog = <<>> THEN [x EXCEPT !.state = "live"]
    ELSE [SendChange(x, Head(x.backlog)) EXCEPT !.backlog = Tail(x.backlog)]

DrainBacklog(r) ==
    /\ sub[r].state = "draining"
    /\ sub' = [sub EXCEPT ![r] = Drain(@)]
    /\ UNCHANGED <<dbVars, backedUp, purgeFloor, loopVars, storerVars, replicaVars, faults>>

----------------------------------------------------------------------------
(* Purging the change DB. *)

SetMin(S) == CHOOSE m \in S : \A v \in S : m <= v

SetMax(S) == CHOOSE m \in S : \A v \in S : v <= m

\* #getCleanupFloor: nothing that the backup or a connected subscriber has
\* not acknowledged may go.
CleanupFloor ==
    SetMin({backedUp} \cup {replicaWm[r] : r \in {q \in Replicas : sub[q].forwarder # "out"}})

\* purgePGChangeLog fixes the floor ...
StartPurge ==
    /\ purgeFloor = 0
    /\ \E w \in changeLog : w < CleanupFloor
    /\ purgeFloor' = CleanupFloor
    /\ UNCHANGED <<dbVars, backedUp, loopVars, storerVars, sub, replicaVars, faults>>

\* Mutant: the purge includes the floor itself.
Purged_Inclusive(log, floor) == {w \in log : floor < w \/ w = SetMax(log)}

\* purgeRecordsBefore: the latest transaction is kept as catchup boundary.
Purged(log, floor) == {w \in log : floor <= w \/ w = SetMax(log)}

\* ... and the rows below it are deleted some time later.
FinishPurge ==
    /\ purgeFloor # 0
    /\ changeLog' = Purged(changeLog, purgeFloor)
    /\ purgeFloor' = 0
    /\ UNCHANGED <<lastWatermark, resetRequired, backedUp, loopVars, storerVars, sub,
                   replicaVars, faults>>

----------------------------------------------------------------------------
(* The replicas (IncrementalSyncer), their backup and the process. *)

\* Mutant: the replica asks for what follows its next transaction.
Subscribe_NextWatermark(r) ==
    /\ sub[r].state = "off"
    /\ phase \in {"streaming", "stopping"}
    /\ sub' = [sub EXCEPT ![r] =
          [NoSubscriber EXCEPT !.state = "waiting",
                               !.forwarder = IF inTransaction THEN "queued" ELSE "active",
                               !.watermark = replicaWm[r] + 1]]
    /\ queue' = Append(queue, [type |-> "subscriber", replica |-> r])
    /\ UNCHANGED <<dbVars, backedUp, purgeFloor, loopVars, running, tx, catchupQueue,
                   replicaVars, faults>>

\* subscribe: Forwarder.add in lock step with Storer.catchup.  A request is
\* a task of its own: it does not come between the failure of the Storer and
\* the end of the stream, which are continuations of one task.
Subscribe(r) ==
    /\ sub[r].state = "off"
    /\ phase \in {"streaming", "stopping"}
    /\ sub' = [sub EXCEPT ![r] =
          [NoSubscriber EXCEPT !.state = "waiting",
                               !.forwarder = IF inTransaction THEN "queued" ELSE "active",
                               !.watermark = replicaWm[r]]]
    /\ queue' = Append(queue, [type |-> "subscriber", replica |-> r])
    /\ UNCHANGED <<dbVars, backedUp, purgeFloor, loopVars, running, tx, catchupQueue,
                   replicaVars, faults>>

NextMessage(r, tag) ==
    /\ sub[r].downstream # <<>>
    /\ Head(sub[r].downstream).tag = tag

ReplicaBegins(r) ==
    /\ NextMessage(r, "begin")
    /\ replicaTx' = [replicaTx EXCEPT ![r] = Head(sub[r].downstream).watermark]
    /\ sub' = [sub EXCEPT ![r].downstream = Tail(@)]
    /\ UNCHANGED <<dbVars, backedUp, purgeFloor, loopVars, storerVars, replicaWm, faults>>

ReplicaCommits(r) ==
    /\ NextMessage(r, "commit")
    /\ replicaWm' = [replicaWm EXCEPT ![r] = Head(sub[r].downstream).watermark]
    /\ replicaTx' = [replicaTx EXCEPT ![r] = 0]
    /\ sub' = [sub EXCEPT ![r].downstream = Tail(@)]
    /\ UNCHANGED <<dbVars, backedUp, purgeFloor, loopVars, storerVars, faults>>

ReplicaRollsBack(r) ==
    /\ NextMessage(r, "rollback")
    /\ replicaTx' = [replicaTx EXCEPT ![r] = 0]
    /\ sub' = [sub EXCEPT ![r].downstream = Tail(@)]
    /\ UNCHANGED <<dbVars, backedUp, purgeFloor, loopVars, storerVars, replicaWm, faults>>

\* An error message: the replica is deleted and restored from the backup.
ReplicaRestores(r) ==
    /\ NextMessage(r, "error")
    /\ replicaWm' = [replicaWm EXCEPT ![r] = backedUp]
    /\ replicaTx' = [replicaTx EXCEPT ![r] = 0]
    /\ sub' = [sub EXCEPT ![r] = NoSubscriber]
    /\ UNCHANGED <<dbVars, backedUp, purgeFloor, loopVars, storerVars, faults>>

\* The stream ends on either side: the open transaction is aborted, and the
\* replica will subscribe again from its durable watermark.
StreamEnds(r) ==
    /\ sub[r].state # "off"
    /\ sub' = [sub EXCEPT ![r] = NoSubscriber]
    /\ replicaTx' = [replicaTx EXCEPT ![r] = 0]
    /\ queue' = Forget(queue, r)
    /\ catchupQueue' = catchupQueue \ {r}
    /\ UNCHANGED <<dbVars, backedUp, purgeFloor, loopVars, running, tx, replicaWm, faults>>

\* External: litestream uploads the backup replica, which has some of the
\* forwarded transactions if it is not one of the replicas explored.
BackUp ==
    /\ backedUp' \in IF Backup \in Replicas THEN {replicaWm[Backup]} ELSE 1 .. next - 1
    /\ backedUp < backedUp'
    /\ UNCHANGED <<dbVars, purgeFloor, loopVars, storerVars, sub, replicaVars, faults>>

\* The process dies and is replaced, on its volume or on a fresh one.
Crash ==
    /\ Fault("crash")
    /\ phase' = "stopping"
    /\ next' = lastWatermark + 1
    /\ watermark' = 0
    /\ inTransaction' = FALSE
    /\ running' = FALSE
    /\ queue' = <<>>
    /\ tx' = 0
    /\ catchupQueue' = {}
    /\ purgeFloor' = 0
    /\ sub' = [r \in Replicas |->
                  IF r = Backup \/ sub[r].state = "off" THEN NoSubscriber ELSE Close(sub[r])]
    /\ replicaWm' \in {replicaWm, [r \in Replicas |-> IF r = Backup THEN backedUp ELSE replicaWm[r]]}
    /\ replicaTx' = [r \in Replicas |-> IF r = Backup THEN 0 ELSE replicaTx[r]]
    /\ UNCHANGED <<dbVars, backedUp>>

Next ==
    \/ Connect
    \/ ReceiveBegin
    \/ ReceiveCommit
    \/ FlowControlDone
    \/ ReceiveRollback
    \/ Disconnect
    \/ Interrupt
    \/ StoreBegin
    \/ StoreCommit
    \/ StoreRollback
    \/ StoreAssertFails
    \/ StoreSubscriber
    \/ StoreAbort
    \/ StoreStop
    \/ StorerError
    \/ StorerErrorAfterCommit
    \/ StartPurge
    \/ FinishPurge
    \/ BackUp
    \/ Crash
    \/ \E r \in Replicas :
          \/ CatchupStarts(r)
          \/ CatchupTooOld(r)
          \/ CatchupSends(r)
          \/ SetCaughtUp(r)
          \/ DrainBacklog(r)
          \/ Subscribe(r)
          \/ ReplicaBegins(r)
          \/ ReplicaCommits(r)
          \/ ReplicaRollsBack(r)
          \/ ReplicaRestores(r)
          \/ StreamEnds(r)

Spec == Init /\ [][Next]_vars

\* The upstream finishes the transactions it begins, and the loops of the
\* change-streamer, the Storer and the catchups keep running.  Nothing
\* obliges the upstream to begin a transaction, or a replica to read.
Fairness ==
    /\ WF_vars(Connect)
    /\ WF_vars(ReceiveCommit)
    /\ WF_vars(FlowControlDone)
    /\ WF_vars(Interrupt)
    /\ WF_vars(StoreBegin)
    /\ WF_vars(StoreCommit)
    /\ WF_vars(StoreRollback)
    /\ WF_vars(StoreAssertFails)
    /\ WF_vars(StoreSubscriber)
    /\ WF_vars(StoreAbort)
    /\ WF_vars(StoreStop)
    /\ \A r \in Replicas :
          /\ WF_vars(CatchupStarts(r))
          /\ WF_vars(CatchupTooOld(r))
          /\ WF_vars(CatchupSends(r))
          /\ WF_vars(SetCaughtUp(r))
          /\ WF_vars(DrainBacklog(r))

FairSpec == Spec /\ Fairness

----------------------------------------------------------------------------
Message == [tag : {"begin", "commit", "rollback", "error"}, watermark : Watermark]

Subscriber ==
    [state : {"off", "waiting", "catchup", "sending", "draining", "live", "closed"},
     forwarder : {"out", "queued", "active"},
     watermark : Watermark,
     backlog : Seq(Message),
     rows : SUBSET Watermark,
     downstream : Seq(Message)]

Entry ==
    [type : {"change"}, tag : {"begin", "commit", "rollback"}, watermark : Watermark]
    \cup [type : {"subscriber"}, replica : Replicas]
    \cup {Abort, Stop}

\* Every variable holds a value that the fields of the code can hold.
TypeOK ==
    /\ changeLog \subseteq Watermark
    /\ lastWatermark \in Watermark
    /\ resetRequired \in BOOLEAN
    /\ backedUp \in Watermark
    /\ purgeFloor \in Watermark
    /\ phase \in {"streaming", "cancelled", "ended", "stopping"}
    /\ next \in 1 .. MaxTx + 1
    /\ watermark \in Watermark
    /\ inTransaction \in BOOLEAN
    /\ running \in BOOLEAN
    /\ queue \in Seq(Entry)
    /\ tx \in Watermark
    /\ catchupQueue \subseteq Replicas
    /\ sub \in [Replicas -> Subscriber]
    /\ replicaWm \in [Replicas -> Watermark]
    /\ replicaTx \in [Replicas -> Watermark]
    /\ faults \in 0 .. MaxFaults

\* What a replica receives next always continues what it has: whole
\* transactions, one after the other, none missing and none twice, whatever
\* mix of catchup (Storer.#catchup), backlog and live changes
\* (Subscriber.send) it comes from.
DeliversInOrder ==
    \A r \in Replicas : sub[r].downstream # <<>> =>
        LET m == Head(sub[r].downstream) IN
        /\ m.tag = "begin" => replicaTx[r] = 0 /\ m.watermark = replicaWm[r] + 1
        /\ m.tag \in {"commit", "rollback"} => m.watermark = replicaTx[r]

\* The change DB holds an unbroken run of transactions that ends in
\* lastWatermark, although commits are stored behind the forwarded stream,
\* commits of unknown outcome are sent again and purges run concurrently.
LogIsContiguous ==
    /\ lastWatermark \in changeLog
    /\ \A w \in changeLog : w <= lastWatermark
    /\ \A v, w \in changeLog : \A u \in v .. w : u \in changeLog

\* The change DB never loses what the backup replica needs to resume, so
\* that Storer.#catchup never requires a reset for it.
BackupNeverReset == ~resetRequired

\* A subscriber that waits for catchup is caught up or disconnected, as the
\* comment on Forwarder.#updateActiveSubscribers says of the queued ones:
\* the Storer "will retrieve historic changes and call catchup() once the
\* current transaction is committed".
CaughtUpOrClosed ==
    \A r \in Replicas :
        sub[r].state = "waiting" ~> sub[r].state \in {"live", "closed", "off"}

History == INSTANCE ReplicaHistory WITH applied <- replicaWm, backup <- backedUp

\* The change-streamer, its Storer and Forwarder and the replicas together
\* implement the gapless history of ReplicaHistory.
ImplementsHistory == History!Spec

============================================================================
