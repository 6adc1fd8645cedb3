-------------------------- MODULE ChangeLogProofs --------------------------
(***************************************************************************)
(* That the variables of ChangeStreamer keep their types, that the change  *)
(* DB holds an unbroken run of transactions, and that it never loses what  *)
(* the backup replica needs, for any replicas, any number of transactions  *)
(* and any mix of faults.                                                  *)
(*                                                                         *)
(* The Storer works behind the run loop.  What the entries of its queue    *)
(* will do is written down as a chain of marks, one after each entry: the  *)
(* transaction that will be open then, the last one stored, and whether    *)
(* the Storer is still to be running.  Every commit that it will get to    *)
(* continues the change log, and at the end of the chain the Storer is     *)
(* where the run loop is.                                                  *)
(*                                                                         *)
(* A subscriber that is queued in the Storer is one that waits, and is     *)
(* still where its replica is; what is on its way to a replica are commits *)
(* that it does not have yet, in ascending order, so that no replica falls *)
(* back behind its backup; and the log reaches back to the backup.  So     *)
(* whatever is purged, forwarded, caught up or restarted, Storer.#catchup  *)
(* never asks for a reset of the replica.                                  *)
(***************************************************************************)
EXTENDS ChangeStreamer, SequenceTheorems, WellFoundedInduction, TLAPS

-----------------------------------------------------------------------------
(* The chain of marks. *)

Mark == [open : Watermark, done : Watermark, fate : {"runs", "stops"}]

\* What the Storer makes of an entry; a change that its asserts do not allow
\* ends it.
StoreStep(e, a) ==
    LET stops == [open |-> a.open, done |-> a.done, fate |-> "stops"]
        closes == [open |-> 0, done |-> a.done, fate |-> "runs"]
    IN
    IF a.fate = "stops" \/ e.type = "subscriber" THEN a
    ELSE IF e.type = "stop" THEN stops
    ELSE IF e.type = "abort" THEN closes
    ELSE IF (e.tag = "begin") = (a.open # 0) THEN stops
    ELSE IF e.tag = "begin" THEN [open |-> e.watermark, done |-> a.done, fate |-> "runs"]
    ELSE IF e.tag = "commit" THEN [open |-> 0, done |-> e.watermark, fate |-> "runs"]
    ELSE closes

Chain(l, q) ==
    /\ l \in [0 .. Len(q) -> Mark]
    /\ \A i \in 1 .. Len(q) : l[i] = StoreStep(q[i], l[i - 1])

\* A commit or a rollback ends the open transaction, and a commit the next one.
Legal(e, a) ==
    e.type = "change" =>
        /\ e.watermark # 0
        /\ a.fate = "runs" /\ a.open # 0 /\ e.tag = "commit" =>
              e.watermark = a.open /\ e.watermark = a.done + 1

-----------------------------------------------------------------------------
(* The invariant. *)

\* The run loop and whether the Storer runs.
Loop ==
    /\ inTransaction => watermark = next
    /\ watermark # 0 /\ ~inTransaction => watermark = next - 1
    /\ phase = "stopping" => watermark = 0 /\ ~inTransaction
    /\ phase = "streaming" => running
    /\ phase \in {"cancelled", "ended"} => ~running
    /\ phase = "cancelled" => queue = << >>
    /\ ~running => tx = 0 /\ catchupQueue = {}
    /\ \A i \in 1 .. Len(queue) : queue[i].type = "stop" => phase = "stopping" /\ running

\* What the Storer will do with what is queued, if next transaction is n.
Marks(l, q, n) ==
    /\ Chain(l, q)
    /\ l[0] = [open |-> tx, done |-> lastWatermark, fate |-> "runs"]
    /\ \A i \in 1 .. Len(q) : Legal(q[i], l[i - 1])
    /\ \A i \in 0 .. Len(q) : l[i].fate = "runs" =>
          l[i].done < n /\ (~running => l[i].done = lastWatermark)

\* Where it will be in the end.
Ends(l) ==
    LET end == l[Len(queue)] IN
    /\ phase = "streaming" /\ end.fate = "runs" =>
          end.done = next - 1 /\ end.open = IF inTransaction THEN next ELSE 0
    /\ phase # "streaming" /\ end.fate = "runs" => ~running /\ (watermark = 0 => end.open = 0)

Ledger(l) == Marks(l, queue, next) /\ Ends(l)

StorerInvariant ==
    /\ TypeOK
    /\ LogIsContiguous
    /\ Loop
    /\ \E l : Ledger(l)

-----------------------------------------------------------------------------
(* Facts about watermarks and sequences. *)

LEMMA WatermarkType == /\ MaxTx \in Nat /\ Start \in Watermark /\ 0 \in Watermark
                       /\ \A w \in Watermark : w \in Nat /\ w <= MaxTx
                       /\ \A w \in Nat : w <= MaxTx => w \in Watermark
BY TxAssumption DEF Watermark

\* A set of watermarks has a least member.
LEMMA LeastWatermark ==
    ASSUME NEW S \in SUBSET Watermark, S # {}
    PROVE  SetMin(S) \in S /\ \A v \in S : SetMin(S) <= v
<1>1. S \subseteq Nat
  BY WatermarkType
<1>2. PICK x \in S : \A y \in S : ~ (<<y, x>> \in OpToRel(<, Nat))
  BY <1>1, NatLessThanWellFounded, WFMin
<1>3. \A y \in S : ~ (y < x)
  BY <1>1, <1>2 DEF OpToRel
<1>4. \A y \in S : x <= y
  BY <1>1, <1>3
<1> QED
  BY <1>4 DEF SetMin

LEMMA TailOf ==
    ASSUME NEW S, NEW q \in Seq(S), q # << >>
    PROVE  /\ Len(q) \in Nat \ {0} /\ Head(q) = q[1] /\ Head(q) \in S
           /\ Tail(q) \in Seq(S) /\ Len(Tail(q)) = Len(q) - 1
           /\ \A i \in 1 .. Len(q) - 1 : Tail(q)[i] = q[i + 1]
BY HeadTailProperties, EmptySeq, LenProperties

LEMMA AppendOf ==
    ASSUME NEW S, NEW q \in Seq(S), NEW e \in S
    PROVE  /\ Len(q) \in Nat
           /\ Append(q, e) \in Seq(S) /\ Len(Append(q, e)) = Len(q) + 1
           /\ \A i \in 1 .. Len(q) : Append(q, e)[i] = q[i]
           /\ Append(q, e)[Len(q) + 1] = e
BY LenProperties

-----------------------------------------------------------------------------
(* Types. *)

LEMMA SendTypes ==
    ASSUME NEW x \in Subscriber, NEW m \in Message
    PROVE  SendChange(x, m) \in Subscriber /\ Send(x, m) \in Subscriber
<1>1. Append(x.downstream, m) \in Seq(Message) /\ Append(x.backlog, m) \in Seq(Message)
  BY DEF Subscriber
<1>2. SendChange(x, m) \in Subscriber
  BY <1>1 DEF SendChange, Subscriber, Message
<1> QED
  BY <1>1, <1>2 DEF Send, Subscriber

LEMMA CloseTypes ==
    ASSUME NEW x \in Subscriber
    PROVE  /\ NoSubscriber \in Subscriber
           /\ Close(x) \in Subscriber
           /\ CloseWithError(x) \in Subscriber
<1>1. << >> \in Seq(Message) /\ {} \in SUBSET Watermark /\ 0 \in Watermark
  BY EmptySeq, WatermarkType
<1>2. NoSubscriber \in Subscriber
  BY <1>1 DEF NoSubscriber, Subscriber
<1>3. Close(x) \in Subscriber
  BY <1>1 DEF Close, Subscriber
<1>4. [tag |-> "error", watermark |-> 0] \in Message
  BY <1>1 DEF Message
<1>5. Append(Close(x).downstream, [tag |-> "error", watermark |-> 0]) \in Seq(Message)
  BY <1>3, <1>4 DEF Subscriber
<1> QED
  BY <1>2, <1>3, <1>5 DEF CloseWithError, Subscriber

LEMMA CatchupTypes ==
    ASSUME NEW x \in Subscriber, NEW log \in SUBSET Watermark, NEW last \in Watermark
    PROVE  StartCatchup(x, log, last) \in Subscriber
BY DEF StartCatchup, Subscriber

LEMMA ForwardTypes ==
    ASSUME sub \in [Replicas -> Subscriber], NEW m \in Message
    PROVE  Forward(m) \in [Replicas -> Subscriber]
<1>1. \A r \in Replicas : sub[r] \in Subscriber /\ Send(sub[r], m) \in Subscriber
  BY SendTypes
<1>2. \A x \in Subscriber : Activate(x, m.tag) \in Subscriber
  BY DEF Activate, Subscriber
<1> QED
  BY <1>1, <1>2 DEF Forward

\* What the run loop puts in the queue and sends.
LEMMA EntryTypes ==
    ASSUME NEW tag \in {"begin", "commit", "rollback"}, NEW w \in Watermark
    PROVE  /\ [tag |-> tag, watermark |-> w] \in Message
           /\ [type |-> "change", tag |-> tag, watermark |-> w] \in Entry
           /\ Abort \in Entry /\ Stop \in Entry
BY DEF Message, Entry

LEMMA QueueTypes ==
    ASSUME queue \in Seq(Entry), queue # << >>
    PROVE  /\ Tail(queue) \in Seq(Entry) /\ Head(queue) \in Entry
           /\ Head(queue).type = "change" =>
                 Head(queue).watermark \in Watermark
                 /\ Head(queue).tag \in {"begin", "commit", "rollback"}
           /\ Head(queue).type = "subscriber" => Head(queue).replica \in Replicas
BY TailOf DEF Entry, Abort, Stop

LEMMA FaultTypes ==
    ASSUME faults \in 0 .. MaxFaults
    PROVE  /\ \A f : Fault(f) => faults' \in 0 .. MaxFaults
           /\ Receiving => faults' \in 0 .. MaxFaults
                           /\ (phase' = phase \/ phase' = "ended")
           /\ faults' = faults => faults' \in 0 .. MaxFaults
BY FaultsAssumption DEF Fault, Receiving

\* The run loop.
LEMMA LoopTypes ==
    ASSUME TypeOK, Loop,
           Connect \/ ReceiveBegin \/ ReceiveCommit \/ FlowControlDone \/ ReceiveRollback
           \/ Disconnect \/ Interrupt
    PROVE  TypeOK'
<1> USE WatermarkType
<1>1. CASE Connect
  BY <1>1 DEF TypeOK, Connect, dbVars, replicaVars, Watermark
<1>2. ASSUME NEW tag \in {"begin", "commit", "rollback"}, NEW w \in Watermark,
             StoreAndForward([tag |-> tag, watermark |-> w])
      PROVE  queue' \in Seq(Entry) /\ sub' \in [Replicas -> Subscriber] /\ inTransaction' \in BOOLEAN
  BY <1>2, EntryTypes, ForwardTypes, AppendOf DEF TypeOK, StoreAndForward
<1>3. CASE ReceiveBegin
  <2>1. next \in Watermark
    BY <1>3 DEF ReceiveBegin, TypeOK
  <2>2. queue' \in Seq(Entry) /\ sub' \in [Replicas -> Subscriber] /\ inTransaction' \in BOOLEAN
    BY <1>2, <1>3, <2>1 DEF ReceiveBegin
  <2>3. faults' \in 0 .. MaxFaults /\ (phase' = phase \/ phase' = "ended")
    BY <1>3, FaultTypes DEF ReceiveBegin, TypeOK
  <2> QED
    BY <1>3, <2>1, <2>2, <2>3 DEF TypeOK, ReceiveBegin, dbVars, replicaVars
<1>4. CASE ReceiveCommit
  <2>1. next \in Watermark /\ watermark \in Watermark
    BY <1>4 DEF ReceiveCommit, TypeOK, Loop
  <2>2. queue' \in Seq(Entry) /\ sub' \in [Replicas -> Subscriber] /\ inTransaction' \in BOOLEAN
    BY <1>2, <1>4, <2>1 DEF ReceiveCommit
  <2>3. faults' \in 0 .. MaxFaults /\ (phase' = phase \/ phase' = "ended")
    BY <1>4, FaultTypes DEF ReceiveCommit, TypeOK
  <2> QED
    BY <1>4, <2>1, <2>2, <2>3 DEF TypeOK, ReceiveCommit, dbVars, replicaVars
<1>5. CASE FlowControlDone
  BY <1>5 DEF TypeOK, FlowControlDone, dbVars, storerVars, replicaVars
<1>6. CASE ReceiveRollback
  <2>1. watermark \in Watermark
    BY DEF TypeOK
  <2>2. queue' \in Seq(Entry) /\ sub' \in [Replicas -> Subscriber] /\ inTransaction' \in BOOLEAN
    BY <1>2, <1>6, <2>1 DEF ReceiveRollback
  <2>3. faults' \in 0 .. MaxFaults
    BY <1>6, FaultTypes DEF ReceiveRollback, TypeOK
  <2> QED
    BY <1>6, <2>2, <2>3 DEF TypeOK, ReceiveRollback, dbVars, replicaVars
<1>7. ASSUME EndStream, faults' \in 0 .. MaxFaults
      PROVE  TypeOK'
  <2>1. queue' \in Seq(Entry)
    <3>1. Abort \in Entry /\ Stop \in Entry
      BY EntryTypes
    <3>2. << >> \in Seq(Entry) /\ <<Abort>> \in Seq(Entry) /\ <<Abort, Stop>> \in Seq(Entry)
      BY <3>1
    <3> QED
      BY <1>7, <3>2, ConcatProperties DEF EndStream, TypeOK
  <2>2. sub' \in [Replicas -> Subscriber]
    <3>1. [tag |-> "rollback", watermark |-> watermark] \in Message
      BY EntryTypes DEF TypeOK
    <3> QED
      BY <1>7, <3>1, ForwardTypes DEF EndStream, TypeOK
  <2> QED
    BY <1>7, <2>1, <2>2 DEF TypeOK, EndStream, dbVars, replicaVars
<1>8. CASE Disconnect \/ Interrupt
  <2>1. EndStream
    BY <1>8 DEF Disconnect, Interrupt
  <2>2. faults' \in 0 .. MaxFaults
    BY <1>8, FaultTypes DEF Disconnect, Interrupt, TypeOK
  <2> QED
    BY <1>7, <2>1, <2>2
<1> QED
  BY <1>1, <1>3, <1>4, <1>5, <1>6, <1>8

\* The Storer's failures disconnect subscribers and cancel the stream.
LEMMA FailTypes ==
    ASSUME TypeOK, StorerFails
    PROVE  /\ running' \in BOOLEAN /\ queue' \in Seq(Entry) /\ tx' \in Watermark
           /\ catchupQueue' \subseteq Replicas /\ sub' \in [Replicas -> Subscriber]
           /\ phase' \in {"streaming", "cancelled", "ended", "stopping"}
BY CloseTypes, EmptySeq, WatermarkType DEF TypeOK, StorerFails

\* The Storer.
LEMMA StorerTypes ==
    ASSUME TypeOK,
           StoreBegin \/ StoreCommit \/ StoreRollback \/ StoreAssertFails \/ StoreSubscriber
           \/ StoreAbort \/ StoreStop \/ StorerError \/ StorerErrorAfterCommit
    PROVE  TypeOK'
<1> USE WatermarkType DEF dbVars, loopVars, replicaVars
<1>1. ASSUME NEW type, Dequeue(type)
      PROVE  /\ Tail(queue) \in Seq(Entry)
             /\ type = "change" => Head(queue).watermark \in Watermark
             /\ type = "subscriber" => Head(queue).replica \in Replicas
  BY <1>1, QueueTypes DEF TypeOK, Dequeue
<1>2. \A r \in Replicas : \A log \in SUBSET Watermark : \A last \in Watermark :
         StartCatchup(sub[r], log, last) \in Subscriber
  BY CatchupTypes DEF TypeOK
<1>3. \A r \in Replicas : sub[r] \in Subscriber /\ Close(sub[r]) \in Subscriber
  BY CloseTypes DEF TypeOK
<1>4. CASE StoreBegin
  BY <1>1, <1>4 DEF TypeOK, StoreBegin, DequeueChange
<1>5. CASE StoreCommit
  <2>1. changeLog' \in SUBSET Watermark /\ lastWatermark' \in Watermark
    BY <1>5 DEF TypeOK, StoreCommit
  <2>2. sub' \in [Replicas -> Subscriber]
    BY <1>2, <1>3, <1>5, <2>1 DEF StoreCommit
  <2>3. queue' \in Seq(Entry)
    BY <1>1, <1>5 DEF StoreCommit, DequeueChange
  <2> QED
    BY <1>5, <2>1, <2>2, <2>3 DEF TypeOK, StoreCommit
<1>6. CASE StoreRollback
  <2>1. sub' \in [Replicas -> Subscriber]
    BY <1>2, <1>3, <1>6 DEF TypeOK, StoreRollback
  <2>2. queue' \in Seq(Entry)
    BY <1>1, <1>6 DEF StoreRollback, DequeueChange
  <2> QED
    BY <1>6, <2>1, <2>2 DEF TypeOK, StoreRollback
<1>7. CASE StoreAssertFails
  BY <1>7, FailTypes DEF TypeOK, StoreAssertFails
<1>8. CASE StoreSubscriber
  <2>1. Tail(queue) \in Seq(Entry) /\ Head(queue).replica \in Replicas
    BY <1>1, <1>8 DEF StoreSubscriber
  <2>2. sub' \in [Replicas -> Subscriber] /\ catchupQueue' \subseteq Replicas
    <3>1. PICK r \in Replicas : r = Head(queue).replica
      BY <2>1
    <3>2. StartCatchup(sub[r], changeLog, lastWatermark) \in Subscriber
      BY <1>2 DEF TypeOK
    <3>3. sub \in [Replicas -> Subscriber] /\ catchupQueue \subseteq Replicas
      BY DEF TypeOK
    <3>4. \/ catchupQueue' = catchupQueue \cup {r} /\ sub' = sub
          \/ /\ sub' = [sub EXCEPT ![r] = StartCatchup(sub[r], changeLog, lastWatermark)]
             /\ catchupQueue' = catchupQueue
      BY <1>8, <3>1 DEF StoreSubscriber
    <3> QED
      BY <3>2, <3>3, <3>4
  <2>3. queue' \in Seq(Entry)
    BY <1>8, <2>1 DEF StoreSubscriber
  <2>4. UNCHANGED <<dbVars, backedUp, purgeFloor, loopVars, running, tx, replicaVars, faults>>
    BY <1>8 DEF StoreSubscriber
  <2> QED
    BY <2>2, <2>3, <2>4 DEF TypeOK
<1>9. CASE StoreAbort
  BY <1>1, <1>9 DEF TypeOK, StoreAbort
<1>10. CASE StoreStop
  <2>1. sub' \in [Replicas -> Subscriber]
    BY <1>3, <1>10 DEF StoreStop
  <2> QED
    BY <1>10, <2>1, EmptySeq DEF TypeOK, StoreStop
<1>11. CASE StorerError
  <2>1. faults' \in 0 .. MaxFaults
    BY <1>11, FaultTypes DEF StorerError, TypeOK
  <2> QED
    BY <1>11, <2>1, FailTypes DEF TypeOK, StorerError
<1>12. CASE StorerErrorAfterCommit
  <2>1. faults' \in 0 .. MaxFaults
    BY <1>12, FaultTypes DEF StorerErrorAfterCommit, TypeOK
  <2>2. changeLog' \subseteq Watermark /\ lastWatermark' \in Watermark
    BY <1>12 DEF TypeOK, StorerErrorAfterCommit
  <2> QED
    BY <1>12, <2>1, <2>2, FailTypes DEF TypeOK, StorerErrorAfterCommit
<1> QED
  BY <1>4, <1>5, <1>6, <1>7, <1>8, <1>9, <1>10, <1>11, <1>12

LEMMA TransactionTypes ==
    ASSUME NEW x \in Subscriber, NEW w \in Watermark
    PROVE  SendTransaction(x, w) \in Subscriber
<1>1. SendChange(SendChange(x, [tag |-> "begin", watermark |-> w]),
                 [tag |-> "commit", watermark |-> w]) \in Subscriber
  BY EntryTypes, SendTypes
<1>2. x.rows \ {w} \in SUBSET Watermark
  BY DEF Subscriber
<1> QED
  BY <1>1, <1>2 DEF SendTransaction, Subscriber

LEMMA DrainTypes ==
    ASSUME NEW x \in Subscriber
    PROVE  Drain(x) \in Subscriber
<1>1. CASE x.backlog = << >>
  BY <1>1 DEF Drain, Subscriber
<1>2. CASE x.backlog # << >>
  <2>1. Head(x.backlog) \in Message /\ Tail(x.backlog) \in Seq(Message)
    BY <1>2, TailOf DEF Subscriber
  <2>2. SendChange(x, Head(x.backlog)) \in Subscriber
    BY <2>1, SendTypes
  <2> QED
    BY <1>2, <2>1, <2>2 DEF Drain, Subscriber
<1> QED
  BY <1>1, <1>2

\* Catchup of one subscriber.
LEMMA CatchupStepTypes ==
    ASSUME TypeOK, NEW r \in Replicas,
           CatchupStarts(r) \/ CatchupTooOld(r) \/ CatchupSends(r) \/ SetCaughtUp(r)
           \/ DrainBacklog(r)
    PROVE  TypeOK'
<1> DEFINE x == sub[r]
<1>1. sub \in [Replicas -> Subscriber] /\ x \in Subscriber
  BY DEF TypeOK
<1>2. ASSUME NEW y \in Subscriber, sub' = [sub EXCEPT ![r] = y]
      PROVE  sub' \in [Replicas -> Subscriber]
  BY <1>1, <1>2
<1>3. CASE CatchupStarts(r)
  <2>1. [x EXCEPT !.state = "sending", !.rows = @ \ {x.watermark}] \in Subscriber
    BY <1>1 DEF Subscriber
  <2>2. sub' = [sub EXCEPT ![r] = [x EXCEPT !.state = "sending", !.rows = @ \ {x.watermark}]]
    BY <1>1, <1>3 DEF CatchupStarts
  <2> QED
    BY <1>2, <1>3, <2>1, <2>2
       DEF TypeOK, CatchupStarts, dbVars, loopVars, storerVars, replicaVars
<1>4. CASE CatchupTooOld(r)
  <2>1. sub' \in [Replicas -> Subscriber]
    BY <1>1, <1>4, CloseTypes DEF CatchupTooOld
  <2> QED
    BY <1>4, <2>1 DEF TypeOK, CatchupTooOld, loopVars, storerVars, replicaVars
<1>5. CASE CatchupSends(r)
  <2>1. PICK w \in x.rows : sub' = [sub EXCEPT ![r] = SendTransaction(x, w)]
    BY <1>1, <1>5 DEF CatchupSends
  <2>2. w \in Watermark
    BY <1>1 DEF Subscriber
  <2>3. SendTransaction(x, w) \in Subscriber
    BY <1>1, <2>2, TransactionTypes
  <2> QED
    BY <1>2, <1>5, <2>1, <2>3
       DEF TypeOK, CatchupSends, dbVars, loopVars, storerVars, replicaVars
<1>6. CASE SetCaughtUp(r)
  <2>1. sub' \in [Replicas -> Subscriber]
    BY <1>1, <1>6 DEF SetCaughtUp, Subscriber
  <2> QED
    BY <1>6, <2>1 DEF TypeOK, SetCaughtUp, dbVars, loopVars, storerVars, replicaVars
<1>7. CASE DrainBacklog(r)
  <2>1. sub' = [sub EXCEPT ![r] = Drain(x)] /\ Drain(x) \in Subscriber
    BY <1>1, <1>7, DrainTypes DEF DrainBacklog
  <2> QED
    BY <1>2, <1>7, <2>1
       DEF TypeOK, DrainBacklog, dbVars, loopVars, storerVars, replicaVars
<1> QED
  BY <1>3, <1>4, <1>5, <1>6, <1>7

\* What Forget leaves of the queue: it is without the entry of r, at k.
Without(q, k, p) ==
    /\ k \in 1 .. Len(q)
    /\ p \in Seq(Entry)
    /\ Len(p) = Len(q) - 1
    /\ \A i \in 1 .. Len(q) - 1 : p[i] = IF i < k THEN q[i] ELSE q[i + 1]

LEMMA ForgetOf ==
    ASSUME NEW q \in Seq(Entry), NEW r \in Replicas
    PROVE  \/ /\ Forget(q, r) = q
              /\ \A i \in 1 .. Len(q) : ~ (q[i].type = "subscriber" /\ q[i].replica = r)
           \/ \E k \in 1 .. Len(q) : /\ q[k].type = "subscriber" /\ q[k].replica = r
                                     /\ Without(q, k, Forget(q, r))
<1> DEFINE own == {i \in 1 .. Len(q) : q[i].type = "subscriber" /\ q[i].replica = r}
           k == CHOOSE i \in own : TRUE
           p == [i \in 1 .. Len(q) - 1 |-> IF i < k THEN q[i] ELSE q[i + 1]]
<1>1. CASE own = {}
  BY <1>1 DEF Forget
<1>2. CASE own # {}
  <2>1. k \in own
    BY <1>2
  <2>2. Forget(q, r) = p
    BY <1>2 DEF Forget
  <2>3. Len(q) \in Nat /\ \A i \in 1 .. Len(q) : q[i] \in Entry
    BY LenProperties, ElementOfSeq
  <2>4. Len(q) - 1 \in Nat /\ p \in [1 .. Len(q) - 1 -> Entry]
    BY <2>1, <2>3
  <2>5. p \in Seq(Entry) /\ Len(p) = Len(q) - 1
    BY <2>4, SeqDef, LenProperties
  <2> QED
    BY <2>1, <2>2, <2>5 DEF Without
<1> QED
  BY <1>1, <1>2

\* The replicas.
LEMMA ReplicaTypes ==
    ASSUME TypeOK, NEW r \in Replicas,
           Subscribe(r) \/ ReplicaBegins(r) \/ ReplicaCommits(r) \/ ReplicaRollsBack(r)
           \/ ReplicaRestores(r) \/ StreamEnds(r)
    PROVE  TypeOK'
<1> USE WatermarkType
<1>1. sub \in [Replicas -> Subscriber] /\ sub[r] \in Subscriber
  BY DEF TypeOK
<1>2. CASE Subscribe(r)
  <2>1. [type |-> "subscriber", replica |-> r] \in Entry
    BY DEF Entry
  <2>2. queue' \in Seq(Entry)
    BY <1>2, <2>1, AppendOf DEF Subscribe, TypeOK
  <2>3. sub' \in [Replicas -> Subscriber]
    BY <1>1, <1>2, CloseTypes DEF Subscribe, TypeOK, NoSubscriber, Subscriber
  <2> QED
    BY <1>2, <2>2, <2>3 DEF TypeOK, Subscribe, dbVars, loopVars, replicaVars
<1>3. ASSUME NEW tag, NextMessage(r, tag)
      PROVE  /\ Head(sub[r].downstream).watermark \in Watermark
             /\ [sub EXCEPT ![r].downstream = Tail(@)] \in [Replicas -> Subscriber]
  <2>1. sub[r].downstream \in Seq(Message) /\ sub[r].downstream # << >>
    BY <1>1, <1>3 DEF NextMessage, Subscriber
  <2>2. Head(sub[r].downstream) \in Message /\ Tail(sub[r].downstream) \in Seq(Message)
    BY <2>1, TailOf
  <2>3. [sub[r] EXCEPT !.downstream = Tail(@)] \in Subscriber
    BY <1>1, <2>2 DEF Subscriber
  <2> QED
    BY <1>1, <2>2, <2>3 DEF Message
<1>4. CASE ReplicaBegins(r)
  BY <1>3, <1>4 DEF TypeOK, ReplicaBegins, dbVars, loopVars, storerVars
<1>5. CASE ReplicaCommits(r)
  BY <1>3, <1>5 DEF TypeOK, ReplicaCommits, dbVars, loopVars, storerVars
<1>6. CASE ReplicaRollsBack(r)
  BY <1>3, <1>6 DEF TypeOK, ReplicaRollsBack, dbVars, loopVars, storerVars
<1>7. CASE ReplicaRestores(r)
  <2>1. sub' \in [Replicas -> Subscriber]
    BY <1>1, <1>7, CloseTypes DEF ReplicaRestores
  <2> QED
    BY <1>7, <2>1 DEF TypeOK, ReplicaRestores, dbVars, loopVars, storerVars
<1>8. CASE StreamEnds(r)
  <2>1. sub' \in [Replicas -> Subscriber]
    BY <1>1, <1>8, CloseTypes DEF StreamEnds
  <2>2. Forget(queue, r) \in Seq(Entry)
    BY ForgetOf DEF TypeOK, Without
  <2> QED
    BY <1>8, <2>1, <2>2 DEF TypeOK, StreamEnds, dbVars, loopVars
<1> QED
  BY <1>2, <1>4, <1>5, <1>6, <1>7, <1>8

LEMMA FloorType ==
    ASSUME TypeOK
    PROVE  CleanupFloor \in Watermark
<1> DEFINE S == {backedUp} \cup {replicaWm[r] : r \in {q \in Replicas : sub[q].forwarder # "out"}}
<1>1. S \in SUBSET Watermark /\ S # {}
  BY DEF TypeOK
<1>2. SetMin(S) \in S
  BY <1>1, LeastWatermark
<1> QED
  BY <1>1, <1>2 DEF CleanupFloor

\* Purging, backups and crashes.
LEMMA RestTypes ==
    ASSUME TypeOK, StartPurge \/ FinishPurge \/ BackUp \/ Crash
    PROVE  TypeOK'
<1> USE WatermarkType
<1>1. CASE StartPurge
  BY <1>1, FloorType DEF TypeOK, StartPurge, dbVars, loopVars, storerVars, replicaVars
<1>2. CASE FinishPurge
  BY <1>2 DEF TypeOK, FinishPurge, Purged, loopVars, storerVars, replicaVars
<1>3. CASE BackUp
  <2>1. backedUp' \in Watermark
    BY <1>3 DEF TypeOK, BackUp
  <2> QED
    BY <1>3, <2>1 DEF TypeOK, BackUp, dbVars, loopVars, storerVars, replicaVars
<1>4. CASE Crash
  <2>1. sub' \in [Replicas -> Subscriber]
    BY <1>4, CloseTypes DEF TypeOK, Crash
  <2>2. replicaWm' \in [Replicas -> Watermark] /\ replicaTx' \in [Replicas -> Watermark]
    BY <1>4 DEF TypeOK, Crash
  <2>3. faults' \in 0 .. MaxFaults
    BY <1>4, FaultTypes DEF TypeOK, Crash
  <2>4. queue' \in Seq(Entry) /\ next' \in 1 .. MaxTx + 1
    BY <1>4, EmptySeq DEF TypeOK, Crash
  <2> QED
    BY <1>4, <2>1, <2>2, <2>3, <2>4 DEF TypeOK, Crash, dbVars
<1> QED
  BY <1>1, <1>2, <1>3, <1>4

-----------------------------------------------------------------------------
(* Chains. *)

LEMMA StepTypes ==
    ASSUME NEW e \in Entry, NEW a \in Mark
    PROVE  StoreStep(e, a) \in Mark
<1>1. \/ e.type \in {"subscriber", "abort", "stop"}
      \/ e.type = "change" /\ e.watermark \in Watermark
  BY DEF Entry, Abort, Stop
<1> QED
  BY <1>1, WatermarkType DEF StoreStep, Mark

LEMMA ChainType ==
    ASSUME NEW q \in Seq(Entry), NEW l, Chain(l, q)
    PROVE  /\ Len(q) \in Nat
           /\ \A i \in 0 .. Len(q) : l[i] \in Mark
           /\ \A i \in 1 .. Len(q) : q[i] \in Entry /\ l[i] = StoreStep(q[i], l[i - 1])
BY LenProperties, ElementOfSeq DEF Chain

LEMMA ChainAppend ==
    ASSUME NEW q \in Seq(Entry), NEW l, Chain(l, q), NEW e \in Entry
    PROVE  \E m : /\ Chain(m, Append(q, e))
                  /\ \A i \in 0 .. Len(q) : m[i] = l[i]
                  /\ m[Len(q) + 1] = StoreStep(e, l[Len(q)])
<1> DEFINE m == [i \in 0 .. Len(q) + 1 |-> IF i <= Len(q) THEN l[i] ELSE StoreStep(e, l[Len(q)])]
<1>1. Len(q) \in Nat /\ \A i \in 0 .. Len(q) : l[i] \in Mark
  BY ChainType
<1>2. StoreStep(e, l[Len(q)]) \in Mark
  BY <1>1, StepTypes
<1>3. /\ \A i \in 0 .. Len(q) : m[i] = l[i]
      /\ m[Len(q) + 1] = StoreStep(e, l[Len(q)])
  BY <1>1
<1>4. m \in [0 .. Len(q) + 1 -> Mark]
  BY <1>1, <1>2
<1>5. ASSUME NEW i \in 1 .. Len(q) + 1
      PROVE  m[i] = StoreStep(Append(q, e)[i], m[i - 1])
  <2>1. CASE i = Len(q) + 1
    BY <1>1, <1>3, <2>1, AppendOf
  <2>2. CASE i <= Len(q)
    <3>1. i \in 1 .. Len(q) /\ i - 1 \in 0 .. Len(q) /\ i \in 0 .. Len(q)
      BY <1>1, <2>2
    <3>2. Append(q, e)[i] = q[i]
      BY <3>1, AppendOf
    <3>3. l[i] = StoreStep(q[i], l[i - 1])
      BY <3>1, ChainType
    <3> QED
      BY <1>3, <3>1, <3>2, <3>3
  <2> QED
    BY <1>1, <2>1, <2>2
<1>6. Len(Append(q, e)) = Len(q) + 1
  BY AppendOf
<1>7. Chain(m, Append(q, e))
  BY <1>4, <1>5, <1>6 DEF Chain
<1> HIDE DEF m
<1> QED
  BY <1>3, <1>7

LEMMA ChainTail ==
    ASSUME NEW q \in Seq(Entry), q # << >>, NEW l, Chain(l, q)
    PROVE  \E m : /\ Chain(m, Tail(q))
                  /\ \A i \in 0 .. Len(q) - 1 : m[i] = l[i + 1]
<1> DEFINE m == [i \in 0 .. Len(q) - 1 |-> l[i + 1]]
<1>1. Len(q) \in Nat \ {0} /\ Len(Tail(q)) = Len(q) - 1
      /\ \A i \in 1 .. Len(q) - 1 : Tail(q)[i] = q[i + 1]
  BY TailOf
<1>2. \A i \in 0 .. Len(q) - 1 : i + 1 \in 0 .. Len(q) /\ m[i] = l[i + 1]
  BY <1>1
<1>3. m \in [0 .. Len(q) - 1 -> Mark]
  BY <1>2, ChainType
<1>4. ASSUME NEW i \in 1 .. Len(q) - 1
      PROVE  m[i] = StoreStep(Tail(q)[i], m[i - 1])
  <2>1. i + 1 \in 1 .. Len(q) /\ (i + 1) - 1 = i /\ (i - 1) + 1 = i
    BY <1>1
  <2>2. i - 1 \in 0 .. Len(q) - 1 /\ i \in 0 .. Len(q) - 1
    BY <1>1
  <2>3. l[i + 1] = StoreStep(q[i + 1], l[i])
    BY <2>1, ChainType
  <2> QED
    BY <1>1, <1>2, <2>1, <2>2, <2>3
<1>5. Chain(m, Tail(q))
  BY <1>1, <1>3, <1>4 DEF Chain
<1> HIDE DEF m
<1> QED
  BY <1>2, <1>5

\* The entry of a subscriber is of no consequence.
LEMMA ChainWithout ==
    ASSUME NEW q \in Seq(Entry), NEW k, NEW p, Without(q, k, p), q[k].type = "subscriber",
           NEW l, Chain(l, q)
    PROVE  \E m : /\ Chain(m, p)
                  /\ \A i \in 0 .. Len(q) - 1 : m[i] = IF i < k THEN l[i] ELSE l[i + 1]
                  /\ \A i \in 0 .. Len(q) - 1 : k <= i + 1 => m[i] = l[i + 1]
<1> DEFINE m == [i \in 0 .. Len(q) - 1 |-> IF i < k THEN l[i] ELSE l[i + 1]]
<1>1. Len(q) \in Nat \ {0} /\ k \in 1 .. Len(q) /\ Len(p) = Len(q) - 1
      /\ \A i \in 1 .. Len(q) - 1 : p[i] = IF i < k THEN q[i] ELSE q[i + 1]
  BY LenProperties DEF Without
<1>2. l[k] = l[k - 1]
  <2>1. l[k] = StoreStep(q[k], l[k - 1])
    BY <1>1, ChainType
  <2> QED
    BY <2>1 DEF StoreStep
<1>3. \A i \in 0 .. Len(q) - 1 : i \in 0 .. Len(q) /\ i + 1 \in 0 .. Len(q)
                                 /\ m[i] = IF i < k THEN l[i] ELSE l[i + 1]
  BY <1>1
<1>4. m \in [0 .. Len(q) - 1 -> Mark]
  BY <1>1, <1>3, ChainType
<1>5. \A i \in 0 .. Len(q) - 1 : k <= i + 1 => m[i] = l[i + 1]
  <2> SUFFICES ASSUME NEW i \in 0 .. Len(q) - 1, k <= i + 1
               PROVE  m[i] = l[i + 1]
    OBVIOUS
  <2>1. CASE k = i + 1
    BY <1>1, <1>2, <1>3, <2>1
  <2>2. CASE k <= i
    BY <1>1, <1>3, <2>2
  <2> QED
    BY <1>1, <2>1, <2>2
<1>6. ASSUME NEW i \in 1 .. Len(q) - 1
      PROVE  m[i] = StoreStep(p[i], m[i - 1])
  <2>1. /\ i + 1 \in 1 .. Len(q) /\ i \in 1 .. Len(q) /\ (i + 1) - 1 = i /\ (i - 1) + 1 = i
        /\ i - 1 \in 0 .. Len(q) - 1 /\ i \in 0 .. Len(q) - 1
    BY <1>1
  <2>2. l[i + 1] = StoreStep(q[i + 1], l[i]) /\ l[i] = StoreStep(q[i], l[i - 1])
    BY <2>1, ChainType
  <2>3. CASE i < k
    <3>1. m[i] = l[i] /\ m[i - 1] = l[i - 1] /\ p[i] = q[i]
      BY <1>1, <1>3, <2>1, <2>3
    <3> QED
      BY <2>2, <3>1
  <2>4. CASE k <= i
    <3>1. p[i] = q[i + 1]
      BY <1>1, <2>4
    <3>2. m[i] = l[i + 1]
      <4>1. k <= i + 1
        BY <1>1, <2>4
      <4> HIDE DEF m
      <4> QED
        BY <1>5, <2>1, <4>1
    <3>3. k <= (i - 1) + 1
      BY <2>1, <2>4
    <3>4. m[i - 1] = l[(i - 1) + 1]
      BY <1>5, <2>1, <3>3
    <3>5. m[i - 1] = l[i]
      BY <2>1, <3>4
    <3> QED
      BY <2>2, <3>1, <3>2, <3>5
  <2> QED
    BY <1>1, <2>3, <2>4
<1>7. Chain(m, p)
  BY <1>1, <1>4, <1>6 DEF Chain
<1> HIDE DEF m
<1> QED
  BY <1>3, <1>5, <1>7

-----------------------------------------------------------------------------
(* Marks. *)

LEMMA MarksAppend ==
    ASSUME NEW q \in Seq(Entry), NEW n \in Nat, NEW l, Marks(l, q, n), NEW k \in Nat, n <= k,
           NEW e \in Entry, Legal(e, l[Len(q)]),
           LET a == StoreStep(e, l[Len(q)]) IN
           a.fate = "runs" => a.done < k /\ (~running => a.done = lastWatermark)
    PROVE  \E m : /\ Marks(m, Append(q, e), k)
                  /\ m[Len(Append(q, e))] = StoreStep(e, l[Len(q)])
<1>1. Chain(l, q)
  BY DEF Marks
<1>2. PICK m : /\ Chain(m, Append(q, e))
               /\ \A i \in 0 .. Len(q) : m[i] = l[i]
               /\ m[Len(q) + 1] = StoreStep(e, l[Len(q)])
  BY <1>1, ChainAppend
<1>3. /\ Len(q) \in Nat /\ Len(Append(q, e)) = Len(q) + 1
      /\ \A i \in 1 .. Len(q) : Append(q, e)[i] = q[i]
      /\ Append(q, e)[Len(q) + 1] = e
  BY AppendOf
<1>4. m[0] = [open |-> tx, done |-> lastWatermark, fate |-> "runs"]
  BY <1>2, <1>3 DEF Marks
<1>5. ASSUME NEW i \in 1 .. Len(q) + 1
      PROVE  Legal(Append(q, e)[i], m[i - 1])
  <2>1. CASE i = Len(q) + 1
    BY <1>2, <1>3, <2>1
  <2>2. CASE i \in 1 .. Len(q)
    BY <1>2, <1>3, <2>2 DEF Marks
  <2> QED
    BY <1>3, <2>1, <2>2
<1>6. ASSUME NEW i \in 0 .. Len(q) + 1, m[i].fate = "runs"
      PROVE  m[i].done < k /\ (~running => m[i].done = lastWatermark)
  <2>1. CASE i = Len(q) + 1
    BY <1>2, <1>6, <2>1
  <2>2. CASE i \in 0 .. Len(q)
    <3>1. l[i] \in Mark /\ m[i] = l[i]
      BY <1>1, <1>2, <2>2, ChainType
    <3>2. l[i].done \in Nat
      BY <3>1, WatermarkType DEF Mark
    <3> QED
      BY <1>6, <2>2, <3>1, <3>2 DEF Marks
  <2> QED
    BY <1>3, <2>1, <2>2
<1>7. Marks(m, Append(q, e), k)
  BY <1>2, <1>3, <1>4, <1>5, <1>6 DEF Marks
<1> QED
  BY <1>2, <1>3, <1>7

LEMMA MarksTail ==
    ASSUME queue \in Seq(Entry), queue # << >>, queue' = Tail(queue),
           running, running' = running, next' = next, NEW l, Marks(l, queue, next),
           l[1] = [open |-> tx', done |-> lastWatermark', fate |-> "runs"]
    PROVE  \E m : Marks(m, queue, next)' /\ m[Len(queue')] = l[Len(queue)]
<1>1. Chain(l, queue)
  BY DEF Marks
<1>2. PICK m : /\ Chain(m, queue')
               /\ \A i \in 0 .. Len(queue) - 1 : m[i] = l[i + 1]
  BY <1>1, ChainTail
<1>3. /\ Len(queue) \in Nat \ {0} /\ Len(queue') = Len(queue) - 1
      /\ \A i \in 1 .. Len(queue) - 1 : queue'[i] = queue[i + 1]
  BY TailOf
<1>4. m[0] = [open |-> tx', done |-> lastWatermark', fate |-> "runs"]
  BY <1>2, <1>3
<1>5. ASSUME NEW i \in 1 .. Len(queue')
      PROVE  Legal(queue'[i], m[i - 1])
  <2>1. i + 1 \in 1 .. Len(queue) /\ i - 1 \in 0 .. Len(queue) - 1 /\ (i + 1) - 1 = i
        /\ (i - 1) + 1 = i
    BY <1>3
  <2>2. Legal(queue[i + 1], l[i])
    BY <2>1 DEF Marks
  <2> QED
    BY <1>2, <1>3, <2>1, <2>2
<1>6. ASSUME NEW i \in 0 .. Len(queue'), m[i].fate = "runs"
      PROVE  m[i].done < next'
  <2>1. i + 1 \in 0 .. Len(queue) /\ m[i] = l[i + 1]
    BY <1>2, <1>3
  <2> QED
    BY <1>6, <2>1 DEF Marks
<1>7. m[Len(queue')] = l[Len(queue)]
  BY <1>2, <1>3
<1> QED
  BY <1>2, <1>4, <1>5, <1>6, <1>7 DEF Marks

LEMMA MarksEmpty ==
    ASSUME queue' = << >>, tx' = 0, lastWatermark' \in Watermark, lastWatermark' < next'
    PROVE  \E m : /\ Marks(m, queue, next)'
                  /\ m[Len(queue')] = [open |-> 0, done |-> lastWatermark', fate |-> "runs"]
<1>1. PICK m : m = [i \in {0} |-> [open |-> 0, done |-> lastWatermark', fate |-> "runs"]]
  OBVIOUS
<1>2. Len(queue') = 0 /\ 0 .. 0 = {0} /\ 1 .. 0 = {}
  BY EmptySeq
<1>3. m \in [0 .. Len(queue') -> Mark]
  BY <1>1, <1>2, WatermarkType DEF Mark
<1> QED
  BY <1>1, <1>2, <1>3 DEF Marks, Chain

LEMMA MarksForget ==
    ASSUME queue \in Seq(Entry), NEW k, Without(queue, k, queue'), queue[k].type = "subscriber",
           UNCHANGED <<tx, lastWatermark, running, next>>, NEW l, Marks(l, queue, next)
    PROVE  \E m : Marks(m, queue, next)' /\ m[Len(queue')] = l[Len(queue)]
<1>1. Chain(l, queue)
  BY DEF Marks
<1>2. PICK m : /\ Chain(m, queue')
               /\ \A i \in 0 .. Len(queue) - 1 : m[i] = IF i < k THEN l[i] ELSE l[i + 1]
               /\ \A i \in 0 .. Len(queue) - 1 : k <= i + 1 => m[i] = l[i + 1]
  BY <1>1, ChainWithout
<1>3. Len(queue) \in Nat \ {0} /\ k \in 1 .. Len(queue) /\ Len(queue') = Len(queue) - 1
      /\ \A i \in 1 .. Len(queue) - 1 : queue'[i] = IF i < k THEN queue[i] ELSE queue[i + 1]
  BY LenProperties DEF Without
<1>4. m[0] = [open |-> tx', done |-> lastWatermark', fate |-> "runs"]
  BY <1>2, <1>3 DEF Marks
<1>5. ASSUME NEW i \in 1 .. Len(queue')
      PROVE  Legal(queue'[i], m[i - 1])
  <2>1. i + 1 \in 1 .. Len(queue) /\ i - 1 \in 0 .. Len(queue) - 1 /\ (i + 1) - 1 = i
        /\ (i - 1) + 1 = i /\ i \in 1 .. Len(queue)
    BY <1>3
  <2>2. Legal(queue[i + 1], l[i]) /\ Legal(queue[i], l[i - 1])
    BY <2>1 DEF Marks
  <2>3. CASE i < k
    BY <1>2, <1>3, <2>1, <2>2, <2>3
  <2>4. CASE k <= i
    <3>1. m[i - 1] = l[i] /\ queue'[i] = queue[i + 1]
      BY <1>2, <1>3, <2>1, <2>4
    <3> QED
      BY <2>2, <3>1
  <2> QED
    BY <1>3, <2>1, <2>3, <2>4
<1>6. ASSUME NEW i \in 0 .. Len(queue'), m[i].fate = "runs"
      PROVE  m[i].done < next' /\ (~running' => m[i].done = lastWatermark')
  <2>1. i + 1 \in 0 .. Len(queue) /\ i \in 0 .. Len(queue) /\ (m[i] = l[i] \/ m[i] = l[i + 1])
    BY <1>2, <1>3
  <2> QED
    BY <1>6, <2>1 DEF Marks
<1>7. m[Len(queue')] = l[Len(queue)]
  BY <1>2, <1>3
<1> QED
  BY <1>2, <1>4, <1>5, <1>6, <1>7 DEF Marks

-----------------------------------------------------------------------------
(* The run loop. *)

LEMMA LedgerConnect ==
    ASSUME TypeOK, Loop, Connect, NEW l, Ledger(l)
    PROVE  Loop' /\ Ledger(l)'
<1> USE DEF Connect, dbVars
<1>1. lastWatermark \in Nat
  BY WatermarkType DEF TypeOK
<1>2. Marks(l, queue, next)'
  BY <1>1 DEF Ledger, Marks, Loop
<1>3. Ends(l)'
  <2>1. Len(queue) \in Nat
    BY LenProperties DEF TypeOK
  <2> QED
    BY <1>1, <2>1 DEF Ledger, Marks, Ends, Loop
<1>4. Loop'
  BY DEF Loop, TypeOK
<1> QED
  BY <1>2, <1>3, <1>4 DEF Ledger

\* Nothing but the end of the stream puts a 'stop' in the queue.
LEMMA StopsAppend ==
    ASSUME queue \in Seq(Entry), NEW e \in Entry, queue' = Append(queue, e), e.type # "stop",
           Loop
    PROVE  \A i \in 1 .. Len(queue') : queue'[i].type = "stop" => phase = "stopping" /\ running
<1>1. Len(queue) \in Nat /\ Len(queue') = Len(queue) + 1 /\ queue'[Len(queue) + 1] = e
      /\ \A i \in 1 .. Len(queue) : queue'[i] = queue[i]
  BY AppendOf
<1> QED
  BY <1>1 DEF Loop

LEMMA LedgerBegin ==
    ASSUME TypeOK, Loop, ReceiveBegin, NEW l, Ledger(l)
    PROVE  Loop' /\ \E m : Ledger(m)'
<1> USE DEF ReceiveBegin, StoreAndForward, dbVars
<1> DEFINE e == [type |-> "change", tag |-> "begin", watermark |-> next]
           a == l[Len(queue)]
<1>1. next \in Watermark /\ next # 0 /\ next \in Nat /\ queue \in Seq(Entry)
  BY WatermarkType DEF TypeOK
<1>2. e \in Entry /\ queue' = Append(queue, e) /\ e.type # "stop" /\ inTransaction'
  BY <1>1, EntryTypes
<1>3. a \in Mark /\ Len(queue) \in Nat
  BY <1>1, ChainType DEF Ledger, Marks
<1>4. Legal(e, a)
  BY <1>1 DEF Legal
<1>5. /\ phase = "streaming" /\ a.fate = "runs" =>
            StoreStep(e, a) = [open |-> next, done |-> next - 1, fate |-> "runs"]
      /\ phase # "streaming" => StoreStep(e, a) =
            [open |-> next, done |-> lastWatermark, fate |-> "runs"]
      /\ a.fate = "stops" => StoreStep(e, a) = a
  <2>1. CASE phase = "streaming" /\ a.fate = "runs"
    <3>1. a = [open |-> 0, done |-> next - 1, fate |-> "runs"]
      BY <1>1, <1>3, <2>1 DEF Ledger, Ends, Loop, Mark
    <3> QED
      BY <2>1, <3>1 DEF StoreStep
  <2>2. CASE phase # "streaming"
    <3>1. phase = "cancelled" /\ queue = << >> /\ tx = 0
      BY <2>2 DEF Receiving, Loop
    <3>2. a = [open |-> 0, done |-> lastWatermark, fate |-> "runs"]
      BY <3>1, EmptySeq DEF Ledger, Marks
    <3> QED
      BY <2>2, <3>2 DEF StoreStep
  <2>3. a.fate = "stops" => StoreStep(e, a) = a
    BY DEF StoreStep
  <2> QED
    BY <2>1, <2>2, <2>3
<1>6. a.fate \in {"runs", "stops"} /\ (a.fate = "runs" => a.done < next)
  BY <1>1, <1>3 DEF Ledger, Marks, Mark
<1>7. StoreStep(e, a).fate = "runs" =>
         /\ StoreStep(e, a).done < next
         /\ ~running => StoreStep(e, a).done = lastWatermark
  <2>1. lastWatermark < next
    BY <1>1, <1>3 DEF Ledger, Marks
  <2> QED
    BY <1>1, <1>5, <1>6, <2>1 DEF Loop
<1>8. PICK m : /\ Marks(m, queue', next)
               /\ m[Len(queue')] = StoreStep(e, a)
  BY <1>1, <1>2, <1>4, <1>7, MarksAppend DEF Ledger
<1>9. Marks(m, queue, next)'
  BY <1>8 DEF Marks
<1>10. Ends(m)'
  <2>1. CASE phase = "streaming"
    BY <1>1, <1>2, <1>5, <1>6, <1>8, <2>1 DEF Ends, Receiving, Loop
  <2>2. CASE phase # "streaming"
    BY <1>1, <1>2, <1>5, <1>8, <2>2 DEF Ends, Receiving, Loop
  <2> QED
    BY <2>1, <2>2
<1>11. Loop'
  BY <1>1, <1>2, StopsAppend DEF Loop, Receiving
<1> QED
  BY <1>9, <1>10, <1>11 DEF Ledger

\* A commit or a rollback of the transaction that the loop is in.
LEMMA LedgerEnd ==
    ASSUME TypeOK, Loop, NEW l, Ledger(l), phase = "streaming", inTransaction,
           NEW tag \in {"commit", "rollback"},
           NEW e, e = [type |-> "change", tag |-> tag, watermark |-> watermark],
           NEW a, a = l[Len(queue)]
    PROVE  /\ e \in Entry /\ a \in Mark /\ Legal(e, a)
           /\ a.fate = "runs" => /\ StoreStep(e, a).fate = "runs"
                                 /\ StoreStep(e, a).open = 0
                                 /\ StoreStep(e, a).done = IF tag = "commit" THEN next ELSE next - 1
           /\ a.fate # "runs" => StoreStep(e, a) = a
<1>1. queue \in Seq(Entry) /\ watermark = next /\ watermark \in Watermark /\ next # 0
      /\ next \in Nat
  BY WatermarkType DEF TypeOK, Loop
<1>2. e \in Entry /\ a \in Mark
  <2>1. Len(queue) \in 0 .. Len(queue)
    BY <1>1, LenProperties
  <2> QED
    BY <1>1, <2>1, EntryTypes, ChainType DEF Ledger, Marks
<1>3. CASE a.fate = "runs"
  <2>1. a = [open |-> next, done |-> next - 1, fate |-> "runs"]
    BY <1>1, <1>2, <1>3 DEF Ledger, Ends, Mark
  <2>2. a.open = next /\ a.open # 0 /\ next = a.done + 1 /\ a.done = next - 1
    BY <1>1, <2>1
  <2>3. Legal(e, a)
    BY <1>1, <2>2 DEF Legal
  <2>5. /\ StoreStep(e, a).fate = "runs" /\ StoreStep(e, a).open = 0
        /\ StoreStep(e, a).done = IF tag = "commit" THEN next ELSE next - 1
    BY <1>1, <1>3, <2>2 DEF StoreStep
  <2> QED
    BY <1>2, <1>3, <2>3, <2>5
<1>4. CASE a.fate # "runs"
  BY <1>1, <1>2, <1>4 DEF Legal, StoreStep, Mark
<1> QED
  BY <1>3, <1>4

LEMMA LedgerCommit ==
    ASSUME TypeOK, Loop, ReceiveCommit, NEW l, Ledger(l)
    PROVE  Loop' /\ \E m : Ledger(m)'
<1> USE DEF ReceiveCommit, StoreAndForward, dbVars
<1> DEFINE e == [type |-> "change", tag |-> "commit", watermark |-> watermark]
           a == l[Len(queue)]
<1>1. queue \in Seq(Entry) /\ watermark = next /\ watermark \in Watermark /\ next # 0
      /\ next \in Nat /\ next + 1 \in Nat
  BY WatermarkType DEF TypeOK, Loop
<1>2. e \in Entry /\ queue' = Append(queue, e) /\ e.type # "stop" /\ ~inTransaction'
      /\ a \in Mark
  <2>1. Len(queue) \in 0 .. Len(queue)
    BY <1>1, LenProperties
  <2> QED
    BY <1>1, <2>1, EntryTypes, ChainType DEF Ledger, Marks
<1>3. /\ Legal(e, a)
      /\ phase = "streaming" /\ a.fate = "runs" =>
            /\ StoreStep(e, a).fate = "runs" /\ StoreStep(e, a).open = 0
            /\ StoreStep(e, a).done = next
      /\ phase # "streaming" => StoreStep(e, a).fate = "stops"
      /\ a.fate = "stops" => StoreStep(e, a) = a
  <2>1. CASE phase = "streaming"
    BY <2>1, LedgerEnd
  <2>2. CASE phase # "streaming"
    <3>1. phase = "cancelled" /\ queue = << >> /\ tx = 0
      BY <2>2 DEF Receiving, Loop
    <3>2. a = [open |-> 0, done |-> lastWatermark, fate |-> "runs"]
      BY <3>1, EmptySeq DEF Ledger, Marks
    <3> QED
      BY <1>1, <2>2, <3>2 DEF StoreStep, Legal
  <2> QED
    BY <2>1, <2>2
<1>4. a.fate \in {"runs", "stops"}
  BY <1>2 DEF Mark
<1>5. StoreStep(e, a).fate = "runs" =>
         /\ StoreStep(e, a).done < next + 1
         /\ ~running => StoreStep(e, a).done = lastWatermark
  BY <1>1, <1>3, <1>4 DEF Loop
<1>6. PICK m : /\ Marks(m, queue', next + 1)
               /\ m[Len(queue')] = StoreStep(e, a)
  BY <1>1, <1>2, <1>3, <1>5, MarksAppend DEF Ledger
<1>7. Marks(m, queue, next)'
  BY <1>6 DEF Marks
<1>8. Ends(m)'
  <2>1. CASE phase = "streaming"
    BY <1>1, <1>2, <1>3, <1>4, <1>6, <2>1 DEF Ends, Receiving, Loop
  <2>2. CASE phase # "streaming"
    BY <1>2, <1>3, <1>6, <2>2 DEF Ends, Receiving, Loop
  <2> QED
    BY <2>1, <2>2
<1>9. Loop'
  BY <1>1, <1>2, StopsAppend DEF Loop, Receiving
<1> QED
  BY <1>7, <1>8, <1>9 DEF Ledger

LEMMA LedgerRollback ==
    ASSUME TypeOK, Loop, ReceiveRollback, NEW l, Ledger(l)
    PROVE  Loop' /\ \E m : Ledger(m)'
<1> USE DEF ReceiveRollback, StoreAndForward, dbVars
<1> DEFINE e == [type |-> "change", tag |-> "rollback", watermark |-> watermark]
           a == l[Len(queue)]
<1>1. queue \in Seq(Entry) /\ next \in Nat
  BY WatermarkType DEF TypeOK
<1>2. e \in Entry /\ queue' = Append(queue, e) /\ e.type # "stop" /\ ~inTransaction'
      /\ a \in Mark /\ Legal(e, a)
      /\ (a.fate = "runs" => /\ StoreStep(e, a).fate = "runs" /\ StoreStep(e, a).open = 0
                             /\ StoreStep(e, a).done = next - 1)
      /\ (a.fate # "runs" => StoreStep(e, a) = a)
  <2>1. phase = "streaming" /\ inTransaction /\ "rollback" \in {"commit", "rollback"}
    OBVIOUS
  <2>2. e \in Entry /\ a \in Mark /\ Legal(e, a)
        /\ (a.fate = "runs" => /\ StoreStep(e, a).fate = "runs" /\ StoreStep(e, a).open = 0
                             /\ StoreStep(e, a).done = next - 1)
        /\ (a.fate # "runs" => StoreStep(e, a) = a)
    BY <2>1, LedgerEnd
  <2>3. queue' = Append(queue, e) /\ e.type # "stop" /\ ~inTransaction'
    OBVIOUS
  <2> QED
    BY <2>2, <2>3
<1>3. StoreStep(e, a).fate = "runs" =>
         /\ StoreStep(e, a).done < next
         /\ ~running => StoreStep(e, a).done = lastWatermark
  BY <1>1, <1>2 DEF Loop
<1>4. PICK m : /\ Marks(m, queue', next)
               /\ m[Len(queue')] = StoreStep(e, a)
  BY <1>1, <1>2, <1>3, MarksAppend DEF Ledger
<1>5. Marks(m, queue, next)'
  BY <1>4 DEF Marks
<1>6. Ends(m)'
  <2>1. a.fate \in {"runs", "stops"} /\ next' = next /\ phase' = phase
    BY <1>2 DEF Mark
  <2> QED
    BY <1>1, <1>2, <1>4, <2>1 DEF Ends
<1>7. Loop'
  BY <1>1, <1>2, StopsAppend DEF Loop
<1> QED
  BY <1>5, <1>6, <1>7 DEF Ledger

LEMMA AbortStep ==
    ASSUME NEW a \in Mark
    PROVE  /\ Abort \in Entry /\ Stop \in Entry
           /\ Legal(Abort, a) /\ Legal(Stop, a)
           /\ StoreStep(Abort, a) \in Mark /\ StoreStep(Stop, a) \in Mark
           /\ StoreStep(Abort, a).fate = a.fate
           /\ a.fate = "runs" => StoreStep(Abort, a).open = 0 /\ StoreStep(Abort, a).done = a.done
           /\ StoreStep(Stop, a).fate = "stops"
<1>1. Abort \in Entry /\ Stop \in Entry
  BY DEF Entry
<1>2. Abort.type = "abort" /\ Stop.type = "stop"
  BY DEF Abort, Stop
<1>3. StoreStep(Abort, a) \in Mark /\ StoreStep(Stop, a) \in Mark
  BY <1>1, StepTypes
<1> QED
  BY <1>1, <1>2, <1>3 DEF Legal, StoreStep, Mark

\* The mark at the end of the queue.
LEMMA EndMark ==
    ASSUME NEW q \in Seq(Entry), NEW n, NEW l, Marks(l, q, n)
    PROVE  /\ l[Len(q)] \in Mark
           /\ l[Len(q)].fate = "runs" =>
                 l[Len(q)].done < n /\ (~running => l[Len(q)].done = lastWatermark)
<1>1. Len(q) \in 0 .. Len(q)
  BY LenProperties
<1> QED
  BY <1>1, ChainType DEF Marks

LEMMA MarksAbort ==
    ASSUME NEW q \in Seq(Entry), NEW n \in Nat, NEW l, Marks(l, q, n)
    PROVE  /\ Append(q, Abort) \in Seq(Entry)
           /\ \E m : /\ Marks(m, Append(q, Abort), n)
                     /\ m[Len(Append(q, Abort))].fate = "runs" => m[Len(Append(q, Abort))].open = 0
<1> DEFINE a == l[Len(q)]
<1>1. a \in Mark /\ (a.fate = "runs" => a.done < n /\ (~running => a.done = lastWatermark))
  BY EndMark
<1>2. Abort \in Entry /\ Append(q, Abort) \in Seq(Entry) /\ Legal(Abort, a)
  BY <1>1, AbortStep, AppendOf
<1>3. StoreStep(Abort, a).fate = "runs" =>
         /\ StoreStep(Abort, a).open = 0
         /\ StoreStep(Abort, a).done < n
         /\ ~running => StoreStep(Abort, a).done = lastWatermark
  BY <1>1, AbortStep
<1>4. PICK m : /\ Marks(m, Append(q, Abort), n)
               /\ m[Len(Append(q, Abort))] = StoreStep(Abort, a)
  <2>1. n <= n /\ (StoreStep(Abort, a).fate = "runs" =>
                      /\ StoreStep(Abort, a).done < n
                      /\ ~running => StoreStep(Abort, a).done = lastWatermark)
    BY <1>3
  <2> QED
    BY <1>2, <2>1, MarksAppend
<1> QED
  BY <1>2, <1>3, <1>4

LEMMA MarksStop ==
    ASSUME NEW q \in Seq(Entry), NEW n \in Nat, NEW l, Marks(l, q, n)
    PROVE  /\ Append(q, Stop) \in Seq(Entry)
           /\ \E m : Marks(m, Append(q, Stop), n) /\ m[Len(Append(q, Stop))].fate = "stops"
<1> DEFINE a == l[Len(q)]
<1>1. a \in Mark
  BY EndMark
<1>2. Stop \in Entry /\ Append(q, Stop) \in Seq(Entry) /\ Legal(Stop, a)
      /\ StoreStep(Stop, a).fate = "stops"
  BY <1>1, AbortStep, AppendOf
<1>3. PICK m : /\ Marks(m, Append(q, Stop), n)
               /\ m[Len(Append(q, Stop))] = StoreStep(Stop, a)
  BY <1>2, MarksAppend
<1> QED
  BY <1>2, <1>3

\* The end of the stream, entry by entry.
Aborted == IF watermark # 0 THEN Append(queue, Abort) ELSE queue

Stopped == IF running THEN Append(Append(Aborted, Abort), Stop) ELSE Aborted

LEMMA EndStreamQueue ==
    ASSUME queue \in Seq(Entry), EndStream
    PROVE  queue' = Stopped /\ Aborted \in Seq(Entry)
<1>1. Abort \in Entry /\ Stop \in Entry
  BY DEF Entry
<1>2. Aborted \in Seq(Entry)
  BY <1>1, AppendOf DEF Aborted
<1>3. \A q \in Seq(Entry) : /\ q \o << >> = q
                            /\ q \o <<Abort>> = Append(q, Abort)
                            /\ q \o <<Abort, Stop>> = Append(Append(q, Abort), Stop)
  BY <1>1
<1>4. queue' = (Aborted \o (IF running THEN <<Abort, Stop>> ELSE << >>))
  BY <1>3 DEF EndStream, Aborted
<1> QED
  BY <1>2, <1>3, <1>4 DEF Stopped

LEMMA LedgerEndStream ==
    ASSUME TypeOK, Loop, EndStream, phase # "stopping", NEW l, Ledger(l)
    PROVE  Loop' /\ \E m : Ledger(m)'
<1>1. queue \in Seq(Entry) /\ next \in Nat /\ queue' = Stopped /\ Aborted \in Seq(Entry)
  BY EndStreamQueue DEF TypeOK
<1>2. PICK m : /\ Marks(m, Aborted, next)
               /\ watermark # 0 /\ m[Len(Aborted)].fate = "runs" => m[Len(Aborted)].open = 0
               /\ watermark = 0 => m = l /\ Aborted = queue
  <2>1. CASE watermark # 0
    BY <1>1, <2>1, MarksAbort DEF Aborted, Ledger
  <2>2. CASE watermark = 0
    BY <2>2 DEF Aborted, Ledger
  <2> QED
    BY <2>1, <2>2
<1>3. ~running /\ m[Len(Aborted)].fate = "runs" => m[Len(Aborted)].open = 0
  BY <1>2 DEF Ledger, Ends, Loop
<1>4. PICK k : /\ Marks(k, Stopped, next)
               /\ k[Len(Stopped)].fate = "runs" => ~running /\ k[Len(Stopped)].open = 0
  <2>1. CASE running
    <3>1. PICK b : Marks(b, Append(Aborted, Abort), next)
      BY <1>1, <1>2, MarksAbort
    <3>2. Append(Aborted, Abort) \in Seq(Entry)
      BY <1>1, <1>2, MarksAbort
    <3>3. PICK c : /\ Marks(c, Append(Append(Aborted, Abort), Stop), next)
                   /\ c[Len(Append(Append(Aborted, Abort), Stop))].fate = "stops"
      BY <1>1, <3>1, <3>2, MarksStop
    <3>4. Stopped = Append(Append(Aborted, Abort), Stop)
      BY <2>1 DEF Stopped
    <3> QED
      BY <3>3, <3>4
  <2>2. CASE ~running
    BY <1>2, <1>3, <2>2 DEF Stopped
  <2> QED
    BY <2>1, <2>2
<1>5. Marks(k, queue, next)'
  BY <1>1, <1>4 DEF Marks, EndStream, dbVars
<1>6. Ends(k)'
  BY <1>1, <1>4 DEF Ends, EndStream, dbVars
<1>7. \A i \in 1 .. Len(queue') : queue'[i].type = "stop" => running
  <2>1. CASE running
    BY <2>1
  <2>2. CASE ~running
    <3>1. queue' = Aborted
      BY <1>1, <2>2 DEF Stopped
    <3>2. CASE watermark = 0
      BY <3>1, <3>2 DEF Aborted, Loop
    <3>3. CASE watermark # 0
      <4>1. queue' = Append(queue, Abort) /\ Abort.type # "stop" /\ Abort \in Entry
        BY <3>1, <3>3 DEF Aborted, Abort, Entry
      <4> QED
        BY <1>1, <4>1, StopsAppend
    <3> QED
      BY <3>2, <3>3
  <2> QED
    BY <2>1, <2>2
<1>8. Loop'
  BY <1>7 DEF Loop, EndStream, dbVars
<1> QED
  BY <1>5, <1>6, <1>8 DEF Ledger

LEMMA LedgerFlowControl ==
    ASSUME TypeOK, Loop, FlowControlDone, NEW l, Ledger(l)
    PROVE  Loop' /\ Ledger(l)'
BY DEF Loop, FlowControlDone, Ledger, Marks, Ends, storerVars, dbVars

-----------------------------------------------------------------------------
(* The Storer. *)

\* What is known when the Storer takes an entry from its queue.
LEMMA DequeueOf ==
    ASSUME TypeOK, Loop, NEW l, Ledger(l), NEW type, Dequeue(type)
    PROVE  /\ queue # << >> /\ queue \in Seq(Entry) /\ running /\ Head(queue) = queue[1]
           /\ queue[1].type = type /\ Head(queue) \in Entry
           /\ l[0] = [open |-> tx, done |-> lastWatermark, fate |-> "runs"]
           /\ l[1] = StoreStep(queue[1], l[0]) /\ Legal(queue[1], l[0])
           /\ l[1].fate = "runs" => l[1].done < next
           /\ lastWatermark \in Nat /\ lastWatermark < next
           /\ queue' = Tail(queue) =>
                 \A i \in 1 .. Len(queue') : queue'[i].type = "stop" => phase = "stopping"
<1>1. queue # << >> /\ queue \in Seq(Entry) /\ running /\ Head(queue) = queue[1]
      /\ queue[1].type = type /\ Len(queue) \in Nat \ {0} /\ Head(queue) \in Entry
  BY TailOf DEF Dequeue, TypeOK
<1>2. /\ l[0] = [open |-> tx, done |-> lastWatermark, fate |-> "runs"]
      /\ Legal(queue[1], l[0]) /\ l[1] = StoreStep(queue[1], l[0])
      /\ l[1].fate = "runs" => l[1].done < next
      /\ l[0].fate = "runs" => l[0].done < next
  <2>1. 1 \in 1 .. Len(queue) /\ 0 \in 0 .. Len(queue) /\ 1 \in 0 .. Len(queue) /\ 1 - 1 = 0
    BY <1>1
  <2>2. Marks(l, queue, next)
    BY DEF Ledger
  <2>3. Legal(queue[1], l[1 - 1])
    BY <2>1, <2>2 DEF Marks
  <2>4. l[1] = StoreStep(queue[1], l[1 - 1])
    BY <2>1, <2>2 DEF Marks, Chain
  <2> QED
    BY <2>1, <2>2, <2>3, <2>4 DEF Marks
<1>3. lastWatermark \in Nat /\ lastWatermark < next
  BY <1>2, WatermarkType DEF TypeOK
<1>4. ASSUME queue' = Tail(queue), NEW i \in 1 .. Len(queue'), queue'[i].type = "stop"
      PROVE  phase = "stopping"
  <2>1. i + 1 \in 1 .. Len(queue) /\ queue'[i] = queue[i + 1]
    BY <1>1, <1>4, TailOf
  <2> QED
    BY <1>4, <2>1 DEF Loop
<1> QED
  BY <1>1, <1>2, <1>3, <1>4

\* A step of the Storer that leaves the loop alone and ends no transaction
\* other than the one that is open.
LEMMA LedgerTail ==
    ASSUME TypeOK, Loop, NEW l, Ledger(l), queue # << >>, running, running' = running,
           queue' = Tail(queue), UNCHANGED loopVars,
           l[1] = [open |-> tx', done |-> lastWatermark', fate |-> "runs"],
           \A i \in 1 .. Len(queue') : queue'[i].type = "stop" => phase = "stopping"
    PROVE  Loop' /\ \E m : Ledger(m)'
<1> USE DEF loopVars
<1>1. queue \in Seq(Entry) /\ Marks(l, queue, next)
  BY DEF TypeOK, Ledger
<1>2. PICK m : Marks(m, queue, next)' /\ m[Len(queue')] = l[Len(queue)]
  BY <1>1, MarksTail
<1>3. Ends(m)'
  BY <1>2 DEF Ends, Ledger
<1>4. Loop'
  BY DEF Loop
<1> QED
  BY <1>2, <1>3, <1>4 DEF Ledger

\* A commit continues the change log.
LEMMA CommitContinues ==
    ASSUME TypeOK, Loop, NEW l, Ledger(l), DequeueChange("commit"), tx # 0
    PROVE  /\ tx = lastWatermark + 1 /\ tx < next /\ tx \in Nat
           /\ l[1] = [open |-> 0, done |-> tx, fate |-> "runs"]
<1>1. Dequeue("change") /\ queue[1].tag = "commit"
  BY DequeueOf DEF DequeueChange
<1>2. queue[1].watermark = tx /\ tx = lastWatermark + 1
  BY <1>1, DequeueOf DEF Legal
<1>3. l[1] = [open |-> 0, done |-> tx, fate |-> "runs"]
  <2>1. /\ queue[1].type = "change" /\ l[1] = StoreStep(queue[1], l[0])
        /\ l[0] = [open |-> tx, done |-> lastWatermark, fate |-> "runs"]
    BY <1>1, DequeueOf
  <2> QED
    BY <1>1, <1>2, <2>1 DEF StoreStep
<1> QED
  BY <1>1, <1>2, <1>3, DequeueOf

LEMMA LogGrows ==
    ASSUME TypeOK, LogIsContiguous, changeLog' = changeLog \cup {lastWatermark + 1},
           lastWatermark' = lastWatermark + 1
    PROVE  LogIsContiguous'
<1>1. lastWatermark \in Nat /\ changeLog \subseteq Nat
  BY WatermarkType DEF TypeOK
<1>2. \A u \in changeLog' : u = lastWatermark + 1 \/ (u \in changeLog /\ u <= lastWatermark)
  <2>1. \A w \in changeLog : w <= lastWatermark
    BY DEF LogIsContiguous
  <2> QED
    BY <2>1
<1>3. ASSUME NEW v \in changeLog', NEW w \in changeLog', NEW u \in v .. w
      PROVE  u \in changeLog'
  <2>1. v \in Nat /\ w \in Nat /\ u \in Nat /\ v <= u /\ u <= w /\ w <= lastWatermark + 1
    BY <1>1, <1>2
  <2>2. CASE u = lastWatermark + 1
    BY <2>2
  <2>3. CASE u # lastWatermark + 1
    <3>1. v \in changeLog /\ lastWatermark \in changeLog /\ u \in v .. lastWatermark
      BY <1>1, <1>2, <2>1, <2>3 DEF LogIsContiguous
    <3> QED
      BY <3>1 DEF LogIsContiguous
  <2> QED
    BY <2>2, <2>3
<1> QED
  BY <1>1, <1>2, <1>3 DEF LogIsContiguous

\* The Storer stops, or fails, and what was queued is gone.
LEMMA LedgerStops ==
    ASSUME TypeOK, Loop, running, running' = FALSE, queue' = << >>, tx' = 0, catchupQueue' = {},
           UNCHANGED <<next, watermark, inTransaction>>,
           lastWatermark' \in Watermark, lastWatermark' < next,
           \/ phase' = phase /\ phase = "stopping"
           \/ phase = "streaming" /\ phase' \in {"cancelled", "ended"}
    PROVE  Loop' /\ \E m : Ledger(m)'
<1>1. PICK m : /\ Marks(m, queue, next)'
               /\ m[Len(queue')] = [open |-> 0, done |-> lastWatermark', fate |-> "runs"]
  BY MarksEmpty
<1>2. Ends(m)'
  BY <1>1 DEF Ends
<1>3. Loop'
  BY EmptySeq DEF Loop
<1> QED
  BY <1>1, <1>2, <1>3 DEF Ledger

\* The mark after the entry that is dealt with is where the Storer is then.
LEMMA StoreNext ==
    ASSUME TypeOK, Loop, NEW l, Ledger(l),
           StoreBegin \/ StoreCommit \/ StoreRollback \/ StoreSubscriber \/ StoreAbort
    PROVE  /\ l[1] = [open |-> tx', done |-> lastWatermark', fate |-> "runs"]
           /\ queue # << >> /\ running /\ running' = running /\ queue' = Tail(queue)
           /\ UNCHANGED loopVars
           /\ \A i \in 1 .. Len(queue') : queue'[i].type = "stop" => phase = "stopping"
<1> USE DEF dbVars
<1>1. \E type : Dequeue(type)
  BY DEF StoreBegin, StoreCommit, StoreRollback, StoreSubscriber, StoreAbort, DequeueChange
<1>2. running' = running /\ queue' = Tail(queue) /\ UNCHANGED loopVars
  BY DEF StoreBegin, StoreCommit, StoreRollback, StoreSubscriber, StoreAbort
<1>3. /\ queue # << >> /\ running
      /\ l[1] = StoreStep(queue[1], l[0])
      /\ l[0] = [open |-> tx, done |-> lastWatermark, fate |-> "runs"]
      /\ \A i \in 1 .. Len(queue') : queue'[i].type = "stop" => phase = "stopping"
  BY <1>1, <1>2, DequeueOf
<1> DEFINE now == l[1] = [open |-> tx', done |-> lastWatermark', fate |-> "runs"]
<1>4. ASSUME StoreBegin
      PROVE  now
  <2>1. queue[1].type = "change" /\ queue[1].tag = "begin" /\ tx' = queue[1].watermark /\ tx = 0
    BY <1>4, DequeueOf DEF StoreBegin, DequeueChange
  <2>2. l[1] = [open |-> tx', done |-> lastWatermark, fate |-> "runs"]
    BY <1>3, <2>1 DEF StoreStep
  <2> QED
    BY <1>4, <2>2 DEF StoreBegin
<1>5. ASSUME StoreCommit
      PROVE  now
  BY <1>5, CommitContinues DEF StoreCommit
<1>6. ASSUME StoreRollback
      PROVE  now
  <2>1. queue[1].type = "change" /\ queue[1].tag = "rollback" /\ tx # 0 /\ tx' = 0
    BY <1>6, DequeueOf DEF StoreRollback, DequeueChange
  <2>2. l[1] = [open |-> tx', done |-> lastWatermark, fate |-> "runs"]
    BY <1>3, <2>1 DEF StoreStep
  <2> QED
    BY <1>6, <2>2 DEF StoreRollback
<1>7. ASSUME StoreSubscriber
      PROVE  now
  <2>1. queue[1].type = "subscriber"
    BY <1>7, DequeueOf DEF StoreSubscriber
  <2> QED
    BY <1>3, <1>7, <2>1 DEF StoreStep, StoreSubscriber
<1>8. ASSUME StoreAbort
      PROVE  now
  <2>1. queue[1].type = "abort" /\ tx' = 0
    BY <1>8, DequeueOf DEF StoreAbort
  <2>2. l[1] = [open |-> tx', done |-> lastWatermark, fate |-> "runs"]
    BY <1>3, <2>1 DEF StoreStep
  <2> QED
    BY <1>8, <2>2 DEF StoreAbort
<1> QED
  BY <1>2, <1>3, <1>4, <1>5, <1>6, <1>7, <1>8

LEMMA LedgerStorer ==
    ASSUME TypeOK, LogIsContiguous, Loop, NEW l, Ledger(l),
           StoreBegin \/ StoreCommit \/ StoreRollback \/ StoreAssertFails \/ StoreSubscriber
           \/ StoreAbort \/ StoreStop \/ StorerError \/ StorerErrorAfterCommit
    PROVE  LogIsContiguous' /\ Loop' /\ \E m : Ledger(m)'
<1> USE DEF dbVars, loopVars
<1>1. CASE StoreBegin \/ StoreCommit \/ StoreRollback \/ StoreSubscriber \/ StoreAbort
  <2>1. Loop' /\ \E m : Ledger(m)'
    BY <1>1, StoreNext, LedgerTail
  <2>2. CASE StoreCommit
    BY <2>1, <2>2, CommitContinues, LogGrows DEF StoreCommit
  <2>3. CASE ~StoreCommit
    BY <1>1, <2>1, <2>3 DEF StoreBegin, StoreRollback, StoreSubscriber, StoreAbort, LogIsContiguous
  <2> QED
    BY <2>2, <2>3
<1>2. CASE StoreStop
  <2>1. phase = "stopping" /\ running
    <3>1. queue[1].type = "stop" /\ 1 \in 1 .. Len(queue)
      BY <1>2, TailOf DEF StoreStop, Dequeue, TypeOK
    <3> QED
      BY <3>1 DEF Loop
  <2>2. lastWatermark \in Watermark /\ lastWatermark < next
    BY <1>2, DequeueOf DEF StoreStop, TypeOK
  <2>3. Loop' /\ \E m : Ledger(m)'
    BY <1>2, <2>1, <2>2, LedgerStops DEF StoreStop
  <2> QED
    BY <1>2, <2>3 DEF StoreStop, LogIsContiguous
<1>3. ASSUME StorerFails, running, UNCHANGED <<next, watermark, inTransaction>>,
             lastWatermark' \in Watermark, lastWatermark' < next
      PROVE  Loop' /\ \E m : Ledger(m)'
  <2>1. phase \in {"streaming", "stopping"}
    BY <1>3 DEF Loop, TypeOK
  <2> QED
    BY <1>3, <2>1, LedgerStops DEF StorerFails
<1>4. lastWatermark \in Watermark /\ lastWatermark < next
  <2>1. l[0].done < next /\ l[0].done = lastWatermark
    BY LenProperties DEF TypeOK, Ledger, Marks
  <2> QED
    BY <2>1 DEF TypeOK
<1>5. CASE StoreAssertFails
  <2>1. Loop' /\ \E m : Ledger(m)'
    BY <1>3, <1>4, <1>5 DEF StoreAssertFails, Dequeue
  <2> QED
    BY <1>5, <2>1 DEF StoreAssertFails, LogIsContiguous
<1>6. CASE StorerError
  <2>1. Loop' /\ \E m : Ledger(m)'
    BY <1>3, <1>4, <1>6 DEF StorerError
  <2> QED
    BY <1>6, <2>1 DEF StorerError, LogIsContiguous
<1>7. CASE StorerErrorAfterCommit
  <2>1. tx = lastWatermark + 1 /\ tx < next /\ tx \in Watermark
    BY <1>7, CommitContinues DEF StorerErrorAfterCommit, TypeOK
  <2>2. Loop' /\ \E m : Ledger(m)'
    BY <1>3, <1>7, <2>1 DEF StorerErrorAfterCommit, DequeueChange, Dequeue
  <2>3. LogIsContiguous'
    BY <1>7, <2>1, LogGrows DEF StorerErrorAfterCommit
  <2> QED
    BY <2>2, <2>3
<1> QED
  BY <1>1, <1>2, <1>5, <1>6, <1>7

-----------------------------------------------------------------------------
(* Everything else. *)

\* Nothing that the Storer will do depends on the other variables.
LEMMA LedgerSame ==
    ASSUME UNCHANGED <<loopVars, storerVars, lastWatermark>>, Loop, NEW l, Ledger(l)
    PROVE  Loop' /\ \E m : Ledger(m)'
<1>1. Ledger(l)'
  BY DEF Ledger, Marks, Ends, loopVars, storerVars
<1>2. Loop'
  BY DEF Loop, loopVars, storerVars
<1> QED
  BY <1>1, <1>2

LEMMA LedgerSubscribe ==
    ASSUME TypeOK, Loop, NEW r \in Replicas, Subscribe(r), NEW l, Ledger(l)
    PROVE  Loop' /\ \E m : Ledger(m)'
<1> USE DEF Subscribe, loopVars, dbVars
<1> DEFINE e == [type |-> "subscriber", replica |-> r]
           a == l[Len(queue)]
<1>1. queue \in Seq(Entry) /\ next \in Nat /\ e \in Entry /\ e.type # "stop"
      /\ queue' = Append(queue, e)
  BY DEF TypeOK, Entry
<1>2. StoreStep(e, a) = a /\ Legal(e, a)
  BY DEF StoreStep, Legal
<1>3. a.fate = "runs" => a.done < next /\ (~running => a.done = lastWatermark)
  BY <1>1, EndMark DEF Ledger
<1>4. PICK m : Marks(m, queue', next) /\ m[Len(queue')] = a
  <2>1. next <= next
    BY <1>1
  <2> QED
    BY <1>1, <1>2, <1>3, <2>1, MarksAppend DEF Ledger
<1>5. Marks(m, queue, next)'
  BY <1>4 DEF Marks
<1>6. Ends(m)'
  BY <1>4 DEF Ends, Ledger
<1>7. Loop'
  BY <1>1, StopsAppend DEF Loop
<1> QED
  BY <1>5, <1>6, <1>7 DEF Ledger

LEMMA LedgerStreamEnds ==
    ASSUME TypeOK, Loop, NEW r \in Replicas, StreamEnds(r), NEW l, Ledger(l)
    PROVE  Loop' /\ \E m : Ledger(m)'
<1> USE DEF StreamEnds, loopVars, dbVars
<1>1. queue \in Seq(Entry) /\ queue' = Forget(queue, r)
  BY DEF TypeOK
<1>2. CASE queue' = queue
  <2>1. Ledger(l)'
    BY <1>2 DEF Ledger, Marks, Ends
  <2>2. Loop'
    BY <1>2 DEF Loop
  <2> QED
    BY <2>1, <2>2
<1>3. ASSUME NEW k \in 1 .. Len(queue), queue[k].type = "subscriber", Without(queue, k, queue')
      PROVE  Loop' /\ \E m : Ledger(m)'
  <2>1. PICK m : Marks(m, queue, next)' /\ m[Len(queue')] = l[Len(queue)]
    BY <1>1, <1>3, MarksForget DEF Ledger
  <2>2. Ends(m)'
    BY <2>1 DEF Ends, Ledger
  <2>3. \A i \in 1 .. Len(queue') : queue'[i].type = "stop" => phase = "stopping" /\ running
    <3>1. ASSUME NEW i \in 1 .. Len(queue')
          PROVE  \E j \in 1 .. Len(queue) : queue'[i] = queue[j]
      <4>1. /\ Len(queue) \in Nat /\ k \in 1 .. Len(queue) /\ i \in 1 .. Len(queue) - 1
            /\ queue'[i] = IF i < k THEN queue[i] ELSE queue[i + 1]
        BY <1>1, <1>3, LenProperties DEF Without
      <4>2. i \in 1 .. Len(queue) /\ i + 1 \in 1 .. Len(queue)
        BY <4>1
      <4> QED
        BY <4>1, <4>2
    <3> QED
      BY <3>1 DEF Loop
  <2>4. queue = << >> => FALSE
    BY <1>3, EmptySeq
  <2>5. Loop'
    BY <2>3, <2>4 DEF Loop
  <2> QED
    BY <2>1, <2>2, <2>5 DEF Ledger
<1> QED
  BY <1>1, <1>2, <1>3, ForgetOf

LEMMA LedgerCrash ==
    ASSUME TypeOK, Crash
    PROVE  Loop' /\ \E m : Ledger(m)'
<1> USE DEF Crash, dbVars
<1>1. lastWatermark' \in Watermark /\ lastWatermark' < next'
  BY WatermarkType DEF TypeOK
<1>2. PICK m : /\ Marks(m, queue, next)'
               /\ m[Len(queue')] = [open |-> 0, done |-> lastWatermark', fate |-> "runs"]
  BY <1>1, MarksEmpty
<1>3. Ends(m)'
  BY <1>2 DEF Ends
<1>4. Loop'
  BY EmptySeq DEF Loop
<1> QED
  BY <1>2, <1>3, <1>4 DEF Ledger

\* A purge leaves the end of the log, in one piece.
LEMMA PurgeKeeps ==
    ASSUME TypeOK, LogIsContiguous
    PROVE  /\ SetMax(changeLog) = lastWatermark
           /\ \A f \in Watermark : Purged(changeLog, f) =
                 {w \in changeLog : f <= w \/ w = lastWatermark}
<1>1. changeLog \subseteq Nat /\ lastWatermark \in changeLog
      /\ \A w \in changeLog : w <= lastWatermark
  BY WatermarkType DEF TypeOK, LogIsContiguous
<1>2. \A m \in changeLog : (\A w \in changeLog : w <= m) => m = lastWatermark
  BY <1>1
<1>3. SetMax(changeLog) = lastWatermark
  BY <1>1, <1>2 DEF SetMax
<1> QED
  BY <1>3 DEF Purged

LEMMA LogPurged ==
    ASSUME TypeOK, LogIsContiguous, FinishPurge
    PROVE  LogIsContiguous'
<1>1. lastWatermark' = lastWatermark
      /\ changeLog' = {w \in changeLog : purgeFloor <= w \/ w = lastWatermark}
  BY PurgeKeeps DEF FinishPurge, TypeOK
<1>2. changeLog \subseteq Nat /\ purgeFloor \in Nat /\ lastWatermark \in changeLog
      /\ \A w \in changeLog : w <= lastWatermark
  BY WatermarkType DEF TypeOK, LogIsContiguous
<1>3. ASSUME NEW v \in changeLog', NEW w \in changeLog', NEW u \in v .. w
      PROVE  u \in changeLog'
  <2>1. v \in changeLog /\ w \in changeLog /\ v \in Nat /\ w \in Nat /\ w <= lastWatermark
        /\ (purgeFloor <= v \/ v = lastWatermark)
    BY <1>1, <1>2
  <2>2. u \in changeLog
    BY <2>1 DEF LogIsContiguous
  <2>3. purgeFloor <= u \/ u = lastWatermark
    BY <1>2, <2>1
  <2> QED
    BY <1>1, <2>2, <2>3
<1> QED
  BY <1>1, <1>2, <1>3 DEF LogIsContiguous

-----------------------------------------------------------------------------
(* The theorems. *)

LEMMA InitHolds == Init => StorerInvariant
<1> SUFFICES ASSUME Init
             PROVE  StorerInvariant
  OBVIOUS
<1> USE WatermarkType DEF Init
<1>1. TypeOK
  <2>1. NoSubscriber \in Subscriber
    BY EmptySeq DEF NoSubscriber, Subscriber
  <2>2. << >> \in Seq(Entry) /\ 0 \in 0 .. MaxFaults /\ Start + 1 \in 1 .. MaxTx + 1
        /\ 0 .. Start \subseteq Watermark
    BY EmptySeq, FaultsAssumption DEF Watermark
  <2> QED
    BY <2>1, <2>2 DEF TypeOK
<1>2. LogIsContiguous
  <2>1. Start \in Nat
    OBVIOUS
  <2>2. \A v, w \in 0 .. Start : \A u \in v .. w : u \in 0 .. Start
    BY <2>1
  <2> QED
    BY <2>1, <2>2 DEF LogIsContiguous
<1>3. Loop
  BY EmptySeq DEF Loop
<1>4. \E l : Ledger(l)
  <2>1. PICK m : m = [i \in {0} |-> [open |-> 0, done |-> Start, fate |-> "runs"]]
    OBVIOUS
  <2>2. Len(queue) = 0 /\ 0 .. 0 = {0} /\ 1 .. 0 = {}
    BY EmptySeq
  <2>3. m \in [0 .. Len(queue) -> Mark]
    BY <2>1, <2>2 DEF Mark
  <2>4. Ledger(m)
    BY <2>1, <2>2, <2>3 DEF Ledger, Marks, Chain, Ends
  <2> QED
    BY <2>4
<1> QED
  BY <1>1, <1>2, <1>3, <1>4 DEF StorerInvariant

LEMMA StepHolds == StorerInvariant /\ [Next]_vars => StorerInvariant'
<1> SUFFICES ASSUME StorerInvariant, [Next]_vars
             PROVE  StorerInvariant'
  OBVIOUS
<1>1. TypeOK /\ LogIsContiguous /\ Loop
  BY DEF StorerInvariant
<1>2. PICK l : Ledger(l)
  BY DEF StorerInvariant
<1>3. ASSUME TypeOK', Loop', \E m : Ledger(m)', UNCHANGED <<changeLog, lastWatermark>>
      PROVE  StorerInvariant'
  BY <1>1, <1>3 DEF StorerInvariant, LogIsContiguous
<1>4. CASE Connect \/ ReceiveBegin \/ ReceiveCommit \/ FlowControlDone \/ ReceiveRollback
           \/ Disconnect \/ Interrupt
  <2>1. TypeOK'
    BY <1>1, <1>4, LoopTypes
  <2>2. Loop' /\ \E m : Ledger(m)'
    <3>1. CASE Disconnect \/ Interrupt
      <4>1. EndStream /\ phase # "stopping"
        BY <3>1 DEF Disconnect, Interrupt
      <4> QED
        BY <1>1, <1>2, <4>1, LedgerEndStream
    <3> QED
      BY <1>1, <1>2, <1>4, <3>1, LedgerConnect, LedgerBegin, LedgerCommit, LedgerRollback,
         LedgerFlowControl
  <2>3. UNCHANGED <<changeLog, lastWatermark>>
    BY <1>4 DEF Connect, ReceiveBegin, ReceiveCommit, FlowControlDone, ReceiveRollback,
                Disconnect, Interrupt, EndStream, dbVars
  <2> QED
    BY <1>3, <2>1, <2>2, <2>3
<1>5. CASE StoreBegin \/ StoreCommit \/ StoreRollback \/ StoreAssertFails \/ StoreSubscriber
           \/ StoreAbort \/ StoreStop \/ StorerError \/ StorerErrorAfterCommit
  BY <1>1, <1>2, <1>5, StorerTypes, LedgerStorer DEF StorerInvariant
<1>6. ASSUME NEW r \in Replicas,
             CatchupStarts(r) \/ CatchupTooOld(r) \/ CatchupSends(r) \/ SetCaughtUp(r)
             \/ DrainBacklog(r)
      PROVE  StorerInvariant'
  <2>1. UNCHANGED <<loopVars, storerVars, changeLog, lastWatermark>>
    BY <1>6 DEF CatchupStarts, CatchupTooOld, CatchupSends, SetCaughtUp, DrainBacklog, dbVars
  <2>2. Loop' /\ \E m : Ledger(m)'
    BY <1>1, <1>2, <2>1, LedgerSame
  <2> QED
    BY <1>1, <1>3, <1>6, <2>1, <2>2, CatchupStepTypes
<1>7. ASSUME NEW r \in Replicas,
             Subscribe(r) \/ ReplicaBegins(r) \/ ReplicaCommits(r) \/ ReplicaRollsBack(r)
             \/ ReplicaRestores(r) \/ StreamEnds(r)
      PROVE  StorerInvariant'
  <2>1. UNCHANGED <<changeLog, lastWatermark>>
    BY <1>7 DEF Subscribe, ReplicaBegins, ReplicaCommits, ReplicaRollsBack, ReplicaRestores,
                StreamEnds, dbVars
  <2>2. Loop' /\ \E m : Ledger(m)'
    <3>1. CASE ReplicaBegins(r) \/ ReplicaCommits(r) \/ ReplicaRollsBack(r) \/ ReplicaRestores(r)
      <4>1. UNCHANGED <<loopVars, storerVars, lastWatermark>>
        BY <3>1 DEF ReplicaBegins, ReplicaCommits, ReplicaRollsBack, ReplicaRestores, dbVars
      <4> QED
        BY <1>1, <1>2, <4>1, LedgerSame
    <3> QED
      BY <1>1, <1>2, <1>7, <3>1, LedgerSubscribe, LedgerStreamEnds
  <2> QED
    BY <1>1, <1>3, <1>7, <2>1, <2>2, ReplicaTypes
<1>8. CASE StartPurge \/ FinishPurge \/ BackUp \/ Crash
  <2>1. TypeOK'
    BY <1>1, <1>8, RestTypes
  <2>2. Loop' /\ \E m : Ledger(m)'
    <3>1. CASE StartPurge \/ FinishPurge \/ BackUp
      <4>1. UNCHANGED <<loopVars, storerVars, lastWatermark>>
        BY <3>1 DEF StartPurge, FinishPurge, BackUp, dbVars
      <4> QED
        BY <1>1, <1>2, <4>1, LedgerSame
    <3> QED
      BY <1>1, <1>8, <3>1, LedgerCrash
  <2>3. LogIsContiguous'
    <3>1. CASE FinishPurge
      BY <1>1, <3>1, LogPurged
    <3>2. CASE ~FinishPurge
      <4>1. UNCHANGED <<changeLog, lastWatermark>>
        BY <1>8, <3>2 DEF StartPurge, BackUp, Crash, dbVars
      <4> QED
        BY <1>1, <4>1 DEF LogIsContiguous
    <3> QED
      BY <3>1, <3>2
  <2> QED
    BY <2>1, <2>2, <2>3 DEF StorerInvariant
<1>9. CASE UNCHANGED vars
  <2>1. UNCHANGED <<loopVars, storerVars, changeLog, lastWatermark>>
    BY <1>9 DEF vars, dbVars
  <2>2. Loop' /\ \E m : Ledger(m)'
    BY <1>1, <1>2, <2>1, LedgerSame
  <2>3. TypeOK'
    BY <1>1, <1>9 DEF vars, dbVars, loopVars, storerVars, replicaVars, TypeOK
  <2> QED
    BY <1>3, <2>1, <2>2, <2>3
<1> QED
  BY <1>4, <1>5, <1>6, <1>7, <1>8, <1>9 DEF Next

\* The run loop and the Storer's queue agree on what has been stored and on
\* what will be: StorerInvariant is inductive.
THEOREM StorerTheorem == Spec => []StorerInvariant
<1>1. Init => StorerInvariant
  BY InitHolds
<1>2. StorerInvariant /\ [Next]_vars => StorerInvariant'
  BY StepHolds
<1> QED
  BY <1>1, <1>2, PTL DEF Spec

\* Every variable keeps its type.
THEOREM TypeCorrect == Spec => []TypeOK
<1>1. StorerInvariant => TypeOK
  BY DEF StorerInvariant
<1> QED
  BY <1>1, StorerTheorem, PTL

\* The change DB holds an unbroken run of transactions that ends in
\* lastWatermark, with the Storer's #processQueue behind the run loop, its
\* failures, commits of unknown outcome, purges and restarts.
THEOREM LogTheorem == Spec => []LogIsContiguous
<1>1. StorerInvariant => LogIsContiguous
  BY DEF StorerInvariant
<1> QED
  BY <1>1, StorerTheorem, PTL

-----------------------------------------------------------------------------
(* What is caught up. *)

IsSubscriber(e, r) == e.type = "subscriber" /\ e.replica = r

\* The subscribers queued in the Storer wait, each in one place.
Waits ==
    /\ \A r \in Replicas : \A i \in 1 .. Len(queue) : IsSubscriber(queue[i], r) =>
          /\ sub[r].state = "waiting"
          /\ r \notin catchupQueue
          /\ \A j \in 1 .. Len(queue) : IsSubscriber(queue[j], r) => j = i
    /\ \A r \in catchupQueue : sub[r].state = "waiting"

\* The commits on their way to a replica at w are new to it and ascending.
Rising(x, w) ==
    LET d == x.downstream IN
    /\ x.state \notin {"off", "closed"} => w <= x.watermark
    /\ \A i \in 1 .. Len(d) : d[i].tag = "commit" =>
          /\ w < d[i].watermark
          /\ x.state # "closed" => d[i].watermark <= x.watermark
          /\ \A j \in 1 .. Len(d) : j < i /\ d[j].tag = "commit" => d[j].watermark < d[i].watermark

Settled(x, w) ==
    /\ Rising(x, w)
    /\ x.state = "off" => x = NoSubscriber
    /\ x.state = "closed" => x.forwarder = "out"
    /\ x.state = "waiting" => x.downstream = << >> /\ x.watermark = w

\* The log reaches back to the backup, and what the backup replica is caught
\* up from reaches back to its watermark.
Reaches ==
    /\ purgeFloor <= backedUp
    /\ \E w \in changeLog : w <= backedUp
    /\ Backup \in Replicas =>
          /\ backedUp <= replicaWm[Backup]
          /\ sub[Backup].state = "catchup" =>
                sub[Backup].rows = {} \/ sub[Backup].watermark \in sub[Backup].rows
    /\ ~resetRequired

CatchupInvariant ==
    /\ StorerInvariant
    /\ Waits
    /\ \A r \in Replicas : Settled(sub[r], replicaWm[r])
    /\ Reaches

-----------------------------------------------------------------------------
(* What happens to one subscriber. *)

LEMMA RisingSame ==
    ASSUME NEW x, NEW y, NEW w, Rising(x, w), y.downstream = x.downstream,
           y.watermark = x.watermark,
           \/ y.state = "closed"
           \/ x.state \notin {"off", "closed"}
           \/ y.state = x.state
    PROVE  Rising(y, w)
BY DEF Rising

LEMMA RisingEmpty ==
    ASSUME NEW x, NEW w \in Watermark, x.downstream = << >>,
           x.state \in {"off", "closed"} \/ x.watermark = w
    PROVE  Rising(x, w)
BY EmptySeq, WatermarkType DEF Rising

LEMMA RisingSend ==
    ASSUME NEW x \in Subscriber, NEW m \in Message, NEW w \in Watermark, Rising(x, w),
           x.state \notin {"off", "closed"}
    PROVE  Rising(SendChange(x, m), w)
<1> DEFINE y == SendChange(x, m)
<1>1. CASE m.watermark <= x.watermark
  BY <1>1 DEF SendChange
<1>2. CASE ~ (m.watermark <= x.watermark)
  <2>1. /\ x.downstream \in Seq(Message) /\ x.watermark \in Nat /\ m.watermark \in Nat
        /\ w \in Nat /\ \A i \in 1 .. Len(x.downstream) : x.downstream[i].watermark \in Nat
    <3>1. \A i \in 1 .. Len(x.downstream) : x.downstream[i] \in Message
      BY ElementOfSeq DEF Subscriber
    <3> QED
      BY <3>1, WatermarkType DEF Subscriber, Message
  <2>2. /\ y.downstream = Append(x.downstream, m) /\ y.state = x.state
        /\ y.watermark = IF m.tag = "commit" THEN m.watermark ELSE x.watermark
    BY <1>2 DEF SendChange, Subscriber
  <2>3. /\ Len(x.downstream) \in Nat /\ Len(y.downstream) = Len(x.downstream) + 1
        /\ \A i \in 1 .. Len(x.downstream) : y.downstream[i] = x.downstream[i]
        /\ y.downstream[Len(x.downstream) + 1] = m
    BY <2>1, <2>2, AppendOf
  <2>4. w <= x.watermark /\ x.watermark < m.watermark /\ x.watermark <= y.watermark
    BY <1>2, <2>1, <2>2 DEF Rising
  <2>5. ASSUME NEW i \in 1 .. Len(y.downstream), y.downstream[i].tag = "commit"
        PROVE  /\ w < y.downstream[i].watermark
               /\ y.downstream[i].watermark <= y.watermark
               /\ \A j \in 1 .. Len(y.downstream) : j < i /\ y.downstream[j].tag = "commit" =>
                     y.downstream[j].watermark < y.downstream[i].watermark
    <3>1. CASE i = Len(x.downstream) + 1
      <4>1. \A j \in 1 .. Len(x.downstream) : x.downstream[j].tag = "commit" =>
               x.downstream[j].watermark <= x.watermark
        BY DEF Rising
      <4> QED
        BY <2>1, <2>2, <2>3, <2>4, <2>5, <3>1, <4>1
    <3>2. CASE i \in 1 .. Len(x.downstream)
      <4>1. /\ w < x.downstream[i].watermark
            /\ x.downstream[i].watermark <= x.watermark
            /\ \A j \in 1 .. Len(x.downstream) : j < i /\ x.downstream[j].tag = "commit" =>
                  x.downstream[j].watermark < x.downstream[i].watermark
        BY <2>3, <2>5, <3>2 DEF Rising
      <4> QED
        BY <2>1, <2>2, <2>3, <2>4, <3>2, <4>1
    <3> QED
      BY <2>3, <3>1, <3>2
  <2>6. w <= y.watermark
    BY <2>1, <2>2, <2>4
  <2> QED
    BY <2>5, <2>6 DEF Rising
<1> QED
  BY <1>1, <1>2

\* The next message has arrived at the replica.
LEMMA RisingTail ==
    ASSUME NEW x \in Subscriber, NEW w \in Watermark, Rising(x, w), x.downstream # << >>,
           NEW y, y = [x EXCEPT !.downstream = Tail(@)]
    PROVE  /\ Rising(y, w)
           /\ Head(x.downstream).tag = "commit" =>
                 w < Head(x.downstream).watermark /\ Rising(y, Head(x.downstream).watermark)
<1>1. x.downstream \in Seq(Message) /\ w \in Nat /\ x.watermark \in Nat
  BY WatermarkType DEF Subscriber
<1>2. /\ y.downstream = Tail(x.downstream) /\ y.watermark = x.watermark /\ y.state = x.state
      /\ Len(x.downstream) \in Nat \ {0} /\ Head(x.downstream) = x.downstream[1]
      /\ Len(y.downstream) = Len(x.downstream) - 1
      /\ \A i \in 1 .. Len(x.downstream) - 1 : y.downstream[i] = x.downstream[i + 1]
  BY <1>1, TailOf DEF Subscriber
<1>3. \A i \in 1 .. Len(y.downstream) : i + 1 \in 1 .. Len(x.downstream)
                                        /\ y.downstream[i] = x.downstream[i + 1]
  BY <1>2
<1>4. Rising(y, w)
  <2>1. ASSUME NEW i \in 1 .. Len(y.downstream), y.downstream[i].tag = "commit"
        PROVE  /\ w < y.downstream[i].watermark
               /\ y.state # "closed" => y.downstream[i].watermark <= y.watermark
               /\ \A j \in 1 .. Len(y.downstream) : j < i /\ y.downstream[j].tag = "commit" =>
                     y.downstream[j].watermark < y.downstream[i].watermark
    <3>1. ASSUME NEW j \in 1 .. Len(y.downstream), j < i
          PROVE  j + 1 < i + 1
      BY <1>2, <3>1
    <3> QED
      BY <1>2, <1>3, <2>1, <3>1 DEF Rising
  <2> QED
    BY <1>2, <2>1 DEF Rising
<1>5. ASSUME Head(x.downstream).tag = "commit"
      PROVE  w < Head(x.downstream).watermark /\ Rising(y, Head(x.downstream).watermark)
  <2>1. 1 \in 1 .. Len(x.downstream)
    BY <1>2
  <2>2. /\ w < x.downstream[1].watermark
        /\ x.state # "closed" => x.downstream[1].watermark <= x.watermark
    BY <1>2, <1>5, <2>1 DEF Rising
  <2>3. ASSUME NEW i \in 1 .. Len(y.downstream), y.downstream[i].tag = "commit"
        PROVE  x.downstream[1].watermark < y.downstream[i].watermark
    <3>1. 1 < i + 1
      BY <1>2
    <3> QED
      BY <1>2, <1>3, <1>5, <2>1, <2>3, <3>1 DEF Rising
  <2> QED
    BY <1>2, <1>4, <2>2, <2>3 DEF Rising
<1> QED
  BY <1>4, <1>5

\* What a send leaves alone.
LEMMA SendKeeps ==
    ASSUME NEW x \in Subscriber, NEW m \in Message
    PROVE  /\ SendChange(x, m).state = x.state /\ SendChange(x, m).rows = x.rows
           /\ SendChange(x, m).forwarder = x.forwarder /\ SendChange(x, m).backlog = x.backlog
           /\ Send(x, m).state = x.state /\ Send(x, m).rows = x.rows
           /\ Send(x, m).forwarder = x.forwarder
           /\ Buffering(x) => /\ Send(x, m).watermark = x.watermark
                              /\ Send(x, m).downstream = x.downstream
           /\ Buffering(x) \/ Send(x, m) = x \/ Send(x, m) = SendChange(x, m)
BY DEF SendChange, Send, Subscriber

LEMMA SettledSend ==
    ASSUME NEW x \in Subscriber, NEW m \in Message, NEW w \in Watermark, Settled(x, w),
           x.forwarder # "out"
    PROVE  Settled(Send(x, m), w)
<1>1. x.state \notin {"off", "closed"}
  BY DEF Settled, NoSubscriber
<1>2. CASE Buffering(x)
  BY <1>1, <1>2, SendKeeps, RisingSame DEF Settled
<1>3. CASE ~Buffering(x)
  <2>1. x.state = "live"
    BY <1>1, <1>3 DEF Buffering, Subscriber
  <2>2. Rising(SendChange(x, m), w)
    BY <1>1, RisingSend DEF Settled
  <2> QED
    BY <1>3, <2>1, <2>2, SendKeeps DEF Settled
<1> QED
  BY <1>2, <1>3

\* What forwarding a change does to the subscriber of r.
LEMMA ForwardOf ==
    ASSUME TypeOK, NEW r \in Replicas, NEW m \in Message
    PROVE  LET x == IF sub[r].forwarder = "active" THEN Send(sub[r], m) ELSE sub[r] IN
           /\ Forward(m)[r] = Activate(x, m.tag)
           /\ x \in Subscriber /\ x.state = sub[r].state /\ x.rows = sub[r].rows
           /\ x.forwarder = sub[r].forwarder
           /\ Forward(m)[r].state = sub[r].state /\ Forward(m)[r].rows = sub[r].rows
           /\ Forward(m)[r].watermark = x.watermark
           /\ Forward(m)[r].downstream = x.downstream
           /\ Forward(m)[r].backlog = x.backlog
           /\ Forward(m)[r].forwarder =
                 IF sub[r].forwarder = "queued" /\ m.tag \in {"commit", "rollback"}
                 THEN "active" ELSE sub[r].forwarder
           /\ x = sub[r] \/ sub[r].forwarder = "active"
<1> DEFINE x == IF sub[r].forwarder = "active" THEN Send(sub[r], m) ELSE sub[r]
<1>1. sub[r] \in Subscriber
  BY DEF TypeOK
<1>2. x \in Subscriber
  BY <1>1, SendTypes
<1>3. x.state = sub[r].state /\ x.rows = sub[r].rows /\ x.forwarder = sub[r].forwarder
  BY <1>1, SendKeeps
<1>4. Forward(m)[r] = Activate(x, m.tag)
  BY DEF Forward
<1>5. /\ Activate(x, m.tag).state = x.state /\ Activate(x, m.tag).rows = x.rows
      /\ Activate(x, m.tag).watermark = x.watermark
      /\ Activate(x, m.tag).downstream = x.downstream
      /\ Activate(x, m.tag).backlog = x.backlog
      /\ Activate(x, m.tag).forwarder =
            IF x.forwarder = "queued" /\ m.tag \in {"commit", "rollback"}
            THEN "active" ELSE x.forwarder
  BY <1>2 DEF Activate, Subscriber
<1> HIDE DEF x
<1>6. x = sub[r] \/ sub[r].forwarder = "active"
  BY DEF x
<1> QED
  BY <1>2, <1>3, <1>4, <1>5, <1>6 DEF x

LEMMA SettledForward ==
    ASSUME TypeOK, NEW r \in Replicas, NEW m \in Message, Settled(sub[r], replicaWm[r])
    PROVE  Settled(Forward(m)[r], replicaWm[r])
<1>1. sub[r] \in Subscriber /\ replicaWm[r] \in Watermark
  BY DEF TypeOK
<1>2. PICK x : x = IF sub[r].forwarder = "active" THEN Send(sub[r], m) ELSE sub[r]
  OBVIOUS
<1>3. Settled(x, replicaWm[r]) /\ x.state = sub[r].state
  BY <1>1, <1>2, SettledSend, SendKeeps
<1>4. sub[r].state = "off" => Forward(m)[r] = sub[r]
  BY DEF Forward, Activate, Settled, NoSubscriber
<1>5. sub[r].state = "closed" => Forward(m)[r] = sub[r]
  BY DEF Forward, Activate, Settled
<1>6. /\ Forward(m)[r].state = sub[r].state
      /\ Forward(m)[r].watermark = x.watermark
      /\ Forward(m)[r].downstream = x.downstream
  BY <1>2, ForwardOf
<1>7. CASE sub[r].state \in {"off", "closed"}
  BY <1>4, <1>5, <1>7
<1>8. CASE sub[r].state \notin {"off", "closed"}
  BY <1>3, <1>6, <1>8, RisingSame DEF Settled
<1> QED
  BY <1>7, <1>8

LEMMA SettledClose ==
    ASSUME NEW x \in Subscriber, NEW w \in Watermark, Settled(x, w)
    PROVE  Settled(Close(x), w) /\ Settled(NoSubscriber, w)
<1>1. /\ Close(x).state = "closed" /\ Close(x).forwarder = "out"
      /\ Close(x).downstream = x.downstream /\ Close(x).watermark = x.watermark
  BY DEF Close, Subscriber
<1>2. Settled(Close(x), w)
  BY <1>1, RisingSame DEF Settled
<1>3. Settled(NoSubscriber, w)
  BY RisingEmpty DEF Settled, NoSubscriber
<1> QED
  BY <1>2, <1>3

\* Nothing follows the error that CloseWithError sends.
LEMMA SettledError ==
    ASSUME NEW x \in Subscriber, NEW w \in Watermark, Settled(x, w)
    PROVE  Settled(CloseWithError(x), w)
<1> DEFINE e == [tag |-> "error", watermark |-> 0]
           c == Close(x)
           y == CloseWithError(x)
<1>1. c \in Subscriber /\ y \in Subscriber /\ Settled(c, w) /\ c.state = "closed"
      /\ c.forwarder = "out"
  BY CloseTypes, SettledClose DEF Close, Subscriber
<1>2. e \in Message
  BY WatermarkType DEF Message
<1>3. y.downstream = Append(c.downstream, e) /\ y.state = "closed" /\ y.forwarder = "out"
  BY <1>1 DEF CloseWithError, Subscriber
<1>4. c.downstream \in Seq(Message)
  BY <1>1 DEF Subscriber
<1> HIDE DEF c, y
<1>5. /\ Len(c.downstream) \in Nat /\ Len(y.downstream) = Len(c.downstream) + 1
      /\ \A i \in 1 .. Len(c.downstream) : y.downstream[i] = c.downstream[i]
      /\ y.downstream[Len(c.downstream) + 1].tag = "error"
  BY <1>2, <1>3, <1>4, AppendOf
<1>6. ASSUME NEW i \in 1 .. Len(y.downstream), y.downstream[i].tag = "commit"
      PROVE  i \in 1 .. Len(c.downstream) /\ y.downstream[i] = c.downstream[i]
  BY <1>5, <1>6
<1>7. Rising(y, w)
  BY <1>1, <1>3, <1>6 DEF Rising, Settled
<1> QED
  BY <1>3, <1>7 DEF Settled, y

LEMMA SettledTransaction ==
    ASSUME NEW x \in Subscriber, NEW v \in Watermark, NEW w \in Watermark, Settled(x, w),
           x.state = "sending"
    PROVE  /\ Settled(SendTransaction(x, v), w)
           /\ SendTransaction(x, v).state = "sending"
<1> DEFINE b == [tag |-> "begin", watermark |-> v]
           c == [tag |-> "commit", watermark |-> v]
           y == SendChange(x, b)
           z == SendChange(y, c)
           t == SendTransaction(x, v)
<1>1. b \in Message /\ c \in Message
  BY EntryTypes
<1> HIDE DEF b, c
<1>2. y \in Subscriber /\ Rising(y, w) /\ y.state = "sending"
  BY <1>1, SendTypes, SendKeeps, RisingSend DEF Settled
<1> HIDE DEF y
<1>3. z \in Subscriber /\ Rising(z, w) /\ z.state = "sending"
  BY <1>1, <1>2, SendTypes, SendKeeps, RisingSend
<1>4. t = [z EXCEPT !.rows = x.rows \ {v}]
  BY DEF SendTransaction, b, c, y
<1>5. t.state = z.state /\ t.downstream = z.downstream /\ t.watermark = z.watermark
  BY <1>3, <1>4 DEF Subscriber
<1> HIDE DEF t, z
<1>6. Rising(t, w)
  BY <1>3, <1>5, RisingSame
<1>7. Settled(t, w) /\ t.state = "sending"
  BY <1>3, <1>5, <1>6 DEF Settled
<1> QED
  BY <1>7 DEF t

LEMMA SettledDrain ==
    ASSUME NEW x \in Subscriber, NEW w \in Watermark, Settled(x, w), x.state = "draining"
    PROVE  Settled(Drain(x), w) /\ Drain(x).state \in {"draining", "live"}
<1>1. CASE x.backlog = << >>
  <2>1. /\ Drain(x).state = "live" /\ Drain(x).downstream = x.downstream
        /\ Drain(x).watermark = x.watermark
    BY <1>1 DEF Drain, Subscriber
  <2> QED
    BY <2>1, RisingSame DEF Settled
<1>2. CASE x.backlog # << >>
  <2>1. Head(x.backlog) \in Message
    BY <1>2, TailOf DEF Subscriber
  <2>2. PICK y : y = SendChange(x, Head(x.backlog))
    OBVIOUS
  <2>3. y \in Subscriber /\ y.state = "draining" /\ Rising(y, w)
    BY <2>1, <2>2, SendTypes, SendKeeps, RisingSend DEF Settled
  <2>4. Drain(x) = [y EXCEPT !.backlog = Tail(x.backlog)]
    BY <1>2, <2>2 DEF Drain
  <2>5. /\ Drain(x).state = y.state /\ Drain(x).downstream = y.downstream
        /\ Drain(x).watermark = y.watermark
    BY <2>3, <2>4 DEF Subscriber
  <2> QED
    BY <2>3, <2>5, RisingSame DEF Settled
<1> QED
  BY <1>1, <1>2

-----------------------------------------------------------------------------
(* Who waits. *)

\* Every subscriber in the new queue comes from a place of its own, g[i], in
\* the old one, and waits if it did.
Moved(g) ==
    /\ \A i \in 1 .. Len(queue') : queue'[i].type = "subscriber" =>
          g[i] \in 1 .. Len(queue) /\ queue'[i] = queue[g[i]]
    /\ \A i, j \in 1 .. Len(queue') : g[i] = g[j] => i = j
    /\ \A r \in Replicas : \A i \in 1 .. Len(queue') :
          IsSubscriber(queue'[i], r) /\ sub[r].state = "waiting" /\ r \notin catchupQueue =>
             sub'[r].state = "waiting" /\ r \notin catchupQueue'
    /\ \A r \in catchupQueue' : sub'[r].state = "waiting"

LEMMA WaitsMove ==
    ASSUME Waits, NEW g, Moved(g)
    PROVE  Waits'
<1> USE DEF Moved
<1>1. ASSUME NEW r \in Replicas, NEW i \in 1 .. Len(queue'), IsSubscriber(queue'[i], r)
      PROVE  /\ sub'[r].state = "waiting" /\ r \notin catchupQueue'
             /\ \A j \in 1 .. Len(queue') : IsSubscriber(queue'[j], r) => j = i
  <2>1. g[i] \in 1 .. Len(queue) /\ IsSubscriber(queue[g[i]], r)
    BY <1>1 DEF IsSubscriber
  <2>2. sub[r].state = "waiting" /\ r \notin catchupQueue
    BY <2>1 DEF Waits
  <2>3. ASSUME NEW j \in 1 .. Len(queue'), IsSubscriber(queue'[j], r)
        PROVE  j = i
    <3>1. g[j] \in 1 .. Len(queue) /\ IsSubscriber(queue[g[j]], r)
      BY <2>3 DEF IsSubscriber
    <3>2. g[j] = g[i]
      BY <2>1, <3>1 DEF Waits
    <3> QED
      BY <3>2
  <2> QED
    BY <1>1, <2>2, <2>3
<1> QED
  BY <1>1 DEF Waits

\* Entries other than subscribers are added, and states stay as they are.
LEMMA WaitsGrow ==
    ASSUME TypeOK, Waits, Len(queue') \in Nat,
           \A i \in 1 .. Len(queue') : queue'[i].type = "subscriber" =>
              i \in 1 .. Len(queue) /\ queue'[i] = queue[i],
           catchupQueue' = catchupQueue,
           \A r \in Replicas : sub'[r].state = sub[r].state
    PROVE  Waits'
<1>1. PICK g : g = [i \in 1 .. Len(queue') |-> i]
  OBVIOUS
<1>2. \A r \in catchupQueue' : sub'[r].state = "waiting"
  BY DEF Waits, TypeOK
<1>3. Moved(g)
  BY <1>1, <1>2 DEF Moved
<1> QED
  BY <1>3, WaitsMove

LEMMA WaitsTail ==
    ASSUME TypeOK, Waits, queue # << >>, queue' = Tail(queue),
           \A r \in Replicas : \A i \in 2 .. Len(queue) :
              IsSubscriber(queue[i], r) /\ r \notin catchupQueue =>
                 sub'[r] = sub[r] /\ r \notin catchupQueue',
           \A r \in catchupQueue' : sub'[r].state = "waiting"
    PROVE  Waits'
<1>1. /\ Len(queue) \in Nat \ {0} /\ Len(queue') = Len(queue) - 1
      /\ \A i \in 1 .. Len(queue) - 1 : queue'[i] = queue[i + 1]
  BY TailOf DEF TypeOK
<1>2. PICK g : g = [i \in 1 .. Len(queue') |-> i + 1]
  OBVIOUS
<1>3. \A i \in 1 .. Len(queue') : g[i] \in 2 .. Len(queue) /\ queue'[i] = queue[g[i]]
  BY <1>1, <1>2
<1>4. \A i, j \in 1 .. Len(queue') : g[i] = g[j] => i = j
  BY <1>1, <1>2
<1>5. \A i \in 1 .. Len(queue') : g[i] \in 1 .. Len(queue) /\ queue'[i] = queue[g[i]]
  BY <1>1, <1>2
<1>6. \A r \in Replicas : \A i \in 1 .. Len(queue') :
         IsSubscriber(queue'[i], r) /\ sub[r].state = "waiting" /\ r \notin catchupQueue =>
            sub'[r].state = "waiting" /\ r \notin catchupQueue'
  BY <1>3
<1>7. Moved(g)
  BY <1>4, <1>5, <1>6 DEF Moved
<1> QED
  BY <1>7, WaitsMove

\* A subscriber leaves.
LEMMA WaitsForget ==
    ASSUME TypeOK, Waits, NEW r \in Replicas, StreamEnds(r)
    PROVE  Waits'
<1> USE DEF StreamEnds
<1>1. queue \in Seq(Entry) /\ queue' = Forget(queue, r)
      /\ \A q \in Replicas : q # r => sub'[q] = sub[q]
  BY DEF TypeOK
<1>2. \A q \in catchupQueue' : q \in Replicas /\ sub'[q].state = "waiting"
  BY <1>1 DEF Waits, TypeOK
<1>3. CASE queue' = queue /\ \A i \in 1 .. Len(queue) : ~IsSubscriber(queue[i], r)
  <2>1. \A q \in Replicas : \A i \in 1 .. Len(queue') :
           IsSubscriber(queue'[i], q) => q # r
    BY <1>3
  <2>2. PICK g : g = [i \in 1 .. Len(queue') |-> i]
    OBVIOUS
  <2>3. Moved(g)
    BY <1>1, <1>2, <1>3, <2>1, <2>2 DEF Moved
  <2> QED
    BY <2>3, WaitsMove
<1>4. ASSUME NEW k \in 1 .. Len(queue), IsSubscriber(queue[k], r), Without(queue, k, queue')
      PROVE  Waits'
  <2>1. PICK g : g = [i \in 1 .. Len(queue') |-> IF i < k THEN i ELSE i + 1]
    OBVIOUS
  <2>2. /\ Len(queue) \in Nat /\ Len(queue') = Len(queue) - 1
        /\ \A i \in 1 .. Len(queue) - 1 : queue'[i] = IF i < k THEN queue[i] ELSE queue[i + 1]
    BY <1>1, <1>4, LenProperties DEF Without
  <2>3. \A i \in 1 .. Len(queue') : /\ g[i] \in 1 .. Len(queue) /\ queue'[i] = queue[g[i]]
                                    /\ g[i] # k
    <3> SUFFICES ASSUME NEW i \in 1 .. Len(queue')
                 PROVE  g[i] \in 1 .. Len(queue) /\ queue'[i] = queue[g[i]] /\ g[i] # k
      OBVIOUS
    <3>1. k \in Nat /\ i \in 1 .. Len(queue) - 1 /\ g[i] = IF i < k THEN i ELSE i + 1
      BY <1>4, <2>1, <2>2
    <3>2. g[i] \in 1 .. Len(queue) /\ g[i] # k
      BY <2>2, <3>1
    <3>3. queue'[i] = queue[g[i]]
      BY <2>2, <3>1
    <3> QED
      BY <3>2, <3>3
  <2>4. \A i, j \in 1 .. Len(queue') : g[i] = g[j] => i = j
    BY <1>4, <2>1, <2>2
  <2>5. ASSUME NEW i \in 1 .. Len(queue'), IsSubscriber(queue'[i], r)
        PROVE  FALSE
    <3>1. IsSubscriber(queue[g[i]], r) /\ g[i] \in 1 .. Len(queue)
      BY <2>3, <2>5
    <3> QED
      BY <1>4, <2>3, <3>1 DEF Waits
  <2>6. \A q \in Replicas : \A i \in 1 .. Len(queue') :
           IsSubscriber(queue'[i], q) /\ sub[q].state = "waiting" /\ q \notin catchupQueue =>
              sub'[q].state = "waiting" /\ q \notin catchupQueue'
    BY <1>1, <2>5
  <2>7. \A i \in 1 .. Len(queue') : g[i] \in 1 .. Len(queue) /\ queue'[i] = queue[g[i]]
    BY <2>3
  <2>8. Moved(g)
    BY <1>2, <2>4, <2>6, <2>7 DEF Moved
  <2> QED
    BY <2>8, WaitsMove
<1> QED
  BY <1>1, <1>3, <1>4, ForgetOf DEF IsSubscriber

LEMMA WaitsSubscribe ==
    ASSUME TypeOK, Waits, NEW r \in Replicas, Subscribe(r)
    PROVE  Waits'
<1> USE DEF Subscribe
<1>1. /\ Len(queue) \in Nat /\ Len(queue') = Len(queue) + 1
      /\ \A i \in 1 .. Len(queue) : queue'[i] = queue[i]
      /\ queue'[Len(queue) + 1] = [type |-> "subscriber", replica |-> r]
  <2>1. [type |-> "subscriber", replica |-> r] \in Entry
    BY DEF Entry
  <2> QED
    BY <2>1, AppendOf DEF TypeOK
<1>2. sub'[r].state = "waiting" /\ \A q \in Replicas : q # r => sub'[q] = sub[q]
  BY DEF TypeOK, NoSubscriber
<1>3. r \notin catchupQueue /\ \A i \in 1 .. Len(queue) : ~IsSubscriber(queue[i], r)
  BY DEF Waits
<1>4. ASSUME NEW q \in Replicas, NEW i \in 1 .. Len(queue'), IsSubscriber(queue'[i], q)
      PROVE  /\ sub'[q].state = "waiting" /\ q \notin catchupQueue'
             /\ \A j \in 1 .. Len(queue') : IsSubscriber(queue'[j], q) => j = i
  <2>1. CASE i = Len(queue) + 1
    <3>1. q = r
      BY <1>1, <1>4, <2>1 DEF IsSubscriber
    <3> QED
      BY <1>1, <1>2, <1>3, <2>1, <3>1
  <2>2. CASE i \in 1 .. Len(queue)
    <3>1. IsSubscriber(queue[i], q) /\ q # r
      BY <1>1, <1>3, <1>4, <2>2
    <3>2. ~IsSubscriber(queue'[Len(queue) + 1], q)
      BY <1>1, <3>1 DEF IsSubscriber
    <3> QED
      BY <1>1, <1>2, <2>2, <3>1, <3>2 DEF Waits
  <2> QED
    BY <1>1, <2>1, <2>2
<1>5. \A q \in catchupQueue' : sub'[q].state = "waiting"
  BY <1>2, <1>3 DEF Waits, TypeOK
<1> QED
  BY <1>4, <1>5 DEF Waits

\* The end of the stream adds no subscribers to the queue.
LEMMA EndStreamGrows ==
    ASSUME queue \in Seq(Entry), EndStream
    PROVE  /\ Len(queue) \in Nat /\ Len(queue') \in Nat /\ Len(queue) <= Len(queue')
           /\ \A i \in 1 .. Len(queue) : queue'[i] = queue[i]
           /\ \A i \in 1 .. Len(queue') : i \in 1 .. Len(queue) \/ queue'[i] \in {Abort, Stop}
           /\ \A i \in 1 .. Len(queue') : queue'[i].type = "subscriber" =>
                 i \in 1 .. Len(queue) /\ queue'[i] = queue[i]
<1>1. Abort \in Entry /\ Stop \in Entry
  BY DEF Entry
<1>2. \A q \in Seq(Entry) : \A e \in {Abort, Stop} :
         /\ Append(q, e) \in Seq(Entry) /\ Len(q) \in Nat /\ Len(Append(q, e)) = Len(q) + 1
         /\ \A i \in 1 .. Len(q) : Append(q, e)[i] = q[i]
         /\ Append(q, e)[Len(q) + 1] = e
  BY <1>1, AppendOf
<1> DEFINE Grown(q) == /\ q \in Seq(Entry) /\ Len(q) \in Nat /\ Len(queue) <= Len(q)
                       /\ \A i \in 1 .. Len(queue) : q[i] = queue[i]
                       /\ \A i \in 1 .. Len(q) : i \in 1 .. Len(queue) \/ q[i] \in {Abort, Stop}
<1>3. Len(queue) \in Nat
  BY LenProperties
<1>4. ASSUME NEW q, Grown(q), NEW e \in {Abort, Stop}
      PROVE  Grown(Append(q, e))
  BY <1>2, <1>3, <1>4
<1>5. Grown(queue)
  BY <1>3
<1> HIDE DEF Grown
<1>6. Grown(Aborted)
  BY <1>4, <1>5 DEF Aborted
<1>7. Grown(Stopped)
  <2>1. Grown(Append(Aborted, Abort))
    BY <1>4, <1>6
  <2>2. Grown(Append(Append(Aborted, Abort), Stop))
    BY <1>4, <2>1
  <2> QED
    BY <1>6, <2>2 DEF Stopped
<1>8. queue' = Stopped
  BY EndStreamQueue
<1>9. Abort.type # "subscriber" /\ Stop.type # "subscriber"
  BY DEF Abort, Stop
<1> QED
  BY <1>3, <1>7, <1>8, <1>9 DEF Grown

-----------------------------------------------------------------------------
(* How far the log reaches. *)

LEMMA ReachesSame ==
    ASSUME Reaches, UNCHANGED <<purgeFloor, backedUp, changeLog, replicaWm, resetRequired>>,
           Backup \in Replicas /\ sub'[Backup].state = "catchup" =>
              /\ sub[Backup].state = "catchup"
              /\ sub'[Backup].rows = sub[Backup].rows
              /\ sub'[Backup].watermark = sub[Backup].watermark
    PROVE  Reaches'
BY DEF Reaches

\* A snapshot of the log reaches back to any watermark from the backup on.
LEMMA SnapshotReaches ==
    ASSUME TypeOK, LogIsContiguous, \E u \in changeLog : u <= backedUp,
           NEW v \in Watermark, backedUp <= v,
           NEW s, s = {w \in changeLog : v <= w /\ w <= lastWatermark}
    PROVE  s = {} \/ v \in s
<1> SUFFICES ASSUME NEW w \in s
             PROVE  v \in s
  OBVIOUS
<1>1. PICK u \in changeLog : u <= backedUp
  OBVIOUS
<1>2. w \in changeLog /\ v <= w /\ w <= lastWatermark
  OBVIOUS
<1>3. u \in Nat /\ v \in Nat /\ w \in Nat /\ backedUp \in Nat /\ lastWatermark \in Nat
  BY <1>1, <1>2, WatermarkType DEF TypeOK
<1>4. v \in u .. w
  BY <1>1, <1>2, <1>3
<1>5. v \in changeLog
  BY <1>1, <1>2, <1>4 DEF LogIsContiguous
<1> QED
  BY <1>2, <1>3, <1>5

LEMMA NextSnapshotReaches ==
    ASSUME TypeOK', LogIsContiguous', backedUp' = backedUp,
           \E u \in changeLog' : u <= backedUp, NEW v \in Watermark, backedUp <= v,
           NEW s, s = {w \in changeLog' : v <= w /\ w <= lastWatermark'}
    PROVE  s = {} \/ v \in s
<1> SUFFICES ASSUME NEW w \in s
             PROVE  v \in s
  OBVIOUS
<1>1. PICK u \in changeLog' : u <= backedUp
  OBVIOUS
<1>2. w \in changeLog' /\ v <= w /\ w <= lastWatermark'
  OBVIOUS
<1>3. u \in Nat /\ v \in Nat /\ w \in Nat /\ backedUp \in Nat /\ lastWatermark' \in Nat
  BY <1>1, <1>2, WatermarkType DEF TypeOK
<1>4. v \in u .. w
  BY <1>1, <1>2, <1>3
<1>5. v \in changeLog'
  BY <1>1, <1>2, <1>4 DEF LogIsContiguous
<1> QED
  BY <1>2, <1>3, <1>5

LEMMA StartCatchupOf ==
    ASSUME NEW x \in Subscriber, NEW log, NEW last
    PROVE  LET y == StartCatchup(x, log, last) IN
           /\ y.state = "catchup" /\ y.forwarder = x.forwarder /\ y.watermark = x.watermark
           /\ y.backlog = x.backlog /\ y.downstream = x.downstream
           /\ y.rows = {w \in log : x.watermark <= w /\ w <= last}
BY DEF StartCatchup, Subscriber

\* A subscriber that waits is caught up from the change DB as it is, or as it
\* becomes with the commit of this step.
LEMMA CatchupReaches ==
    ASSUME TypeOK, LogIsContiguous, Reaches, NEW r \in Replicas,
           Settled(sub[r], replicaWm[r]), sub[r].state = "waiting",
           NEW y, y = StartCatchup(sub[r], changeLog, lastWatermark)
    PROVE  /\ Settled(y, replicaWm[r])
           /\ r = Backup => y.rows = {} \/ y.watermark \in y.rows
<1>1. sub[r] \in Subscriber /\ replicaWm[r] \in Watermark
  BY DEF TypeOK
<1>2. /\ y.state = "catchup" /\ y.watermark = replicaWm[r] /\ y.downstream = << >>
      /\ y.rows = {w \in changeLog : replicaWm[r] <= w /\ w <= lastWatermark}
  BY <1>1, StartCatchupOf DEF Settled
<1>3. Settled(y, replicaWm[r])
  BY <1>1, <1>2, RisingEmpty DEF Settled
<1>4. ASSUME r = Backup
      PROVE  y.rows = {} \/ y.watermark \in y.rows
  <2>1. backedUp <= replicaWm[r]
    BY <1>4 DEF Reaches
  <2> QED
    BY <1>1, <1>2, <2>1, SnapshotReaches DEF Reaches
<1> QED
  BY <1>3, <1>4

LEMMA PurgeReaches ==
    ASSUME TypeOK, LogIsContiguous, Reaches, FinishPurge
    PROVE  Reaches'
<1> USE DEF FinishPurge
<1>1. changeLog' = {w \in changeLog : purgeFloor <= w \/ w = lastWatermark}
  BY PurgeKeeps DEF TypeOK
<1>2. PICK u \in changeLog : u <= backedUp
  BY DEF Reaches
<1>3. /\ u \in Nat /\ backedUp \in Nat /\ lastWatermark \in Nat /\ purgeFloor <= backedUp
      /\ lastWatermark \in changeLog
  BY <1>2, WatermarkType DEF TypeOK, Reaches, LogIsContiguous
<1>4. \E w \in changeLog' : w <= backedUp
  <2>1. CASE lastWatermark <= backedUp
    BY <1>1, <1>3, <2>1
  <2>2. CASE backedUp < lastWatermark
    <3>1. backedUp \in u .. lastWatermark
      BY <1>2, <1>3, <2>2
    <3>2. backedUp \in changeLog
      BY <1>2, <1>3, <3>1 DEF LogIsContiguous
    <3> QED
      BY <1>1, <1>3, <3>2
  <2> QED
    BY <1>3, <2>1, <2>2
<1>5. 0 <= backedUp /\ purgeFloor' <= backedUp'
  BY <1>3
<1> QED
  BY <1>4, <1>5 DEF Reaches, replicaVars

LEMMA StartPurgeReaches ==
    ASSUME TypeOK, Reaches, StartPurge
    PROVE  Reaches'
<1> DEFINE S == {backedUp} \cup {replicaWm[r] : r \in {q \in Replicas : sub[q].forwarder # "out"}}
<1>1. S \in SUBSET Watermark /\ S # {} /\ backedUp \in S
  BY DEF TypeOK
<1>2. SetMin(S) <= backedUp
  BY <1>1, LeastWatermark
<1>3. purgeFloor' <= backedUp
  BY <1>2 DEF StartPurge, CleanupFloor
<1> QED
  BY <1>3 DEF StartPurge, Reaches, dbVars, replicaVars

-----------------------------------------------------------------------------
(* The steps. *)

\* The invariant but for what ChangeLogProofs shows of it.
Caught ==
    /\ Waits
    /\ \A r \in Replicas : Settled(sub[r], replicaWm[r])
    /\ Reaches

\* Subscribers are sent a change, and entries other than theirs are queued.
LEMMA CaughtForward ==
    ASSUME TypeOK, Caught, NEW m \in Message, sub' = Forward(m) \/ sub' = sub,
           Len(queue') \in Nat,
           \A i \in 1 .. Len(queue') : queue'[i].type = "subscriber" =>
              i \in 1 .. Len(queue) /\ queue'[i] = queue[i],
           UNCHANGED <<dbVars, backedUp, purgeFloor, catchupQueue, replicaWm>>
    PROVE  Caught'
<1>1. \A r \in Replicas : /\ sub'[r].state = sub[r].state /\ sub'[r].rows = sub[r].rows
                          /\ Buffering(sub[r]) => sub'[r].watermark = sub[r].watermark
  <2> SUFFICES ASSUME NEW r \in Replicas, sub' = Forward(m)
               PROVE  /\ sub'[r].state = sub[r].state /\ sub'[r].rows = sub[r].rows
                      /\ Buffering(sub[r]) => sub'[r].watermark = sub[r].watermark
    OBVIOUS
  <2>1. sub[r] \in Subscriber
    BY DEF TypeOK
  <2> QED
    BY <2>1, ForwardOf, SendKeeps
<1>2. Waits'
  BY <1>1, WaitsGrow DEF Caught
<1>3. \A r \in Replicas : Settled(sub'[r], replicaWm'[r])
  BY SettledForward DEF Caught
<1>4. Reaches'
  BY <1>1, ReachesSame DEF Caught, dbVars, Buffering
<1> QED
  BY <1>2, <1>3, <1>4 DEF Caught

LEMMA CaughtLoop ==
    ASSUME TypeOK, Loop, Caught,
           Connect \/ ReceiveBegin \/ ReceiveCommit \/ FlowControlDone \/ ReceiveRollback
           \/ Disconnect \/ Interrupt
    PROVE  Caught'
<1> USE DEF dbVars, replicaVars, storerVars
<1>1. CASE Connect
  <2>1. Waits'
    BY <1>1 DEF Connect, Caught, Waits
  <2>2. Reaches'
    BY <1>1 DEF Connect, Caught, Reaches
  <2> QED
    BY <1>1, <2>1, <2>2 DEF Connect, Caught
<1>2. CASE FlowControlDone
  <2>1. Waits' /\ Reaches'
    BY <1>2 DEF FlowControlDone, Caught, Waits, Reaches
  <2> QED
    BY <1>2, <2>1 DEF FlowControlDone, Caught
<1>3. ASSUME NEW tag \in {"begin", "commit", "rollback"}, NEW w \in Watermark,
             StoreAndForward([tag |-> tag, watermark |-> w]),
             UNCHANGED <<dbVars, backedUp, purgeFloor, catchupQueue, replicaWm>>
      PROVE  Caught'
  <2>1. PICK m \in Message : m = [tag |-> tag, watermark |-> w]
    BY <1>3, EntryTypes
  <2>2. PICK e \in Entry : e = [type |-> "change", tag |-> tag, watermark |-> w]
    BY <1>3, EntryTypes
  <2>3. queue' = Append(queue, e) /\ sub' = Forward(m)
    BY <1>3, <2>1, <2>2 DEF StoreAndForward
  <2>4. /\ Len(queue') \in Nat
        /\ \A i \in 1 .. Len(queue') : queue'[i].type = "subscriber" =>
              i \in 1 .. Len(queue) /\ queue'[i] = queue[i]
    BY <2>2, <2>3, AppendOf DEF TypeOK
  <2> QED
    BY <1>3, <2>3, <2>4, CaughtForward
<1>4. CASE ReceiveBegin
  <2>1. next \in Watermark
    BY <1>4, WatermarkType DEF ReceiveBegin, TypeOK
  <2> QED
    BY <1>3, <1>4, <2>1 DEF ReceiveBegin
<1>5. CASE ReceiveCommit
  BY <1>3, <1>5 DEF ReceiveCommit, TypeOK
<1>6. CASE ReceiveRollback
  BY <1>3, <1>6 DEF ReceiveRollback, TypeOK
<1>7. CASE Disconnect \/ Interrupt
  <2>1. EndStream
    BY <1>7 DEF Disconnect, Interrupt
  <2>2. PICK m \in Message : m = [tag |-> "rollback", watermark |-> watermark]
    BY EntryTypes DEF TypeOK
  <2>3. sub' = Forward(m) \/ sub' = sub
    BY <2>1, <2>2 DEF EndStream
  <2>4. /\ Len(queue') \in Nat
        /\ \A i \in 1 .. Len(queue') : queue'[i].type = "subscriber" =>
              i \in 1 .. Len(queue) /\ queue'[i] = queue[i]
    BY <2>1, EndStreamGrows DEF TypeOK
  <2> QED
    BY <2>1, <2>3, <2>4, CaughtForward DEF EndStream
<1> QED
  BY <1>1, <1>2, <1>4, <1>5, <1>6, <1>7

\* An entry that is no subscriber has been dealt with; W are caught up.
LEMMA CaughtServes ==
    ASSUME TypeOK, Caught, TypeOK', LogIsContiguous', queue # << >>, queue' = Tail(queue),
           NEW W, W = {} \/ W = catchupQueue,
           catchupQueue' = catchupQueue \ W,
           sub' = [r \in Replicas |->
                     IF r \in W THEN StartCatchup(sub[r], changeLog', lastWatermark') ELSE sub[r]],
           changeLog \subseteq changeLog',
           UNCHANGED <<resetRequired, backedUp, purgeFloor, replicaWm>>
    PROVE  Caught'
<1>1. Waits'
  <2>1. \A r \in Replicas : \A i \in 2 .. Len(queue) :
           IsSubscriber(queue[i], r) /\ r \notin catchupQueue =>
              sub'[r] = sub[r] /\ r \notin catchupQueue'
    OBVIOUS
  <2>2. \A r \in catchupQueue' : sub'[r].state = "waiting"
    BY DEF Caught, Waits, TypeOK
  <2> QED
    BY <2>1, <2>2, WaitsTail DEF Caught
<1>2. ASSUME NEW r \in Replicas, r \in W
      PROVE  /\ Settled(sub'[r], replicaWm[r])
             /\ r = Backup => sub'[r].rows = {} \/ sub'[r].watermark \in sub'[r].rows
  <2>1. sub[r].state = "waiting" /\ Settled(sub[r], replicaWm[r]) /\ sub[r] \in Subscriber
        /\ replicaWm[r] \in Watermark
    BY <1>2 DEF Caught, Waits, TypeOK
  <2>2. sub'[r] = StartCatchup(sub[r], changeLog', lastWatermark')
    BY <1>2
  <2>3. /\ sub'[r].state = "catchup" /\ sub'[r].watermark = replicaWm[r]
        /\ sub'[r].downstream = << >>
        /\ sub'[r].rows = {w \in changeLog' : replicaWm[r] <= w /\ w <= lastWatermark'}
    BY <2>1, <2>2, StartCatchupOf DEF Settled
  <2>4. Settled(sub'[r], replicaWm[r])
    BY <2>1, <2>3, RisingEmpty DEF Settled
  <2>5. ASSUME r = Backup
        PROVE  sub'[r].rows = {} \/ sub'[r].watermark \in sub'[r].rows
    <3>1. \E w \in changeLog' : w <= backedUp
      BY DEF Caught, Reaches
    <3>2. backedUp <= replicaWm[r]
      BY <2>5 DEF Caught, Reaches
    <3> QED
      BY <2>1, <2>3, <3>1, <3>2, NextSnapshotReaches
  <2> QED
    BY <2>4, <2>5
<1>3. \A r \in Replicas : Settled(sub'[r], replicaWm'[r])
  BY <1>2 DEF Caught
<1>4. \A r \in Replicas : r \notin W => sub'[r] = sub[r]
  OBVIOUS
<1>5. Reaches'
  BY <1>2, <1>4 DEF Caught, Reaches
<1> QED
  BY <1>1, <1>3, <1>5 DEF Caught

\* The queue is dropped, and some subscribers with it.
LEMMA CaughtStops ==
    ASSUME TypeOK, Caught, queue' = << >>, catchupQueue' = {},
           NEW L, sub' = [r \in Replicas |-> IF r \in L THEN Close(sub[r]) ELSE sub[r]],
           changeLog \subseteq changeLog',
           UNCHANGED <<resetRequired, backedUp, purgeFloor, replicaWm>>
    PROVE  Caught'
<1>1. Waits'
  BY EmptySeq DEF Waits
<1>2. \A r \in Replicas : /\ Settled(sub'[r], replicaWm'[r])
                          /\ sub'[r].state = "catchup" => sub'[r] = sub[r]
  <2> SUFFICES ASSUME NEW r \in Replicas
               PROVE  /\ Settled(sub'[r], replicaWm'[r])
                      /\ sub'[r].state = "catchup" => sub'[r] = sub[r]
    OBVIOUS
  <2>1. sub[r] \in Subscriber /\ replicaWm[r] \in Watermark /\ Settled(sub[r], replicaWm[r])
    BY DEF TypeOK, Caught
  <2>2. Settled(Close(sub[r]), replicaWm[r]) /\ Close(sub[r]).state = "closed"
    BY <2>1, SettledClose DEF Close, Subscriber
  <2> QED
    BY <2>1, <2>2
<1>3. Reaches'
  BY <1>2 DEF Caught, Reaches
<1> QED
  BY <1>1, <1>2, <1>3 DEF Caught

LEMMA CaughtStorer ==
    ASSUME TypeOK, Caught, TypeOK', LogIsContiguous',
           StoreBegin \/ StoreCommit \/ StoreRollback \/ StoreAssertFails \/ StoreSubscriber
           \/ StoreAbort \/ StoreStop \/ StorerError \/ StorerErrorAfterCommit
    PROVE  Caught'
<1> USE DEF dbVars, loopVars, replicaVars
<1>1. CASE StoreBegin \/ StoreAbort
  <2>1. /\ queue # << >> /\ queue' = Tail(queue)
        /\ UNCHANGED <<sub, catchupQueue, changeLog, resetRequired, backedUp, purgeFloor, replicaWm>>
    BY <1>1 DEF StoreBegin, StoreAbort, DequeueChange, Dequeue
  <2>2. sub' = [r \in Replicas |->
                   IF r \in {} THEN StartCatchup(sub[r], changeLog', lastWatermark') ELSE sub[r]]
    BY <2>1 DEF TypeOK
  <2>3. catchupQueue' = catchupQueue \ {}
    BY <2>1
  <2>4. PICK W : W = {}
    OBVIOUS
  <2>5. /\ catchupQueue' = catchupQueue \ W /\ changeLog \subseteq changeLog'
        /\ sub' = [r \in Replicas |->
                     IF r \in W THEN StartCatchup(sub[r], changeLog', lastWatermark') ELSE sub[r]]
    BY <2>1, <2>2, <2>3, <2>4
  <2> QED
    BY <2>1, <2>4, <2>5, CaughtServes
<1>2. CASE StoreCommit \/ StoreRollback
  <2>1. /\ queue # << >> /\ queue' = Tail(queue) /\ catchupQueue' = catchupQueue \ catchupQueue
        /\ changeLog \subseteq changeLog'
        /\ UNCHANGED <<resetRequired, backedUp, purgeFloor, replicaWm>>
    BY <1>2 DEF StoreCommit, StoreRollback, DequeueChange, Dequeue
  <2>2. sub' = [r \in Replicas |-> IF r \in catchupQueue
                   THEN StartCatchup(sub[r], changeLog', lastWatermark') ELSE sub[r]]
    BY <1>2 DEF StoreCommit, StoreRollback
  <2> QED
    BY <2>1, <2>2, CaughtServes
<1>3. CASE StoreSubscriber
  <2>1. PICK r \in Replicas : r = Head(queue).replica
    BY <1>3, QueueTypes DEF TypeOK, StoreSubscriber, Dequeue
  <2>2. /\ queue # << >> /\ queue' = Tail(queue) /\ IsSubscriber(queue[1], r)
        /\ Len(queue) \in Nat \ {0}
    BY <1>3, <2>1, TailOf DEF TypeOK, StoreSubscriber, Dequeue, IsSubscriber
  <2>3. /\ sub[r].state = "waiting" /\ r \notin catchupQueue
        /\ \A i \in 2 .. Len(queue) : ~IsSubscriber(queue[i], r)
    <3>1. 1 \in 1 .. Len(queue) /\ \A i \in 2 .. Len(queue) : i \in 1 .. Len(queue) /\ i # 1
      BY <2>2
    <3> QED
      BY <2>2, <3>1 DEF Caught, Waits
  <2>4. CASE tx # 0
    <3>1. sub' = sub /\ catchupQueue' = catchupQueue \cup {r}
      BY <1>3, <2>1, <2>4 DEF StoreSubscriber
    <3>2. Waits'
      <4>1. \A q \in Replicas : \A i \in 2 .. Len(queue) :
               IsSubscriber(queue[i], q) /\ q \notin catchupQueue =>
                  sub'[q] = sub[q] /\ q \notin catchupQueue'
        BY <2>3, <3>1
      <4>2. \A q \in catchupQueue' : sub'[q].state = "waiting"
        BY <2>3, <3>1 DEF Caught, Waits
      <4> QED
        BY <2>2, <4>1, <4>2, WaitsTail DEF Caught
    <3> QED
      BY <1>3, <3>1, <3>2 DEF StoreSubscriber, Caught, Reaches
  <2>5. CASE tx = 0
    <3>1. /\ catchupQueue' = catchupQueue
          /\ sub' = [sub EXCEPT ![r] = StartCatchup(sub[r], changeLog, lastWatermark)]
      BY <1>3, <2>1, <2>5 DEF StoreSubscriber
    <3>2. /\ sub'[r] = StartCatchup(sub[r], changeLog, lastWatermark)
          /\ \A q \in Replicas : q # r => sub'[q] = sub[q]
      BY <3>1 DEF TypeOK
    <3>3. Waits'
      <4>1. \A q \in Replicas : \A i \in 2 .. Len(queue) :
               IsSubscriber(queue[i], q) /\ q \notin catchupQueue =>
                  sub'[q] = sub[q] /\ q \notin catchupQueue'
        BY <2>3, <3>1, <3>2
      <4>2. \A q \in catchupQueue' : sub'[q].state = "waiting"
        BY <2>3, <3>1, <3>2 DEF Caught, Waits, TypeOK
      <4> QED
        BY <2>2, <4>1, <4>2, WaitsTail DEF Caught
    <3>4. LogIsContiguous
      BY <1>3 DEF StoreSubscriber, LogIsContiguous
    <3>5. /\ Settled(sub'[r], replicaWm[r])
          /\ r = Backup => sub'[r].rows = {} \/ sub'[r].watermark \in sub'[r].rows
      BY <2>3, <3>2, <3>4, CatchupReaches DEF Caught
    <3>6. UNCHANGED <<changeLog, resetRequired, backedUp, purgeFloor, replicaWm>>
      BY <1>3 DEF StoreSubscriber
    <3>7. Reaches'
      BY <3>2, <3>5, <3>6 DEF Caught, Reaches
    <3>8. \A q \in Replicas : Settled(sub'[q], replicaWm'[q])
      BY <3>2, <3>5, <3>6 DEF Caught
    <3> QED
      BY <3>3, <3>7, <3>8 DEF Caught
  <2> QED
    BY <2>4, <2>5
<1>4. CASE StoreAssertFails \/ StorerError \/ StorerErrorAfterCommit
  <2>1. StorerFails /\ changeLog \subseteq changeLog'
        /\ UNCHANGED <<resetRequired, backedUp, purgeFloor, replicaWm>>
    BY <1>4 DEF StoreAssertFails, StorerError, StorerErrorAfterCommit
  <2>2. PICK L : sub' = [r \in Replicas |-> IF r \in L THEN Close(sub[r]) ELSE sub[r]]
    BY <2>1 DEF StorerFails
  <2> QED
    BY <2>1, <2>2, CaughtStops DEF StorerFails
<1>5. CASE StoreStop
  <2>1. PICK L : L = {r \in Replicas : \E i \in 1 .. Len(queue) :
                          queue[i].type = "subscriber" /\ queue[i].replica = r}
    OBVIOUS
  <2>2. sub' = [r \in Replicas |-> IF r \in L THEN Close(sub[r]) ELSE sub[r]]
    BY <1>5, <2>1 DEF StoreStop
  <2> QED
    BY <1>5, <2>2, CaughtStops DEF StoreStop
<1> QED
  BY <1>1, <1>2, <1>3, <1>4, <1>5

\* The subscriber of r, which does not wait, becomes y.
LEMMA CaughtOne ==
    ASSUME TypeOK, Caught, NEW r \in Replicas, NEW y, sub' = [sub EXCEPT ![r] = y],
           sub[r].state # "waiting", Settled(y, replicaWm'[r]),
           y.state = "catchup" =>
              /\ sub[r].state = "catchup"
              /\ y.rows = sub[r].rows /\ y.watermark = sub[r].watermark,
           \A q \in Replicas : q # r => replicaWm'[q] = replicaWm[q],
           r = Backup => backedUp <= replicaWm'[r],
           ~resetRequired',
           UNCHANGED <<changeLog, backedUp, purgeFloor, queue, catchupQueue>>
    PROVE  Caught'
<1>1. sub'[r] = y /\ \A q \in Replicas : q # r => sub'[q] = sub[q]
  BY DEF TypeOK
<1>2. Waits'
  <2>1. \A i \in 1 .. Len(queue) : ~IsSubscriber(queue[i], r)
    BY DEF Caught, Waits
  <2>2. r \notin catchupQueue
    BY DEF Caught, Waits
  <2>3. \A q \in catchupQueue' : sub'[q].state = "waiting"
    BY <1>1, <2>2 DEF Caught, Waits, TypeOK
  <2>4. \A q \in Replicas : \A i \in 1 .. Len(queue') : IsSubscriber(queue'[i], q) =>
           /\ sub'[q].state = "waiting"
           /\ q \notin catchupQueue'
           /\ \A j \in 1 .. Len(queue') : IsSubscriber(queue'[j], q) => j = i
    BY <1>1, <2>1 DEF Caught, Waits
  <2> QED
    BY <2>3, <2>4 DEF Waits
<1>3. \A q \in Replicas : Settled(sub'[q], replicaWm'[q])
  BY <1>1 DEF Caught
<1>4. Reaches'
  BY <1>1 DEF Caught, Reaches
<1> QED
  BY <1>2, <1>3, <1>4 DEF Caught

LEMMA CaughtCatchup ==
    ASSUME TypeOK, Caught, NEW r \in Replicas,
           CatchupStarts(r) \/ CatchupTooOld(r) \/ CatchupSends(r) \/ SetCaughtUp(r)
           \/ DrainBacklog(r)
    PROVE  Caught'
<1> USE DEF dbVars, storerVars, replicaVars
<1>1. PICK x \in Subscriber : x = sub[r]
  BY DEF TypeOK
<1>2. sub \in [Replicas -> Subscriber] /\ replicaWm[r] \in Watermark /\ Settled(x, replicaWm[r])
  BY <1>1 DEF TypeOK, Caught
<1>3. ~resetRequired /\ (r = Backup => backedUp <= replicaWm[r])
  BY DEF Caught, Reaches
<1>4. CASE CatchupStarts(r)
  <2>1. PICK y : y = [x EXCEPT !.state = "sending", !.rows = x.rows \ {x.watermark}]
    OBVIOUS
  <2>2. sub' = [sub EXCEPT ![r] = y] /\ x.state = "catchup"
    BY <1>1, <1>2, <1>4, <2>1 DEF CatchupStarts
  <2>3. y.state = "sending" /\ y.downstream = x.downstream /\ y.watermark = x.watermark
    BY <2>1 DEF Subscriber
  <2>4. Settled(y, replicaWm[r])
    BY <1>2, <2>2, <2>3, RisingSame DEF Settled
  <2> QED
    BY <1>1, <1>3, <1>4, <2>2, <2>3, <2>4, CaughtOne DEF CatchupStarts
<1>5. CASE CatchupTooOld(r)
  <2>1. x.state = "catchup" /\ x.watermark \notin x.rows /\ x.rows # {}
    BY <1>1, <1>5 DEF CatchupTooOld, WatermarkFound
  <2>2. r # Backup
    BY <1>1, <2>1 DEF Caught, Reaches
  <2>3. PICK y : y = CloseWithError(x)
    OBVIOUS
  <2>4. sub' = [sub EXCEPT ![r] = y] /\ ~resetRequired'
    BY <1>1, <1>3, <1>5, <2>2, <2>3 DEF CatchupTooOld
  <2>5. Settled(y, replicaWm[r]) /\ y.state = "closed"
    <3>1. Close(x) \in Subscriber /\ Close(x).state = "closed"
      BY CloseTypes DEF Close, Subscriber
    <3> QED
      BY <1>2, <2>3, <3>1, SettledError DEF CloseWithError, Subscriber
  <2> QED
    BY <1>1, <1>3, <1>5, <2>1, <2>2, <2>4, <2>5, CaughtOne DEF CatchupTooOld
<1>6. CASE CatchupSends(r)
  <2>1. PICK w \in x.rows : sub' = [sub EXCEPT ![r] = SendTransaction(x, w)]
    BY <1>1, <1>2, <1>6 DEF CatchupSends
  <2>2. w \in Watermark /\ x.state = "sending"
    BY <1>1, <1>6 DEF Subscriber, CatchupSends
  <2>3. Settled(SendTransaction(x, w), replicaWm[r]) /\ SendTransaction(x, w).state = "sending"
    BY <1>2, <2>2, SettledTransaction
  <2> QED
    BY <1>1, <1>3, <1>6, <2>1, <2>2, <2>3, CaughtOne DEF CatchupSends
<1>7. CASE SetCaughtUp(r)
  <2>1. PICK y : y = [x EXCEPT !.state = "draining"]
    OBVIOUS
  <2>2. sub' = [sub EXCEPT ![r] = y] /\ x.state = "sending"
    BY <1>1, <1>2, <1>7, <2>1 DEF SetCaughtUp
  <2>3. y.state = "draining" /\ y.downstream = x.downstream /\ y.watermark = x.watermark
    BY <2>1 DEF Subscriber
  <2>4. Settled(y, replicaWm[r])
    BY <1>2, <2>2, <2>3, RisingSame DEF Settled
  <2> QED
    BY <1>1, <1>3, <1>7, <2>2, <2>3, <2>4, CaughtOne DEF SetCaughtUp
<1>8. CASE DrainBacklog(r)
  <2>1. sub' = [sub EXCEPT ![r] = Drain(x)] /\ x.state = "draining"
    BY <1>1, <1>2, <1>8 DEF DrainBacklog
  <2>2. Settled(Drain(x), replicaWm[r]) /\ Drain(x).state \in {"draining", "live"}
    BY <1>2, <2>1, SettledDrain
  <2> QED
    BY <1>1, <1>3, <1>8, <2>1, <2>2, CaughtOne DEF DrainBacklog
<1> QED
  BY <1>4, <1>5, <1>6, <1>7, <1>8

LEMMA CaughtReplica ==
    ASSUME TypeOK, Caught, NEW r \in Replicas,
           Subscribe(r) \/ ReplicaBegins(r) \/ ReplicaCommits(r) \/ ReplicaRollsBack(r)
           \/ ReplicaRestores(r) \/ StreamEnds(r)
    PROVE  Caught'
<1> USE DEF dbVars, storerVars, replicaVars
<1>1. PICK x \in Subscriber : x = sub[r]
  BY DEF TypeOK
<1>2. /\ sub \in [Replicas -> Subscriber] /\ replicaWm \in [Replicas -> Watermark]
      /\ replicaWm[r] \in Watermark /\ backedUp \in Watermark /\ Settled(x, replicaWm[r])
  BY <1>1 DEF TypeOK, Caught
<1>3. ~resetRequired /\ (r = Backup => backedUp <= replicaWm[r])
  BY DEF Caught, Reaches
<1>4. CASE Subscribe(r)
  <2>1. Waits'
    BY <1>4, WaitsSubscribe DEF Caught
  <2>2. /\ sub'[r].state = "waiting" /\ sub'[r].downstream = << >>
        /\ sub'[r].watermark = replicaWm[r]
        /\ \A q \in Replicas : q # r => sub'[q] = sub[q]
    BY <1>2, <1>4 DEF Subscribe, NoSubscriber
  <2>3. Settled(sub'[r], replicaWm[r])
    BY <1>2, <2>2, RisingEmpty DEF Settled
  <2>4. \A q \in Replicas : Settled(sub'[q], replicaWm'[q])
    BY <1>4, <2>2, <2>3 DEF Subscribe, Caught
  <2>5. Reaches'
    BY <1>4, <2>2, ReachesSame DEF Subscribe, Caught
  <2> QED
    BY <2>1, <2>4, <2>5 DEF Caught
<1>5. CASE StreamEnds(r)
  <2>1. Waits'
    BY <1>5, WaitsForget DEF Caught
  <2>2. sub'[r] = NoSubscriber /\ \A q \in Replicas : q # r => sub'[q] = sub[q]
    BY <1>2, <1>5 DEF StreamEnds
  <2>3. \A q \in Replicas : Settled(sub'[q], replicaWm'[q])
    BY <1>2, <1>5, <2>2, SettledClose DEF StreamEnds, Caught
  <2>4. Reaches'
    BY <1>5, <2>2, ReachesSame DEF StreamEnds, Caught, NoSubscriber
  <2> QED
    BY <2>1, <2>3, <2>4 DEF Caught
<1>6. ASSUME NEW tag, NextMessage(r, tag)
      PROVE  /\ x.state # "waiting" /\ x.downstream # << >>
             /\ Head(x.downstream) \in Message
             /\ Head(x.downstream).watermark \in Watermark
             /\ Head(x.downstream).tag = tag
  <2>1. x.downstream # << >> /\ Head(x.downstream).tag = tag
    BY <1>1, <1>6 DEF NextMessage
  <2>2. Head(x.downstream) \in Message
    BY <2>1, TailOf DEF Subscriber
  <2> QED
    BY <1>2, <2>1, <2>2 DEF Settled, Message
<1>7. ASSUME NEW y, y = [x EXCEPT !.downstream = Tail(@)]
      PROVE  y.state = x.state /\ y.rows = x.rows /\ y.watermark = x.watermark
  BY <1>7 DEF Subscriber
<1>8. CASE ReplicaBegins(r) \/ ReplicaRollsBack(r)
  <2>1. PICK y : y = [x EXCEPT !.downstream = Tail(@)]
    OBVIOUS
  <2>2. sub' = [sub EXCEPT ![r] = y]
    BY <1>1, <1>2, <1>8, <2>1 DEF ReplicaBegins, ReplicaRollsBack
  <2>3. x.state # "waiting" /\ x.downstream # << >>
    BY <1>6, <1>8 DEF ReplicaBegins, ReplicaRollsBack
  <2>4. y.state = x.state /\ y.rows = x.rows /\ y.watermark = x.watermark
    BY <1>7, <2>1
  <2>5. Settled(y, replicaWm[r])
    <3>1. Rising(y, replicaWm[r])
      BY <1>2, <2>1, <2>3, RisingTail DEF Settled
    <3>2. x.state = "off" => FALSE
      BY <1>2, <2>3 DEF Settled, NoSubscriber
    <3>3. x.state = "closed" => y.forwarder = "out"
      BY <1>2, <2>1 DEF Settled, Subscriber
    <3> QED
      BY <2>3, <2>4, <3>1, <3>2, <3>3 DEF Settled
  <2>6. UNCHANGED <<changeLog, resetRequired, backedUp, purgeFloor, queue, catchupQueue, replicaWm>>
    BY <1>8 DEF ReplicaBegins, ReplicaRollsBack
  <2> QED
    BY <1>1, <1>3, <2>2, <2>3, <2>4, <2>5, <2>6, CaughtOne
<1>9. CASE ReplicaCommits(r)
  <2>1. PICK y : y = [x EXCEPT !.downstream = Tail(@)]
    OBVIOUS
  <2>2. PICK w : w = Head(x.downstream).watermark
    OBVIOUS
  <2>3. sub' = [sub EXCEPT ![r] = y] /\ replicaWm' = [replicaWm EXCEPT ![r] = w]
    BY <1>1, <1>2, <1>9, <2>1, <2>2 DEF ReplicaCommits
  <2>4. /\ x.state # "waiting" /\ x.downstream # << >> /\ Head(x.downstream).tag = "commit"
        /\ w \in Watermark
    BY <1>6, <1>9, <2>2 DEF ReplicaCommits
  <2>5. y.state = x.state /\ y.rows = x.rows /\ y.watermark = x.watermark
    BY <1>7, <2>1
  <2>6. replicaWm[r] < w /\ Rising(y, w)
    BY <1>2, <2>1, <2>2, <2>4, RisingTail DEF Settled
  <2>7. Settled(y, w)
    <3>1. x.state = "off" => FALSE
      BY <1>2, <2>4 DEF Settled, NoSubscriber
    <3>2. x.state = "closed" => y.forwarder = "out"
      BY <1>2, <2>1 DEF Settled, Subscriber
    <3> QED
      BY <2>4, <2>5, <2>6, <3>1, <3>2 DEF Settled
  <2>8. /\ replicaWm'[r] = w /\ \A q \in Replicas : q # r => replicaWm'[q] = replicaWm[q]
        /\ r = Backup => backedUp <= w
    BY <1>2, <1>3, <2>3, <2>4, <2>6, WatermarkType
  <2>9. UNCHANGED <<changeLog, resetRequired, backedUp, purgeFloor, queue, catchupQueue>>
    BY <1>9 DEF ReplicaCommits
  <2> QED
    BY <1>1, <1>3, <2>3, <2>4, <2>5, <2>7, <2>8, <2>9, CaughtOne
<1>10. CASE ReplicaRestores(r)
  <2>1. PICK y : y = NoSubscriber
    OBVIOUS
  <2>2. sub' = [sub EXCEPT ![r] = y] /\ replicaWm' = [replicaWm EXCEPT ![r] = backedUp]
    BY <1>10, <2>1 DEF ReplicaRestores
  <2>3. x.state # "waiting"
    BY <1>6, <1>10 DEF ReplicaRestores
  <2>4. Settled(y, backedUp) /\ y.state = "off"
    <3>1. Settled(NoSubscriber, backedUp)
      BY <1>2, RisingEmpty DEF Settled, NoSubscriber
    <3> QED
      BY <2>1, <3>1 DEF NoSubscriber
  <2>5. /\ replicaWm'[r] = backedUp /\ \A q \in Replicas : q # r => replicaWm'[q] = replicaWm[q]
        /\ backedUp <= backedUp
    BY <1>2, <2>2, WatermarkType
  <2>6. UNCHANGED <<changeLog, resetRequired, backedUp, purgeFloor, queue, catchupQueue>>
    BY <1>10 DEF ReplicaRestores
  <2> QED
    BY <1>1, <1>3, <2>2, <2>3, <2>4, <2>5, <2>6, CaughtOne
<1> QED
  BY <1>4, <1>5, <1>8, <1>9, <1>10

LEMMA CaughtRest ==
    ASSUME TypeOK, LogIsContiguous, Caught, StartPurge \/ FinishPurge \/ BackUp \/ Crash
    PROVE  Caught'
<1> USE DEF dbVars, storerVars, replicaVars
<1>1. CASE StartPurge \/ FinishPurge
  <2>1. Reaches'
    BY <1>1, StartPurgeReaches, PurgeReaches DEF Caught
  <2>2. UNCHANGED <<sub, queue, catchupQueue, replicaWm>>
    BY <1>1 DEF StartPurge, FinishPurge
  <2>3. Waits' /\ \A r \in Replicas : Settled(sub'[r], replicaWm'[r])
    BY <2>2 DEF Caught, Waits
  <2> QED
    BY <2>1, <2>3 DEF Caught
<1>2. CASE BackUp
  <2>1. UNCHANGED <<changeLog, resetRequired, purgeFloor, sub, queue, catchupQueue, replicaWm>>
    BY <1>2 DEF BackUp
  <2>2. Waits' /\ \A r \in Replicas : Settled(sub'[r], replicaWm'[r])
    BY <2>1 DEF Caught, Waits
  <2>3. backedUp \in Nat /\ backedUp' \in Nat /\ backedUp < backedUp' /\ purgeFloor \in Nat
        /\ \A w \in changeLog : w \in Nat
    BY <1>2, WatermarkType DEF BackUp, TypeOK
  <2>4. Backup \in Replicas => backedUp' <= replicaWm'[Backup]
    BY <1>2, <2>1, <2>3, WatermarkType DEF BackUp, TypeOK
  <2>5. purgeFloor' <= backedUp' /\ \E w \in changeLog' : w <= backedUp'
    BY <2>1, <2>3 DEF Caught, Reaches
  <2>6. Reaches'
    BY <2>1, <2>4, <2>5 DEF Caught, Reaches
  <2> QED
    BY <2>2, <2>6 DEF Caught
<1>3. CASE Crash
  <2>1. Waits'
    BY <1>3, EmptySeq DEF Crash, Waits
  <2>2. \A r \in Replicas :
           /\ sub'[r] = NoSubscriber \/ sub'[r] = Close(sub[r])
           /\ r = Backup => sub'[r] = NoSubscriber
           /\ r # Backup => replicaWm'[r] = replicaWm[r]
           /\ replicaWm'[r] = replicaWm[r] \/ (r = Backup /\ replicaWm'[r] = backedUp)
           /\ replicaWm'[r] \in Watermark
    BY <1>3 DEF Crash, TypeOK
  <2>3. \A r \in Replicas : Settled(sub'[r], replicaWm'[r])
    <3> SUFFICES ASSUME NEW r \in Replicas
                 PROVE  Settled(sub'[r], replicaWm'[r])
      OBVIOUS
    <3>1. sub[r] \in Subscriber /\ Settled(sub[r], replicaWm[r]) /\ replicaWm[r] \in Watermark
      BY DEF TypeOK, Caught
    <3>2. Settled(NoSubscriber, replicaWm'[r])
      <4>1. replicaWm'[r] \in Watermark
        BY <2>2
      <4> QED
        BY <4>1, RisingEmpty DEF Settled, NoSubscriber
    <3>3. CASE r = Backup
      BY <2>2, <3>2, <3>3
    <3>4. CASE r # Backup
      BY <2>2, <3>1, <3>2, <3>4, SettledClose
    <3> QED
      BY <3>3, <3>4
  <2>4. Backup \in Replicas => backedUp <= replicaWm'[Backup]
    <3>1. backedUp <= backedUp
      BY WatermarkType DEF TypeOK
    <3> QED
      BY <2>2, <3>1 DEF Caught, Reaches
  <2>5. Backup \in Replicas => sub'[Backup].state = "off"
    BY <2>2 DEF NoSubscriber
  <2>6. 0 <= backedUp
    BY WatermarkType DEF TypeOK
  <2>7. Reaches'
    BY <1>3, <2>4, <2>5, <2>6 DEF Crash, Caught, Reaches
  <2> QED
    BY <2>1, <2>3, <2>7 DEF Caught
<1> QED
  BY <1>1, <1>2, <1>3

-----------------------------------------------------------------------------
(* The theorems. *)

LEMMA InitCaught == Init => CatchupInvariant
<1> SUFFICES ASSUME Init
             PROVE  CatchupInvariant
  OBVIOUS
<1>1. StorerInvariant
  BY InitHolds
<1>2. Waits
  BY EmptySeq DEF Init, Waits
<1>3. \A r \in Replicas : Settled(sub[r], replicaWm[r])
  <2>1. Settled(NoSubscriber, Start)
    BY RisingEmpty, WatermarkType DEF Settled, NoSubscriber
  <2> QED
    BY <2>1 DEF Init
<1>4. Reaches
  <2>1. Start \in Nat /\ 0 <= Start /\ Start <= Start /\ 0 \in 0 .. Start
    BY WatermarkType
  <2> QED
    BY <2>1 DEF Init, Reaches, NoSubscriber
<1> QED
  BY <1>1, <1>2, <1>3, <1>4 DEF CatchupInvariant

LEMMA StepCaught == CatchupInvariant /\ [Next]_vars => CatchupInvariant'
<1> SUFFICES ASSUME CatchupInvariant, [Next]_vars
             PROVE  CatchupInvariant'
  OBVIOUS
<1>1. StorerInvariant /\ StorerInvariant' /\ Caught
  BY StepHolds DEF CatchupInvariant, Caught
<1>2. TypeOK /\ LogIsContiguous /\ Loop /\ TypeOK' /\ LogIsContiguous'
  BY <1>1 DEF StorerInvariant
<1>3. ASSUME UNCHANGED vars
      PROVE  Caught'
  BY <1>1, <1>3 DEF vars, dbVars, storerVars, replicaVars, Caught, Waits, Reaches
<1>4. ASSUME Next
      PROVE  Caught'
  BY <1>1, <1>2, <1>4, CaughtLoop, CaughtStorer, CaughtCatchup, CaughtReplica, CaughtRest DEF Next
<1>5. Caught'
  BY <1>3, <1>4
<1> QED
  BY <1>1, <1>5 DEF CatchupInvariant, Caught

\* The Storer's queue, its catchupQueue and the subscribers agree on who
\* waits, no replica falls behind its backup, and the change DB reaches back
\* to the backup: CatchupInvariant is inductive.
THEOREM CatchupTheorem == Spec => []CatchupInvariant
<1>1. Init => CatchupInvariant
  BY InitCaught
<1>2. CatchupInvariant /\ [Next]_vars => CatchupInvariant'
  BY StepCaught
<1> QED
  BY <1>1, <1>2, PTL DEF Spec

\* The change DB never loses what the backup replica needs to resume, so that
\* Storer.#catchup never requires a reset for it: not while a purge runs
\* (purgePGChangeLog), nor after the Storer fails, the process is replaced or
\* the replica is restored.
THEOREM BackupTheorem == Spec => []BackupNeverReset
<1>1. CatchupInvariant => BackupNeverReset
  BY DEF CatchupInvariant, Reaches, BackupNeverReset
<1> QED
  BY <1>1, CatchupTheorem, PTL

=============================================================================
