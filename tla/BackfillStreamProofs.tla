------------------------ MODULE BackfillStreamProofs ------------------------
(***************************************************************************)
(* That the change stream is shared safely, for any schema, any number of  *)
(* routines and any mix of faults: the reservation has one holder at most; *)
(* watermarks advance, and a backfill completes in order; no rows are      *)
(* pushed from before a key's change, nor for what is no longer required.  *)
(*                                                                         *)
(* A producer holds the reservation between the reserve that finds it      *)
(* free, or the release that hands it on, and its own release or failure;  *)
(* cancelled routines are no exception.  What it is handed with it is the  *)
(* watermark of the stream's last commit, which is what lets a backfill    *)
(* place its transaction before the next replicated one.                   *)
(***************************************************************************)
EXTENDS BackfillStream, SequenceTheorems, TLAPS

-----------------------------------------------------------------------------
(* The inductive invariant, over the loop that reads the replication stream, *)
(* the multiplexer's fields and the routines.                                *)

Producers == {"main"} \cup Routines

States == {"off", "opening", "streaming", "reaching", "flush", "waiting", "granted", "ending"}

\* A routine; a transaction is open only while it has rows to push or to commit.
Job ==
    {x \in [state : States, table : Tables \cup {"none"}, columns : SUBSET AllColumns,
            canceled : BOOLEAN, minWatermark : Nat, watermark : Nat,
            msg : {"none", "backfill", "backfill-completed"},
            granted : Nat, tx : Nat, rows : Nat] :
        x.state \in {"off", "opening", "waiting", "granted"} => x.tx = Null}

Holding(x) == x.state = "granted" \/ x.tx # Null
MainHolds(mn) == mn \in {"granted", "tx", "held"}

WaitsIn(p, mn, rts) == IF p = "main" THEN mn = "waiting" ELSE rts[p].state = "waiting"

\* Whoever waits does so once, and knows it.
Queued(mn, ws, rts) ==
    /\ ws \in Seq(Producers)
    /\ \A k \in 1..Len(ws) : WaitsIn(ws[k], mn, rts)
    /\ \A j, k \in 1..Len(ws) : ws[j] = ws[k] => j = k

NobodyHolds(mn, rts) == ~MainHolds(mn) /\ \A i \in Routines : ~Holding(rts[i])

OneHolds(mn, rts) ==
    /\ \A i \in Routines : Holding(rts[i]) => ~MainHolds(mn)
    /\ \A i, j \in Routines : Holding(rts[i]) /\ Holding(rts[j]) => i = j

Lock(mn, lw, ws, rts) ==
    /\ rts \in [Routines -> Job]
    /\ lw \in Nat
    /\ Queued(mn, ws, rts)
    /\ lw # Null => ws = << >> /\ NobodyHolds(mn, rts)
    /\ OneHolds(mn, rts)

Context ==
    /\ pos \in Nat /\ published \in Nat
    /\ required \in [Tables -> SUBSET AllColumns]
    /\ running \in {"none"} \cup Routines

Locked == Lock(main, lastWatermark, waiters, routine)

StreamInvariant == Locked /\ Context

-----------------------------------------------------------------------------
(* Facts about reservations. *)

LEMMA PositionType ==
    ASSUME NEW n \in Nat
    PROVE  At(n) \in Nat
BY BoundsAssumption DEF At

\* The invariant says that the reservation is exclusive.
LEMMA LockedExclusive ==
    ASSUME Locked
    PROVE  Exclusive
<1>1. \A p \in Holders : p \in Routines \/ p = "main"
  BY DEF Holders
<1>2. \A p \in Holders : IF p = "main" THEN MainHolds(main) ELSE Holding(routine[p])
  BY DEF Holders, MainHolds, Holding
<1>3. \A p, q \in Holders : p = q
  BY <1>1, <1>2 DEF Locked, Lock, OneHolds
<1>4. lastWatermark # Null => Holders = {}
  BY <1>1, <1>2 DEF Locked, Lock, NobodyHolds
<1> QED
  BY <1>3, <1>4 DEF Exclusive

\* A routine goes on that neither waits nor begins to, nor takes the stream.
LEMMA RoutineMoves ==
    ASSUME NEW mn, NEW lw, NEW ws, NEW rts, Lock(mn, lw, ws, rts),
           NEW i \in Routines, NEW x \in Job, rts[i].state # "waiting",
           Holding(x) => Holding(rts[i])
    PROVE  LET new == [rts EXCEPT ![i] = x]
           IN  /\ Lock(mn, lw, ws, new)
               /\ Holding(rts[i]) /\ ~Holding(x) => NobodyHolds(mn, new)
<1> DEFINE new == [rts EXCEPT ![i] = x]
<1>1. rts \in [Routines -> Job] /\ new \in [Routines -> Job]
  BY DEF Lock
<1>2. new[i] = x /\ \A j \in Routines \ {i} : new[j] = rts[j]
  BY <1>1
<1>3. \A j \in Routines : Holding(new[j]) => Holding(rts[j])
  BY <1>2
<1> HIDE DEF new
<1>4. Queued(mn, ws, new)
  <2>1. ASSUME NEW k \in 1..Len(ws)
        PROVE  WaitsIn(ws[k], mn, new)
    <3>1. ws[k] \in Producers /\ WaitsIn(ws[k], mn, rts)
      BY ElementOfSeq DEF Lock, Queued
    <3>2. ws[k] # i
      BY <3>1, RoutinesAssumption DEF WaitsIn
    <3> QED
      BY <1>2, <3>1, <3>2 DEF WaitsIn, Producers
  <2> QED
    BY <2>1 DEF Lock, Queued
<1>5. OneHolds(mn, new)
  BY <1>3 DEF Lock, OneHolds
<1>6. lw # Null => ws = << >> /\ NobodyHolds(mn, new)
  BY <1>3 DEF Lock, NobodyHolds
<1>7. Holding(rts[i]) /\ ~Holding(x) => NobodyHolds(mn, new)
  BY <1>2, <1>3 DEF Lock, OneHolds, NobodyHolds
<1> QED
  BY <1>1, <1>4, <1>5, <1>6, <1>7 DEF Lock, new

\* Routines change in what has nothing to do with the reservation.
LEMMA SameReservation ==
    ASSUME NEW mn, NEW lw, NEW ws, NEW rts, Lock(mn, lw, ws, rts),
           NEW new \in [Routines -> Job],
           \A i \in Routines : new[i].state = rts[i].state /\ new[i].tx = rts[i].tx
    PROVE  Lock(mn, lw, ws, new)
<1>1. \A i \in Routines : Holding(new[i]) <=> Holding(rts[i])
  BY DEF Holding
<1>2. Queued(mn, ws, new)
  <2>1. ASSUME NEW k \in 1..Len(ws)
        PROVE  WaitsIn(ws[k], mn, new)
    <3>1. ws[k] \in Producers /\ WaitsIn(ws[k], mn, rts)
      BY ElementOfSeq DEF Lock, Queued
    <3> QED
      BY <3>1 DEF WaitsIn, Producers
  <2> QED
    BY <2>1 DEF Lock, Queued
<1> QED
  BY <1>1, <1>2 DEF Lock, OneHolds, NobodyHolds

\* A new backfill starts in a routine that was off.
LEMMA StartKeeps ==
    ASSUME NEW mn, NEW lw, NEW ws, NEW rts, Lock(mn, lw, ws, rts),
           NEW timer, NEW run \in {"none"} \cup Routines, NEW req \in [Tables -> SUBSET AllColumns],
           CheckAndStartBackfill(timer, run, req, rts)
    PROVE  Lock(mn, lw, ws, routine') /\ running' \in {"none"} \cup Routines
<1>1. CASE running' = run /\ routine' = rts
  BY <1>1
<1>2. CASE ~(running' = run /\ routine' = rts)
  <2> DEFINE i == CHOOSE i \in Free(rts) : TRUE
  <2>1. PICK t \in Tables : /\ Free(rts) # {} /\ running' = i
                            /\ routine' = [rts EXCEPT ![i] = NewRoutine(t, req[t])]
    BY <1>2 DEF CheckAndStartBackfill
  <2>2. i \in Routines /\ rts[i].state = "off"
    BY <2>1 DEF Free
  <2> HIDE DEF i
  <2>3. NewRoutine(t, req[t]) \in Job /\ ~Holding(NewRoutine(t, req[t]))
    BY DEF NewRoutine, Off, Job, Holding, States, Null
  <2> QED
    BY <2>1, <2>2, <2>3, RoutineMoves
<1> QED
  BY <1>1, <1>2

\* The stream is handed to the producer that has waited longest.
LEMMA ReleaseKeeps ==
    ASSUME NEW mn, NEW rts, Lock(mn, Null, waiters, rts), NobodyHolds(mn, rts),
           NEW w \in Nat, Release(w)
    PROVE  Lock(IF Waiting /\ Head(waiters) = "main" THEN "granted" ELSE mn,
                lastWatermark', waiters', Granted(rts, w))
<1> DEFINE h == Head(waiters)
           rest == Tail(waiters)
<1>1. rts \in [Routines -> Job] /\ waiters \in Seq(Producers) /\ Len(waiters) \in Nat
  BY LenProperties DEF Lock, Queued
<1>2. CASE ~Waiting
  <2>1. lastWatermark' = w /\ waiters' = waiters /\ waiters = << >> /\ Granted(rts, w) = rts
    BY <1>2 DEF Release, Granted, Waiting
  <2> QED
    BY <1>2, <2>1 DEF Lock
<1>3. CASE Waiting
  <2>1. /\ lastWatermark' = Null /\ waiters' = rest /\ h \in Producers /\ rest \in Seq(Producers)
        /\ Len(rest) = Len(waiters) - 1 /\ \A k \in 1..Len(rest) : rest[k] = waiters[k + 1]
        /\ h = waiters[1] /\ 1 \in 1..Len(waiters) /\ Len(rest) \in Nat
    BY <1>1, <1>3, HeadTailProperties, EmptySeq, LenProperties DEF Release, Waiting
  <2>2. /\ WaitsIn(h, mn, rts)
        /\ \A k \in 1..Len(rest) : rest[k] \in Producers /\ WaitsIn(rest[k], mn, rts) /\ rest[k] # h
        /\ \A j, k \in 1..Len(rest) : rest[j] = rest[k] => j = k
    <3>1. \A k \in 1..Len(rest) : k + 1 \in 1..Len(waiters) /\ k + 1 # 1
      BY <1>1, <2>1
    <3>2. /\ \A k \in 1..Len(waiters) : WaitsIn(waiters[k], mn, rts)
          /\ \A j, k \in 1..Len(waiters) : waiters[j] = waiters[k] => j = k
      BY DEF Lock, Queued
    <3>3. \A k \in 1..Len(rest) : rest[k] \in Producers
      BY <2>1, ElementOfSeq
    <3>4. \A j, k \in 1..Len(rest) : rest[j] = rest[k] => j = k
      <4>1. \A j, k \in 1..Len(rest) : j + 1 = k + 1 => j = k
        OBVIOUS
      <4> QED
        BY <2>1, <3>1, <3>2, <4>1
    <3> QED
      BY <2>1, <3>1, <3>2, <3>3, <3>4
  <2> HIDE DEF rest
  <2>3. CASE h = "main"
    <3>1. Granted(rts, w) = rts /\ mn = "waiting"
      BY <2>2, <2>3 DEF Granted, WaitsIn
    <3>2. Queued("granted", rest, rts)
      BY <2>1, <2>2, <2>3 DEF Queued, WaitsIn
    <3>3. OneHolds("granted", rts)
      BY DEF NobodyHolds, OneHolds
    <3> QED
      BY <1>1, <1>3, <2>1, <2>3, <3>1, <3>2, <3>3 DEF Lock, Null
  <2>4. CASE h # "main"
    <3> DEFINE x == [rts[h] EXCEPT !.state = "granted", !.granted = w]
               new == [rts EXCEPT ![h] = x]
    <3>1. h \in Routines /\ rts[h].state = "waiting"
      BY <2>1, <2>2, <2>4 DEF Producers, WaitsIn
    <3>2. Granted(rts, w) = new
      BY <1>3, <2>4 DEF Granted
    <3>3. x \in Job
      <4>1. rts[h] \in Job /\ rts[h].tx = Null
        BY <1>1, <3>1 DEF Job
      <4>2. "granted" \in States
        BY DEF States
      <4> QED
        BY <4>1, <4>2 DEF Job
    <3> HIDE DEF x
    <3>4. new \in [Routines -> Job] /\ \A j \in Routines \ {h} : new[j] = rts[j]
      BY <1>1, <3>3
    <3> HIDE DEF new
    <3>5. Queued(mn, rest, new)
      BY <2>1, <2>2, <3>4 DEF Queued, WaitsIn, Producers
    <3>6. OneHolds(mn, new)
      BY <3>4 DEF NobodyHolds, OneHolds
    <3> QED
      BY <1>3, <2>1, <2>4, <3>2, <3>4, <3>5, <3>6 DEF Lock, Null
  <2> QED
    BY <2>3, <2>4
<1> QED
  BY <1>2, <1>3

\* A transaction is committed, if there is one and it has to be, and the next
\* backfill may start.
LEMMA CommitKeeps ==
    ASSUME StreamInvariant, NEW i \in Routines, NEW x \in Job, NEW condition,
           routine[i].state # "waiting", x.state # "waiting",
           Holding(x) => Holding(routine[i]),
           x.state # "granted",
           CommitTxIf(condition, i, x), pos' = pos, required' = required
    PROVE  StreamInvariant'
<1>1. routine[i] \in Job /\ routine[i].tx \in Nat
  BY DEF StreamInvariant, Locked, Lock, Job
<1>2. CASE condition /\ routine[i].tx # Null
  <2> DEFINE y == [x EXCEPT !.tx = Null]
             new == [routine EXCEPT ![i] = y]
             tx == routine[i].tx
  <2>1. /\ published' = tx
        /\ CheckAndStartBackfill(retryTimer, running, required, Granted(new, tx))
        /\ Release(tx)
        /\ main' = MainGranted
    BY <1>2 DEF CommitTxIf
  <2>2. y \in Job /\ ~Holding(y) /\ y.state # "waiting" /\ Holding(routine[i])
    BY <1>2 DEF Job, Holding, Null
  <2> HIDE DEF y
  <2>3. Lock(main, lastWatermark, waiters, new) /\ NobodyHolds(main, new)
    BY <2>2, RoutineMoves DEF StreamInvariant, Locked
  <2>4. lastWatermark = Null
    BY <2>2 DEF StreamInvariant, Locked, Lock, NobodyHolds
  <2> HIDE DEF new
  <2>5. Lock(main, Null, waiters, new)
    BY <2>3, <2>4
  <2>6. Lock(main', lastWatermark', waiters', Granted(new, tx))
    BY <1>1, <2>1, <2>3, <2>5, ReleaseKeeps DEF MainGranted
  <2>7. Lock(main', lastWatermark', waiters', routine') /\ running' \in {"none"} \cup Routines
    BY <2>1, <2>6, StartKeeps DEF StreamInvariant, Context
  <2> QED
    BY <1>1, <2>1, <2>7 DEF StreamInvariant, Locked, Context
<1>3. CASE ~(condition /\ routine[i].tx # Null)
  <2>1. /\ routine' = [routine EXCEPT ![i] = x] /\ main' = main /\ lastWatermark' = lastWatermark
        /\ waiters' = waiters /\ running' = running /\ published' = published
    BY <1>3 DEF CommitTxIf, streamVars, muxVars
  <2>2. Lock(main, lastWatermark, waiters, [routine EXCEPT ![i] = x])
    BY RoutineMoves DEF StreamInvariant, Locked
  <2> QED
    BY <2>1, <2>2 DEF StreamInvariant, Locked, Context
<1> QED
  BY <1>2, <1>3

\* A routine moves, and nothing else does.
LEMMA MoveKeeps ==
    ASSUME StreamInvariant, NEW i \in Routines, NEW x \in Job,
           routine[i].state # "waiting", Holding(x) => Holding(routine[i]),
           routine' = [routine EXCEPT ![i] = x],
           main' = main, lastWatermark' = lastWatermark, waiters' = waiters,
           pos' = pos, published' = published,
           required' \in [Tables -> SUBSET AllColumns], running' \in {"none"} \cup Routines
    PROVE  StreamInvariant'
<1>1. Lock(main, lastWatermark, waiters, [routine EXCEPT ![i] = x])
  BY RoutineMoves DEF StreamInvariant, Locked
<1> QED
  BY <1>1 DEF StreamInvariant, Locked, Context

\* The loop of the replication stream moves, and neither waits nor takes over.
LEMMA MainMoves ==
    ASSUME NEW mn, NEW new, NEW lw, NEW ws, NEW rts, Lock(mn, lw, ws, rts),
           mn # "waiting", MainHolds(new) => MainHolds(mn)
    PROVE  /\ Lock(new, lw, ws, rts)
           /\ MainHolds(mn) /\ ~MainHolds(new) => lw = Null /\ NobodyHolds(new, rts)
<1>1. \A k \in 1..Len(ws) : ws[k] \in Producers /\ WaitsIn(ws[k], new, rts)
  BY ElementOfSeq DEF Lock, Queued, WaitsIn
<1>2. Queued(new, ws, rts)
  BY <1>1 DEF Lock, Queued
<1>3. Lock(new, lw, ws, rts)
  BY <1>2 DEF Lock, OneHolds, NobodyHolds
<1>4. MainHolds(mn) /\ ~MainHolds(new) => lw = Null /\ NobodyHolds(new, rts)
  BY DEF Lock, OneHolds, NobodyHolds
<1> QED
  BY <1>3, <1>4

-----------------------------------------------------------------------------
(* The steps of the replication stream. *)

\* The replication stream gives up its reservation.
LEMMA MainReleaseKeeps ==
    ASSUME StreamInvariant, main = "held", main' = "idle",
           Release(published), routine' = Granted(routine, published)
    PROVE  Locked'
<1>1. Lock("idle", lastWatermark, waiters, routine) /\ lastWatermark = Null
      /\ NobodyHolds("idle", routine)
  BY MainMoves DEF StreamInvariant, Locked, MainHolds
<1>2. ~(Waiting /\ Head(waiters) = "main")
  <2>1. SUFFICES ASSUME Waiting, Head(waiters) = "main"
                 PROVE  FALSE
    OBVIOUS
  <2>2. waiters \in Seq(Producers) /\ Len(waiters) \in Nat \ {0} /\ Head(waiters) = waiters[1]
    BY <2>1, EmptySeq DEF StreamInvariant, Locked, Lock, Queued, Waiting
  <2>3. WaitsIn(waiters[1], main, routine)
    BY <2>2 DEF StreamInvariant, Locked, Lock, Queued
  <2> QED
    BY <2>1, <2>2, <2>3 DEF WaitsIn
<1>3. published \in Nat
  BY DEF StreamInvariant, Context
<1>4. Lock("idle", lastWatermark', waiters', Granted(routine, published))
  <2>1. Lock("idle", Null, waiters, routine)
    BY <1>1
  <2> QED
    BY <1>1, <1>2, <1>3, <2>1, ReleaseKeeps
<1> QED
  BY <1>4 DEF Locked

LEMMA ReplicationSteps ==
    ASSUME StreamInvariant, ReplicationStep
    PROVE  StreamInvariant'
<1>1. pos \in Nat /\ published \in Nat /\ pos + 1 \in Nat
  BY DEF StreamInvariant, Context
<1>2. CASE MainKeepalive
  <2>1. pos' = pos + 1 /\ required' = required /\ running' = running /\ published' = published
    BY <1>2 DEF MainKeepalive, streamVars
  <2>2. Locked'
    <3>1. CASE main = "held"
      BY <1>2, <3>1, MainReleaseKeeps DEF MainKeepalive
    <3>2. CASE main # "held"
      BY <1>2, <3>2 DEF MainKeepalive, muxVars, StreamInvariant, Locked
    <3> QED
      BY <3>1, <3>2
  <2> QED
    BY <1>1, <2>1, <2>2 DEF StreamInvariant, Context
<1>3. CASE MainReserve
  <2>1. /\ main = "idle" /\ pos' = pos /\ required' = required /\ running' = running
        /\ published' = published /\ routine' = routine
    BY <1>3 DEF MainReserve, managerVars, streamVars
  <2>2. CASE Reservable
    <3>1. main' = "granted" /\ lastWatermark' = Null /\ waiters' = waiters
      BY <1>3, <2>2 DEF MainReserve
    <3>2. waiters = << >> /\ NobodyHolds(main, routine)
      BY <2>2 DEF Reservable, StreamInvariant, Locked, Lock
    <3> QED
      BY <2>1, <3>1, <3>2, EmptySeq
      DEF StreamInvariant, Locked, Lock, Queued, OneHolds, NobodyHolds, Context, Null
  <2>3. CASE ~Reservable
    <3>1. main' = "waiting" /\ waiters' = Append(waiters, "main") /\ lastWatermark' = lastWatermark
      BY <1>3, <2>3 DEF MainReserve
    <3>2. waiters \in Seq(Producers) /\ "main" \in Producers /\ Len(waiters) \in Nat
      BY LenProperties DEF StreamInvariant, Locked, Lock, Queued, Producers
    <3>3. /\ waiters' \in Seq(Producers) /\ Len(waiters') = Len(waiters) + 1
          /\ \A k \in 1..Len(waiters) : waiters'[k] = waiters[k]
          /\ waiters'[Len(waiters) + 1] = "main"
      BY <3>1, <3>2, AppendProperties
    <3>4. \A k \in 1..Len(waiters) : waiters[k] # "main" /\ WaitsIn(waiters[k], main', routine)
      BY <2>1 DEF StreamInvariant, Locked, Lock, Queued, WaitsIn
    <3>5. Queued(main', waiters', routine)
      <4>1. \A k \in 1..Len(waiters') : WaitsIn(waiters'[k], main', routine)
        BY <3>1, <3>2, <3>3, <3>4 DEF WaitsIn
      <4>2. \A j, k \in 1..Len(waiters') : waiters'[j] = waiters'[k] => j = k
        BY <3>2, <3>3, <3>4 DEF StreamInvariant, Locked, Lock, Queued
      <4> QED
        BY <3>3, <4>1, <4>2 DEF Queued
    <3>6. Lock(main', lastWatermark', waiters', routine)
      BY <2>1, <2>3, <3>1, <3>5 DEF Reservable, StreamInvariant, Locked, Lock, OneHolds, MainHolds
    <3> QED
      BY <2>1, <3>6 DEF StreamInvariant, Locked, Context
  <2> QED
    BY <2>2, <2>3
<1>4. CASE MainBegin
  <2>1. /\ main \in {"granted", "held"} /\ main' = "tx" /\ pos' = pos + 1 /\ required' = required
        /\ running' = running /\ published' = published /\ routine' = routine
        /\ lastWatermark' = lastWatermark /\ waiters' = waiters
    BY <1>4 DEF MainBegin, managerVars, muxVars
  <2>2. Lock("tx", lastWatermark, waiters, routine)
    BY <2>1, MainMoves DEF StreamInvariant, Locked, MainHolds
  <2> QED
    BY <1>1, <2>1, <2>2 DEF StreamInvariant, Locked, Context
<1>5. CASE MainKeepaliveInTx
  BY <1>5 DEF MainKeepaliveInTx, mainVars, muxVars, streamVars, StreamInvariant, Locked, Context
<1>6. CASE MainCommit
  <2>1. /\ main = "tx" /\ main' = "held" /\ pos' = pos /\ required' = required
        /\ published' = At(pos) /\ lastWatermark' = lastWatermark /\ waiters' = waiters
        /\ CheckAndStartBackfill(retryTimer, running, required, routine)
    BY <1>6 DEF MainCommit, muxVars
  <2>2. Lock("held", lastWatermark, waiters, routine)
    BY <2>1, MainMoves DEF StreamInvariant, Locked, MainHolds
  <2>3. Lock("held", lastWatermark, waiters, routine') /\ running' \in {"none"} \cup Routines
    BY <2>1, <2>2, StartKeeps DEF StreamInvariant, Context
  <2>4. At(pos) \in Nat
    BY <1>1, PositionType
  <2> QED
    BY <2>1, <2>3, <2>4 DEF StreamInvariant, Locked, Context
<1>7. CASE MainRelease
  <2>1. pos' = pos /\ required' = required /\ running' = running /\ published' = published
    BY <1>7 DEF MainRelease, managerVars, streamVars
  <2>2. Locked'
    BY <1>7, MainReleaseKeeps DEF MainRelease
  <2> QED
    BY <2>1, <2>2 DEF StreamInvariant, Context
<1> QED
  BY <1>2, <1>3, <1>4, <1>5, <1>6, <1>7 DEF ReplicationStep

-----------------------------------------------------------------------------
(* Changes of the schema and of keys. *)

\* A routine that is told to stop, or that its snapshot is too old, goes on all
\* the same until it looks.
LEMMA ToldKeeps ==
    ASSUME StreamInvariant
    PROVE  /\ Lock(main, lastWatermark, waiters, Stopped)
           /\ running \in Routines =>
                 Lock(main, lastWatermark, waiters, [routine EXCEPT ![running].minWatermark = At(pos)])
<1>1. routine \in [Routines -> Job] /\ running \in {"none"} \cup Routines /\ At(pos) \in Nat
  BY PositionType DEF StreamInvariant, Locked, Lock, Context
<1>2. CASE running = "none"
  BY <1>2, RoutinesAssumption DEF Stopped, StreamInvariant, Locked
<1>3. CASE running \in Routines
  <2> DEFINE x == [routine[running] EXCEPT !.canceled = TRUE]
             y == [routine[running] EXCEPT !.minWatermark = At(pos)]
  <2>1. x \in Job /\ x.state = routine[running].state /\ x.tx = routine[running].tx
    BY <1>1, <1>3 DEF Job
  <2>2. y \in Job /\ y.state = routine[running].state /\ y.tx = routine[running].tx
    BY <1>1, <1>3 DEF Job
  <2>3. Stopped = [routine EXCEPT ![running] = x]
    BY <1>3, RoutinesAssumption DEF Stopped
  <2>4. [routine EXCEPT ![running].minWatermark = At(pos)] = [routine EXCEPT ![running] = y]
    OBVIOUS
  <2> HIDE DEF x, y
  <2>5. Lock(main, lastWatermark, waiters, [routine EXCEPT ![running] = x])
    <3> DEFINE new == [routine EXCEPT ![running] = x]
    <3>1. new \in [Routines -> Job]
          /\ \A i \in Routines : new[i].state = routine[i].state /\ new[i].tx = routine[i].tx
      BY <1>1, <1>3, <2>1
    <3> HIDE DEF new
    <3>2. Lock(main, lastWatermark, waiters, new)
      BY <3>1, SameReservation DEF StreamInvariant, Locked
    <3> QED
      BY <3>2 DEF new
  <2>6. Lock(main, lastWatermark, waiters, [routine EXCEPT ![running] = y])
    <3> DEFINE new == [routine EXCEPT ![running] = y]
    <3>1. new \in [Routines -> Job]
          /\ \A i \in Routines : new[i].state = routine[i].state /\ new[i].tx = routine[i].tx
      BY <1>1, <1>3, <2>2
    <3> HIDE DEF new
    <3>2. Lock(main, lastWatermark, waiters, new)
      BY <3>1, SameReservation DEF StreamInvariant, Locked
    <3> QED
      BY <3>2 DEF new
  <2> QED
    BY <2>3, <2>4, <2>5, <2>6
<1> QED
  BY <1>1, <1>2, <1>3

\* A change as the others see it.
Changed ==
    /\ main' = main /\ lastWatermark' = lastWatermark /\ waiters' = waiters
    /\ pos' = pos /\ published' = published
    /\ required' \in [Tables -> SUBSET AllColumns]

LEMMA ChangeKeeps ==
    ASSUME StreamInvariant, Changed,
           \/ \E condition : StopIf(condition)
           \/ running' = running /\ routine' = routine
           \/ /\ running' = running /\ running \in Routines
              /\ routine' = [routine EXCEPT ![running].minWatermark = At(pos)]
    PROVE  StreamInvariant'
<1>1. \/ routine' = Stopped /\ running' = "none"
      \/ routine' = routine /\ running' = running
      \/ /\ running' = running /\ running \in Routines
         /\ routine' = [routine EXCEPT ![running].minWatermark = At(pos)]
  BY DEF StopIf
<1>2. Lock(main, lastWatermark, waiters, routine') /\ running' \in {"none"} \cup Routines
  BY <1>1, ToldKeeps DEF StreamInvariant, Locked, Context
<1> QED
  BY <1>2 DEF Changed, StreamInvariant, Locked, Context

LEMMA ChangeSteps ==
    ASSUME StreamInvariant, ChangeStep
    PROVE  StreamInvariant'
<1>1. PICK t \in Tables :
         \/ CreateTable(t) \/ DropTable(t) \/ \E u \in Tables : RenameTable(t, u)
         \/ UpdateTableMetadata(t) \/ UpdateKey(t)
         \/ \E c \in Columns :
               \/ AddColumn(t, c) \/ DropColumn(t, c) \/ \E d \in Columns : RenameColumn(t, c, d)
  BY DEF ChangeStep
<1>2. required \in [Tables -> SUBSET AllColumns] /\ Columns \subseteq AllColumns
  BY DEF StreamInvariant, Context, AllColumns
<1>3. Changing => /\ main' = main /\ lastWatermark' = lastWatermark /\ waiters' = waiters
                  /\ pos' = pos /\ published' = published
  BY DEF Changing, mainVars, muxVars, streamVars
<1>4. CASE CreateTable(t)
  <2>1. Changed /\ running' = running /\ routine' = routine
    BY <1>2, <1>3, <1>4 DEF CreateTable, Changed
  <2> QED
    BY <2>1, ChangeKeeps
<1>5. CASE DropTable(t)
  <2>1. Changed /\ \E condition : StopIf(condition)
    BY <1>2, <1>3, <1>5 DEF DropTable, Changed
  <2> QED
    BY <2>1, ChangeKeeps
<1>6. CASE \E u \in Tables : RenameTable(t, u)
  <2>1. PICK u \in Tables : RenameTable(t, u)
    BY <1>6
  <2>2. required' = [required EXCEPT ![t] = {}, ![u] = required[t]]
        /\ Changing /\ \E condition : StopIf(condition)
    BY <2>1 DEF RenameTable
  <2>3. Changed
    BY <1>2, <1>3, <2>2 DEF Changed
  <2> QED
    BY <2>2, <2>3, ChangeKeeps
<1>7. CASE UpdateTableMetadata(t)
  <2>1. Changed /\ \E condition : StopIf(condition)
    BY <1>2, <1>3, <1>7 DEF UpdateTableMetadata, Changed
  <2> QED
    BY <2>1, ChangeKeeps
<1>8. CASE UpdateKey(t)
  <2>1. Changed
    BY <1>2, <1>3, <1>8 DEF UpdateKey, Changed
  <2>2. \/ running' = running /\ routine' = routine
        \/ /\ running' = running /\ running \in Routines
           /\ routine' = [routine EXCEPT ![running].minWatermark = At(pos)]
    BY <1>8 DEF UpdateKey, RunningFor, StreamInvariant, Context
  <2> QED
    BY <2>1, <2>2, ChangeKeeps
<1>9. CASE \E c \in Columns :
              \/ AddColumn(t, c) \/ DropColumn(t, c) \/ \E d \in Columns : RenameColumn(t, c, d)
  <2>1. PICK c \in Columns :
           \/ AddColumn(t, c) \/ DropColumn(t, c) \/ \E d \in Columns : RenameColumn(t, c, d)
    BY <1>9
  <2>2. CASE AddColumn(t, c)
    <3>1. Changed /\ running' = running /\ routine' = routine
      BY <1>2, <1>3, <2>2 DEF AddColumn, Changed
    <3> QED
      BY <3>1, ChangeKeeps
  <2>3. CASE DropColumn(t, c)
    <3>1. Changed /\ \E condition : StopIf(condition)
      BY <1>2, <1>3, <2>3 DEF DropColumn, Changed
    <3> QED
      BY <3>1, ChangeKeeps
  <2>4. CASE \E d \in Columns : RenameColumn(t, c, d)
    <3>1. Changed /\ \E condition : StopIf(condition)
      BY <1>2, <1>3, <2>4 DEF RenameColumn, Changed
    <3> QED
      BY <3>1, ChangeKeeps
  <2> QED
    BY <2>1, <2>2, <2>3, <2>4
<1> QED
  BY <1>1, <1>4, <1>5, <1>6, <1>7, <1>8, <1>9

-----------------------------------------------------------------------------
(* The steps of backfills. *)

LEMMA OpenKeeps ==
    ASSUME StreamInvariant, NEW i \in Routines, Open(i)
    PROVE  StreamInvariant'
<1>1. PICK lsn \in pos .. MaxLSN :
         routine' = [routine EXCEPT ![i].state = "streaming", ![i].watermark = At(lsn)]
  BY DEF Open
<1>2. lsn \in Nat /\ At(lsn) \in Nat /\ routine[i] \in Job /\ routine[i].state = "opening"
  BY PositionType, BoundsAssumption DEF Open, StreamInvariant, Locked, Lock, Context
<1> DEFINE x == [routine[i] EXCEPT !.state = "streaming", !.watermark = At(lsn)]
<1>3. x \in Job /\ (Holding(x) => Holding(routine[i]))
  BY <1>2 DEF Job, States, Holding
<1>4. routine' = [routine EXCEPT ![i] = x]
  BY <1>1
<1> HIDE DEF x
<1>5. /\ main' = main /\ lastWatermark' = lastWatermark /\ waiters' = waiters /\ pos' = pos
      /\ published' = published /\ required' = required /\ running' = running
  BY DEF Open, mainVars, muxVars, managerVars, streamVars
<1> QED
  BY <1>2, <1>3, <1>4, <1>5, MoveKeeps DEF StreamInvariant, Context

\* The steps at which a transaction may have to be committed.
LEMMA CommitSteps ==
    ASSUME StreamInvariant, NEW i \in Routines, NextRows(i) \/ NextCompleted(i) \/ EndBackfill(i)
    PROVE  StreamInvariant'
<1>1. routine[i] \in Job /\ routine[i].state # "waiting"
  BY DEF NextRows, NextCompleted, EndBackfill, StreamInvariant, Locked, Lock
<1>2. CASE NextRows(i)
  <2> DEFINE x == [routine[i] EXCEPT !.state = "flush", !.msg = "backfill", !.rows = @ + 1]
  <2>1. x \in Job /\ x.state = "flush" /\ (Holding(x) => Holding(routine[i]))
    <3> DEFINE n == routine[i].rows + 1
    <3>1. n \in Nat
      BY <1>1 DEF Job
    <3>2. x = [routine[i] EXCEPT !.state = "flush", !.msg = "backfill", !.rows = n]
      OBVIOUS
    <3> HIDE DEF n, x
    <3> QED
      BY <1>1, <3>1, <3>2 DEF Job, States, Holding
  <2>2. CommitTxIf(Waiting, i, x) /\ pos' = pos /\ required' = required
    BY <1>2 DEF NextRows
  <2> HIDE DEF x
  <2> QED
    BY <1>1, <2>1, <2>2, CommitKeeps
<1>3. CASE NextCompleted(i)
  <2> DEFINE x(reached) == [routine[i] EXCEPT !.state = IF reached THEN "flush" ELSE "reaching",
                                              !.msg = "backfill-completed"]
             reached == ChangeStreamReached(i)
             mustWait == ~reached \/ routine[i].tx < routine[i].watermark
  <2>1. /\ x(reached) \in Job /\ x(reached).state \in {"flush", "reaching"}
        /\ (Holding(x(reached)) => Holding(routine[i]))
    BY <1>1, <1>3 DEF Job, States, Holding
  <2>2. CommitTxIf(Waiting \/ mustWait, i, x(reached)) /\ pos' = pos /\ required' = required
    BY <1>3 DEF NextCompleted
  <2> HIDE DEF x, reached, mustWait
  <2> QED
    BY <1>1, <2>1, <2>2, CommitKeeps
<1>4. CASE EndBackfill(i)
  <2>1. Off \in Job /\ Off.state = "off" /\ ~Holding(Off)
    BY DEF Off, Job, States, Holding, Null
  <2>2. CommitTxIf(TRUE, i, Off) /\ pos' = pos /\ required' = required
    BY <1>4 DEF EndBackfill
  <2> QED
    BY <1>1, <2>1, <2>2, CommitKeeps
<1> QED
  BY <1>2, <1>3, <1>4

\* A routine asks for the reservation.
LEMMA ReserveKeeps ==
    ASSUME StreamInvariant, NEW i \in Routines, ReserveForTx(i)
    PROVE  StreamInvariant'
<1>1. /\ routine[i] \in Job /\ routine[i].state = "flush" /\ routine[i].tx = Null
      /\ routine \in [Routines -> Job] /\ lastWatermark \in Nat
  BY DEF ReserveForTx, StreamInvariant, Locked, Lock
<1>2. /\ main' = main /\ pos' = pos /\ published' = published /\ required' = required
      /\ running' = running
  BY DEF ReserveForTx, mainVars, managerVars, streamVars
<1>3. CASE Reservable
  <2> DEFINE x == [routine[i] EXCEPT !.state = "granted", !.granted = lastWatermark]
  <2>1. routine' = [routine EXCEPT ![i] = x] /\ lastWatermark' = Null /\ waiters' = waiters
    BY <1>3 DEF ReserveForTx
  <2>2. x \in Job
    BY <1>1 DEF Job, States
  <2>3. waiters = << >> /\ NobodyHolds(main, routine)
    BY <1>3 DEF Reservable, StreamInvariant, Locked, Lock
  <2> HIDE DEF x
  <2>4. routine' \in [Routines -> Job] /\ \A j \in Routines \ {i} : routine'[j] = routine[j]
    BY <1>1, <2>1, <2>2
  <2>5. OneHolds(main, routine')
    BY <2>3, <2>4 DEF OneHolds, NobodyHolds
  <2>6. Queued(main, waiters, routine')
    BY <2>3, EmptySeq DEF Queued
  <2> QED
    BY <1>2, <2>1, <2>4, <2>5, <2>6 DEF StreamInvariant, Locked, Lock, Context, Null
<1>4. CASE ~Reservable
  <2> DEFINE x == [routine[i] EXCEPT !.state = "waiting"]
  <2>1. routine' = [routine EXCEPT ![i] = x] /\ waiters' = Append(waiters, i)
        /\ lastWatermark' = lastWatermark /\ lastWatermark = Null
    BY <1>4 DEF ReserveForTx, Reservable
  <2>2. x \in Job /\ ~Holding(x) /\ x.state = "waiting"
    BY <1>1 DEF Job, States, Holding
  <2> HIDE DEF x
  <2>3. /\ routine' \in [Routines -> Job] /\ routine'[i] = x
        /\ \A j \in Routines \ {i} : routine'[j] = routine[j]
    BY <1>1, <2>1, <2>2
  <2>4. waiters \in Seq(Producers) /\ i \in Producers /\ Len(waiters) \in Nat
    BY LenProperties DEF StreamInvariant, Locked, Lock, Queued, Producers
  <2>5. /\ waiters' \in Seq(Producers) /\ Len(waiters') = Len(waiters) + 1
        /\ \A k \in 1..Len(waiters) : waiters'[k] = waiters[k]
        /\ waiters'[Len(waiters) + 1] = i
    BY <2>1, <2>4, AppendProperties
  <2>6. \A k \in 1..Len(waiters) : waiters[k] # i /\ WaitsIn(waiters[k], main, routine')
    <3>1. ASSUME NEW k \in 1..Len(waiters)
          PROVE  waiters[k] # i /\ WaitsIn(waiters[k], main, routine')
      <4>1. waiters[k] \in Producers /\ WaitsIn(waiters[k], main, routine)
        BY <2>4, ElementOfSeq DEF StreamInvariant, Locked, Lock, Queued
      <4>2. waiters[k] # i
        BY <1>1, <4>1, RoutinesAssumption DEF WaitsIn
      <4> QED
        BY <2>3, <4>1, <4>2 DEF WaitsIn, Producers
    <3> QED
      BY <3>1
  <2>7. Queued(main, waiters', routine')
    <3>1. WaitsIn(i, main, routine')
      BY <2>2, <2>3, RoutinesAssumption DEF WaitsIn
    <3>2. \A k \in 1..Len(waiters') : WaitsIn(waiters'[k], main, routine')
      BY <2>4, <2>5, <2>6, <3>1
    <3>3. \A j, k \in 1..Len(waiters') : waiters'[j] = waiters'[k] => j = k
      BY <2>4, <2>5, <2>6 DEF StreamInvariant, Locked, Lock, Queued
    <3> QED
      BY <2>5, <3>2, <3>3 DEF Queued
  <2>8. OneHolds(main, routine')
    BY <2>2, <2>3 DEF StreamInvariant, Locked, Lock, OneHolds
  <2> QED
    BY <1>2, <2>1, <2>3, <2>7, <2>8 DEF StreamInvariant, Locked, Lock, Context, Null
<1> QED
  BY <1>3, <1>4

\* With the reservation a transaction begins, or the backfill is given up.
LEMMA BeginKeeps ==
    ASSUME StreamInvariant, NEW i \in Routines, BeginTx(i)
    PROVE  StreamInvariant'
<1> DEFINE w == TxWatermark(routine[i])
           x == [routine[i] EXCEPT !.state = "flush", !.tx = w, !.granted = Null]
<1>1. routine[i] \in Job /\ routine[i].state = "granted"
  BY DEF BeginTx, StreamInvariant, Locked, Lock
<1>2. w \in Nat
  BY <1>1 DEF TxWatermark, Job
<1>3. routine' = [routine EXCEPT ![i] = x]
  BY DEF BeginTx
<1> HIDE DEF w
<1>4. x \in Job /\ Holding(routine[i])
  BY <1>1, <1>2 DEF Job, States, Holding, Null
<1> HIDE DEF x
<1>5. /\ main' = main /\ lastWatermark' = lastWatermark /\ waiters' = waiters /\ pos' = pos
      /\ published' = published /\ required' = required /\ running' = running
  BY DEF BeginTx, mainVars, muxVars, managerVars
<1> QED
  BY <1>1, <1>3, <1>4, <1>5, MoveKeeps DEF StreamInvariant, Context

LEMMA GiveUpKeeps ==
    ASSUME StreamInvariant, NEW i \in Routines, GiveUp(i)
    PROVE  StreamInvariant'
<1> DEFINE new == [routine EXCEPT ![i] = Off]
           w == routine[i].granted
<1>1. /\ Release(w) /\ main' = MainGranted /\ pos' = pos /\ published' = published
      /\ required' = required
      /\ CheckAndStartBackfill(retryTimer, RunningAfterStop(i), required, Granted(new, w))
  BY DEF GiveUp, streamVars
<1>2. routine[i] \in Job /\ routine[i].state = "granted" /\ w \in Nat /\ Holding(routine[i])
  BY DEF GiveUp, StreamInvariant, Locked, Lock, Job, Holding
<1>3. Off \in Job /\ ~Holding(Off)
  BY DEF Off, Job, States, Holding, Null
<1>4. Lock(main, lastWatermark, waiters, new) /\ NobodyHolds(main, new)
  BY <1>2, <1>3, RoutineMoves DEF StreamInvariant, Locked
<1>5. lastWatermark = Null
  BY <1>2 DEF StreamInvariant, Locked, Lock, NobodyHolds
<1> HIDE DEF new
<1>6. Lock(main, Null, waiters, new)
  BY <1>4, <1>5
<1>7. Lock(main', lastWatermark', waiters', Granted(new, w))
  BY <1>1, <1>2, <1>4, <1>6, ReleaseKeeps DEF MainGranted
<1>8. RunningAfterStop(i) \in {"none"} \cup Routines
  BY DEF RunningAfterStop, StreamInvariant, Context
<1>9. Lock(main', lastWatermark', waiters', routine') /\ running' \in {"none"} \cup Routines
  BY <1>1, <1>7, <1>8, StartKeeps DEF StreamInvariant, Context
<1> QED
  BY <1>1, <1>9 DEF StreamInvariant, Locked, Context

\* Steps of a routine that have nothing to do with the reservation.
LEMMA PushSteps ==
    ASSUME StreamInvariant, NEW i \in Routines, Reached(i) \/ PushRows(i) \/ PushCompleted(i)
    PROVE  StreamInvariant'
<1>1. /\ routine[i] \in Job /\ routine[i].state \in {"reaching", "flush"}
      /\ required \in [Tables -> SUBSET AllColumns] /\ running \in {"none"} \cup Routines
  BY DEF Reached, PushRows, PushCompleted, StreamInvariant, Locked, Lock, Context
<1>2. PICK state \in {"flush", "streaming", "ending"} : routine' = [routine EXCEPT ![i].state = state]
  BY DEF Reached, PushRows, PushCompleted
<1> DEFINE x == [routine[i] EXCEPT !.state = state]
<1>3. x \in Job /\ (Holding(x) => Holding(routine[i]))
  BY <1>1 DEF Job, States, Holding
<1>4. routine' = [routine EXCEPT ![i] = x]
  BY <1>2
<1> HIDE DEF x
<1>5. /\ main' = main /\ lastWatermark' = lastWatermark /\ waiters' = waiters /\ pos' = pos
      /\ published' = published
      /\ required' \in [Tables -> SUBSET AllColumns] /\ running' \in {"none"} \cup Routines
  BY <1>1 DEF Reached, PushRows, PushCompleted, mainVars, muxVars, managerVars, streamVars
<1> QED
  BY <1>1, <1>3, <1>4, <1>5, MoveKeeps

\* A routine that fails: whatever it had begun stays as it is.
LEMMA FailKeeps ==
    ASSUME StreamInvariant, NEW i \in Routines, OpenFails(i) \/ StreamFails(i)
    PROVE  StreamInvariant'
<1>1. routine[i].state \in {"opening", "streaming"} /\ Fails(i)
  BY DEF OpenFails, StreamFails
<1>2. Off \in Job /\ ~Holding(Off)
  BY DEF Off, Job, States, Holding, Null
<1>3. RunningAfterStop(i) \in {"none"} \cup Routines
  BY DEF RunningAfterStop, StreamInvariant, Context
<1>4. /\ routine' = [routine EXCEPT ![i] = Off] /\ running' = RunningAfterStop(i)
      /\ main' = main /\ lastWatermark' = lastWatermark /\ waiters' = waiters /\ pos' = pos
      /\ published' = published /\ required' = required
  BY <1>1 DEF Fails, mainVars, muxVars, streamVars
<1> QED
  BY <1>1, <1>2, <1>3, <1>4, MoveKeeps DEF StreamInvariant, Context

LEMMA RetryKeeps ==
    ASSUME StreamInvariant, RetryTimeout
    PROVE  StreamInvariant'
<1>1. /\ CheckAndStartBackfill("unset", running, required, routine)
      /\ main' = main /\ lastWatermark' = lastWatermark /\ waiters' = waiters /\ pos' = pos
      /\ published' = published /\ required' = required
  BY DEF RetryTimeout, mainVars, muxVars, streamVars
<1>2. Lock(main, lastWatermark, waiters, routine') /\ running' \in {"none"} \cup Routines
  BY <1>1, StartKeeps DEF StreamInvariant, Locked, Context
<1> QED
  BY <1>1, <1>2 DEF StreamInvariant, Locked, Context

LEMMA CancelKeeps ==
    ASSUME StreamInvariant, Cancel
    PROVE  StreamInvariant'
<1>1. /\ routine' = Stopped /\ running' = "none"
      /\ main' = main /\ lastWatermark' = lastWatermark /\ waiters' = waiters /\ pos' = pos
      /\ published' = published /\ required' = required
  BY DEF Cancel, mainVars, muxVars, streamVars
<1>2. Lock(main, lastWatermark, waiters, routine')
  BY <1>1, ToldKeeps
<1> QED
  BY <1>1, <1>2 DEF StreamInvariant, Locked, Context

-----------------------------------------------------------------------------
(* The theorems. *)

LEMMA InitStream ==
    ASSUME Init
    PROVE  StreamInvariant
<1> DEFINE off == [i \in Routines |-> Off]
           first == CHOOSE i \in Routines : TRUE
<1>1. Off \in Job /\ ~Holding(Off) /\ Off.state # "waiting"
  BY DEF Off, Job, States, Holding, Null
<1>2. required \in [Tables -> SUBSET AllColumns]
  BY SchemaAssumption DEF Init
<1>3. At(1) \in Nat
  BY PositionType
<1>4. Lock("idle", At(1), << >>, off)
  <2>1. Queued("idle", << >>, off)
    BY EmptySeq DEF Queued
  <2> QED
    BY <1>1, <1>3, <2>1 DEF Lock, OneHolds, NobodyHolds, MainHolds
<1>5. main = "idle" /\ lastWatermark = At(1) /\ waiters = << >> /\ pos = 1 /\ published = At(1)
  BY DEF Init
<1>6. Lock("idle", At(1), << >>, routine) /\ running \in {"none"} \cup Routines
  <2>1. CASE running = "none" /\ routine = off
    BY <1>4, <2>1
  <2>2. CASE ~(running = "none" /\ routine = off)
    <3>1. PICK t \in Tables : running = first
                              /\ routine = [off EXCEPT ![first] = NewRoutine(t, InitialRequests[t])]
      BY <2>2 DEF Init
    <3>2. first \in Routines
      BY RoutinesAssumption
    <3>3. off[first] = Off
      BY <3>2
    <3>4. NewRoutine(t, InitialRequests[t]) \in Job /\ ~Holding(NewRoutine(t, InitialRequests[t]))
      BY SchemaAssumption DEF NewRoutine, Off, Job, Holding, States, Null
    <3> HIDE DEF off, first
    <3> QED
      BY <1>1, <1>4, <3>1, <3>2, <3>3, <3>4, RoutineMoves
  <2> QED
    BY <2>1, <2>2
<1> QED
  BY <1>2, <1>3, <1>5, <1>6 DEF StreamInvariant, Locked, Context

LEMMA NextStream ==
    ASSUME StreamInvariant, [Next]_vars
    PROVE  StreamInvariant'
<1>1. ASSUME NEW i \in Routines, BackfillStep(i) \/ OpenFails(i) \/ StreamFails(i)
      PROVE  StreamInvariant'
  BY <1>1, OpenKeeps, CommitSteps, ReserveKeeps, BeginKeeps, GiveUpKeeps, PushSteps, FailKeeps,
     Zenon DEF BackfillStep
<1>2. CASE ReplicationStep \/ ChangeStep \/ RetryTimeout \/ Cancel
  BY <1>2, ReplicationSteps, ChangeSteps, RetryKeeps, CancelKeeps, Zenon
<1>3. CASE UNCHANGED vars
  BY <1>3 DEF vars, mainVars, muxVars, managerVars, streamVars, StreamInvariant, Locked, Context
<1> QED
  BY <1>1, <1>2, <1>3, Zenon DEF Next

\* The inductive invariant: whoever waits is in the queue once and knows it, and
\* what a cancelled or failed routine has left does not free the stream
\* (change-stream-multiplexer.ts reserve, release).
THEOREM StreamTheorem == Spec => []StreamInvariant
<1>1. Init => StreamInvariant
  BY InitStream
<1>2. StreamInvariant /\ [Next]_vars => StreamInvariant'
  BY NextStream
<1> QED
  BY <1>1, <1>2, PTL DEF Spec

\* At most one producer pushes to the change stream, for any schema, number of
\* routines and mix of cancellations, failures and retries
\* (ChangeStreamMultiplexer.reserve, release; BackfillManager.#runBackfill).
THEOREM ExclusiveTheorem == Spec => []Exclusive
<1>1. StreamInvariant => Exclusive
  BY LockedExclusive DEF StreamInvariant
<1> QED
  BY <1>1, StreamTheorem, PTL

-----------------------------------------------------------------------------
(* The watermarks of transactions. *)

\* The upstream positions of snapshots.
Snapshots == {At(lsn) : lsn \in 0..MaxLSN}

\* With pub the last commit in the stream, p the last position read and status
\* the last status: who has the stream knows pub, what it has begun comes after
\* pub and before the next position, and a completion comes when the stream has
\* reached the snapshot.
Dated(x, pub, p, status) ==
    /\ x.watermark \in Snapshots
    /\ x.rows <= MaxRows
    /\ x.minWatermark <= At(p)
    /\ x.granted # Null => x.state = "granted"
    /\ x.state = "granted" => x.granted = pub
    /\ x.tx # Null => pub < x.tx /\ x.tx < At(p + 1)
    /\ x.state = "reaching" => x.tx = Null
    /\ x.msg = "backfill-completed" /\ x.state \in {"flush", "waiting", "granted"} =>
          x.watermark <= status
    /\ x.msg = "backfill-completed" /\ x.tx # Null =>
          x.watermark <= status /\ x.watermark <= x.tx

\* The stream's last commit is what the multiplexer hands on, and comes before
\* the transaction that is being replicated.
Dates ==
    /\ pos \in 1..MaxLSN
    /\ published < At(pos + 1)
    /\ lastStatus \in Nat /\ lastStatus < At(pos + 1)
    /\ open \in Nat /\ open < At(pos + 1)
    /\ lastWatermark # Null => lastWatermark = published
    /\ main = "tx" => published < At(pos)
    /\ \A i \in Routines : Dated(routine[i], published, pos, lastStatus)

LEMMA PositionOrder ==
    ASSUME NEW m \in Nat, NEW n \in Nat
    PROVE  /\ m <= n => At(m) <= At(n)
           /\ At(m) < At(m + 1)
           /\ At(m) < At(n + 1) => At(m) <= At(n)
<1>1. Base \in Nat \ {0}
  BY BoundsAssumption
<1>2. ASSUME NEW j \in Nat, NEW k \in Nat, j <= k
      PROVE  j * Base <= k * Base
  BY <1>1, <1>2
<1>3. m * Base < (m + 1) * Base
  BY <1>1
<1>4. CASE m <= n
  BY <1>2, <1>3, <1>4 DEF At
<1>5. CASE n + 1 <= m
  <2>1. (n + 1) * Base <= m * Base
    BY <1>2, <1>5
  <2> QED
    BY <1>1, <1>3, <1>5, <2>1 DEF At
<1> QED
  BY <1>4, <1>5

\* A routine is given the stream, or begins.
Gets(x, y, w) ==
    y = x \/ (x.state = "waiting" /\ y = [x EXCEPT !.state = "granted", !.granted = w])
Begins(x, y) ==
    \/ y = x
    \/ x.state = "off" /\ \E t \in Tables, cols \in SUBSET AllColumns : y = NewRoutine(t, cols)

LEMMA GrantedGets ==
    ASSUME NEW mn, NEW rts, Lock(mn, Null, waiters, rts), NEW w \in Nat
    PROVE  \A j \in Routines : Gets(rts[j], Granted(rts, w)[j], w)
<1> DEFINE h == Head(waiters)
<1>1. CASE ~(Waiting /\ h # "main")
  BY <1>1 DEF Granted, Gets
<1>2. CASE Waiting /\ h # "main"
  <2>1. waiters \in Seq(Producers) /\ Len(waiters) \in Nat
    BY LenProperties DEF Lock, Queued
  <2>2. 1 \in 1..Len(waiters) /\ h = waiters[1] /\ h \in Producers
    BY <1>2, <2>1, EmptySeq, HeadTailProperties DEF Waiting
  <2>3. h \in Routines /\ rts[h].state = "waiting"
    BY <1>2, <2>2 DEF Lock, Queued, WaitsIn, Producers
  <2>4. rts \in [Routines -> Job]
    BY DEF Lock
  <2> DEFINE x == [rts[h] EXCEPT !.state = "granted", !.granted = w]
  <2>5. Granted(rts, w) = [rts EXCEPT ![h] = x]
    BY <1>2, <2>3, <2>4 DEF Granted
  <2> QED
    BY <2>3, <2>4, <2>5 DEF Gets
<1> QED
  BY <1>1, <1>2

LEMMA StartBegins ==
    ASSUME NEW rts \in [Routines -> Job], NEW timer, NEW run,
           NEW req \in [Tables -> SUBSET AllColumns],
           CheckAndStartBackfill(timer, run, req, rts)
    PROVE  \A j \in Routines : Begins(rts[j], routine'[j])
<1>1. CASE running' = run /\ routine' = rts
  BY <1>1 DEF Begins
<1>2. CASE ~(running' = run /\ routine' = rts)
  <2> DEFINE i == CHOOSE i \in Free(rts) : TRUE
  <2>1. PICK t \in Tables : /\ Free(rts) # {}
                            /\ routine' = [rts EXCEPT ![i] = NewRoutine(t, req[t])]
    BY <1>2 DEF CheckAndStartBackfill
  <2>2. i \in Routines /\ rts[i].state = "off"
    BY <2>1 DEF Free
  <2> HIDE DEF i
  <2> QED
    BY <2>1, <2>2 DEF Begins
<1> QED
  BY <1>1, <1>2

LEMMA DatedGets ==
    ASSUME NEW x \in Job, NEW y, NEW pub \in Nat, NEW p \in Nat, NEW status \in Nat,
           Dated(x, pub, p, status), Gets(x, y, pub)
    PROVE  Dated(y, pub, p, status)
BY DEF Gets, Dated, Job, Null

LEMMA DatedOff ==
    ASSUME NEW pub \in Nat, NEW p \in Nat, NEW status \in Nat
    PROVE  /\ Dated(Off, pub, p, status)
           /\ \A t, cols : Dated(NewRoutine(t, cols), pub, p, status)
<1>1. 0 \in Snapshots /\ At(p) \in Nat /\ MaxRows \in Nat
  BY PositionType, BoundsAssumption DEF Snapshots, At
<1> QED
  BY <1>1 DEF Dated, Off, NewRoutine, Null

LEMMA DatedBegins ==
    ASSUME NEW x, NEW y, NEW pub \in Nat, NEW p \in Nat, NEW status \in Nat,
           Dated(x, pub, p, status), Begins(x, y)
    PROVE  Dated(y, pub, p, status)
BY DatedOff DEF Begins

\* The stream goes on; only who holds it depends on its last commit.
LEMMA DatedLater ==
    ASSUME NEW x \in Job, NEW pub \in Nat, NEW pub2 \in Nat, NEW p \in Nat, NEW p2 \in Nat,
           NEW status \in Nat, NEW status2 \in Nat,
           p <= p2, status <= status2, pub2 = pub \/ ~Holding(x),
           Dated(x, pub, p, status)
    PROVE  Dated(x, pub2, p2, status2)
<1>1. /\ At(p) \in Nat /\ At(p2) \in Nat /\ At(p + 1) \in Nat /\ At(p2 + 1) \in Nat
      /\ At(p) <= At(p2) /\ At(p + 1) <= At(p2 + 1)
  <2>1. p + 1 \in Nat /\ p2 + 1 \in Nat /\ p + 1 <= p2 + 1
    OBVIOUS
  <2> QED
    BY <2>1, PositionType, PositionOrder
<1>2. x.tx \in Nat /\ x.minWatermark \in Nat /\ x.watermark \in Nat
  BY DEF Job
<1> QED
  BY <1>1, <1>2 DEF Dated, Holding


LEMMA DatesTypes ==
    ASSUME StreamInvariant, Dates
    PROVE  /\ pos \in Nat /\ pos + 1 \in Nat /\ published \in Nat /\ lastStatus \in Nat
           /\ lastWatermark \in Nat
           /\ routine \in [Routines -> Job] /\ required \in [Tables -> SUBSET AllColumns]
           /\ At(pos) \in Nat /\ At(pos + 1) \in Nat /\ At((pos + 1) + 1) \in Nat
           /\ At(pos) < At(pos + 1) /\ At(pos + 1) < At((pos + 1) + 1)
<1>1. pos \in Nat /\ pos + 1 \in Nat /\ (pos + 1) + 1 \in Nat
  BY BoundsAssumption DEF Dates
<1> QED
  BY <1>1, PositionType, PositionOrder DEF StreamInvariant, Locked, Lock, Context, Dates

LEMMA LastStatusGrows ==
    ASSUME lastStatus \in Nat, NEW w \in Nat
    PROVE  LastStatus(w) \in Nat /\ lastStatus <= LastStatus(w) /\ LastStatus(w) \in {lastStatus, w}
BY DEF LastStatus

\* All routines stay as they are while the stream goes on.
LEMMA DatedAll ==
    ASSUME StreamInvariant, Dates, NEW pub2 \in Nat, NEW p2 \in Nat, NEW status2 \in Nat,
           pos <= p2, lastStatus <= status2,
           pub2 = published \/ \A i \in Routines : ~Holding(routine[i])
    PROVE  \A i \in Routines : Dated(routine[i], pub2, p2, status2)
<1> TAKE i \in Routines
<1>1. routine[i] \in Job /\ Dated(routine[i], published, pos, lastStatus)
  BY DatesTypes DEF Dates
<1>2. pub2 = published \/ ~Holding(routine[i])
  OBVIOUS
<1> QED
  BY <1>1, <1>2, DatesTypes, DatedLater

\* The stream is handed on at its last commit.
LEMMA HandsOn ==
    ASSUME NEW w \in Nat, Release(w)
    PROVE  lastWatermark' # Null => lastWatermark' = w
BY DEF Release

LEMMA ReplicationDates ==
    ASSUME StreamInvariant, StreamInvariant', Dates, ReplicationStep
    PROVE  Dates' /\ (published' # published => published < published')
<1>1. /\ pos \in Nat /\ pos + 1 \in Nat /\ published \in Nat /\ lastStatus \in Nat
      /\ routine \in [Routines -> Job] /\ required \in [Tables -> SUBSET AllColumns]
      /\ At(pos) \in Nat /\ At(pos + 1) \in Nat /\ At((pos + 1) + 1) \in Nat
      /\ At(pos) < At(pos + 1) /\ At(pos + 1) < At((pos + 1) + 1)
  BY DatesTypes
<1>2. MaxLSN \in Nat
  BY BoundsAssumption
<1>3. CASE MainKeepalive
  <2>1. /\ pos' = pos + 1 /\ pos < MaxLSN /\ published' = published /\ open' = open
        /\ lastStatus' = LastStatus(At(pos + 1)) /\ main' = "idle"
    BY <1>3 DEF MainKeepalive, streamVars
  <2>2. /\ lastStatus' \in Nat /\ lastStatus <= lastStatus'
        /\ lastStatus' \in {lastStatus, At(pos + 1)}
    BY <1>1, <2>1, LastStatusGrows
  <2>3. \A i \in Routines : Dated(routine[i], published, pos + 1, lastStatus')
    BY <1>1, <2>2, DatedAll
  <2>4. /\ lastWatermark' # Null => lastWatermark' = published
        /\ \A i \in Routines : Dated(routine'[i], published, pos + 1, lastStatus')
    <3>1. CASE main = "held"
      <4>1. Release(published) /\ routine' = Granted(routine, published)
        BY <1>3, <3>1 DEF MainKeepalive
      <4>2. Lock(main, Null, waiters, routine)
        BY <3>1 DEF StreamInvariant, Locked, Lock, NobodyHolds, MainHolds
      <4>3. \A i \in Routines : Gets(routine[i], routine'[i], published)
        BY <1>1, <4>1, <4>2, GrantedGets
      <4> QED
        BY <1>1, <2>2, <2>3, <4>1, <4>3, HandsOn, DatedGets
    <3>2. CASE main # "held"
      BY <1>3, <2>3, <3>2 DEF MainKeepalive, muxVars, Dates
    <3> QED
      BY <3>1, <3>2
  <2> QED
    BY <1>1, <1>2, <2>1, <2>2, <2>4 DEF Dates
<1>4. CASE MainReserve
  <2>1. /\ UNCHANGED <<pos, published, open, lastStatus, routine>> /\ main' # "tx"
        /\ lastWatermark' \in {Null, lastWatermark}
    BY <1>4 DEF MainReserve, managerVars, streamVars
  <2> QED
    BY <2>1 DEF Dates
<1>5. CASE MainBegin
  <2>1. /\ pos' = pos + 1 /\ pos < MaxLSN /\ published' = published /\ open' = At(pos + 1)
        /\ lastStatus' = lastStatus /\ lastWatermark' = lastWatermark /\ routine' = routine
    BY <1>5 DEF MainBegin, muxVars, managerVars
  <2>2. \A i \in Routines : Dated(routine[i], published, pos + 1, lastStatus)
    BY <1>1, DatedAll
  <2> QED
    BY <1>1, <1>2, <2>1, <2>2 DEF Dates
<1>6. CASE MainKeepaliveInTx
  <2>1. /\ UNCHANGED <<pos, published, open, routine, lastWatermark, main>>
        /\ lastStatus' = LastStatus(At(pos))
    BY <1>6 DEF MainKeepaliveInTx, mainVars, muxVars, streamVars
  <2>2. /\ lastStatus' \in Nat /\ lastStatus <= lastStatus' /\ lastStatus' \in {lastStatus, At(pos)}
    BY <1>1, <2>1, LastStatusGrows
  <2>3. \A i \in Routines : Dated(routine[i], published, pos, lastStatus')
    BY <1>1, <2>2, DatedAll
  <2> QED
    BY <1>1, <2>1, <2>2, <2>3 DEF Dates
<1>7. CASE MainCommit
  <2>1. /\ main = "tx" /\ main' = "held" /\ pos' = pos /\ published' = At(pos) /\ open' = Null
        /\ lastStatus' = LastStatus(At(pos)) /\ lastWatermark' = lastWatermark
        /\ CheckAndStartBackfill(retryTimer, running, required, routine)
    BY <1>7 DEF MainCommit, muxVars
  <2>2. /\ lastStatus' \in Nat /\ lastStatus <= lastStatus' /\ lastStatus' \in {lastStatus, At(pos)}
    BY <1>1, <2>1, LastStatusGrows
  <2>3. lastWatermark = Null /\ \A i \in Routines : ~Holding(routine[i])
    BY <2>1 DEF StreamInvariant, Locked, Lock, OneHolds, NobodyHolds, MainHolds
  <2>4. \A i \in Routines : Dated(routine[i], At(pos), pos, lastStatus')
    BY <1>1, <2>2, <2>3, DatedAll
  <2>5. \A i \in Routines : Begins(routine[i], routine'[i])
    BY <1>1, <2>1, StartBegins
  <2>6. \A i \in Routines : Dated(routine'[i], At(pos), pos, lastStatus')
    BY <1>1, <2>2, <2>4, <2>5, DatedBegins
  <2> QED
    BY <1>1, <2>1, <2>2, <2>3, <2>6 DEF Dates, Null
<1>8. CASE MainRelease
  <2>1. /\ UNCHANGED <<pos, published, open, lastStatus>> /\ main = "held" /\ main' = "idle"
        /\ Release(published) /\ routine' = Granted(routine, published)
    BY <1>8 DEF MainRelease, managerVars, streamVars
  <2>2. Lock(main, Null, waiters, routine)
    BY <2>1 DEF StreamInvariant, Locked, Lock, NobodyHolds, MainHolds
  <2>3. \A i \in Routines : Gets(routine[i], routine'[i], published)
    BY <1>1, <2>1, <2>2, GrantedGets
  <2>4. \A i \in Routines : Dated(routine'[i], published, pos, lastStatus)
    BY <1>1, <2>3, DatedGets DEF Dates
  <2>5. lastWatermark' # Null => lastWatermark' = published
    BY <1>1, <2>1, HandsOn
  <2> QED
    BY <2>1, <2>4, <2>5 DEF Dates
<1> QED
  BY <1>3, <1>4, <1>5, <1>6, <1>7, <1>8 DEF ReplicationStep

\* Nobody looks at the reason for a backfill to stop before its next transaction.
LEMMA ToldDates ==
    ASSUME StreamInvariant, Dates, UNCHANGED <<pos, main, lastWatermark, published, open, lastStatus>>,
           \/ routine' = routine
           \/ routine' = Stopped
           \/ running \in Routines /\ routine' = [routine EXCEPT ![running].minWatermark = At(pos)]
    PROVE  Dates' /\ published' = published
<1>1. /\ pos \in Nat /\ At(pos) \in Nat /\ routine \in [Routines -> Job]
      /\ running \in {"none"} \cup Routines
  BY DatesTypes DEF StreamInvariant, Context
<1>2. \A i \in Routines : routine'[i] \in {routine[i], [routine[i] EXCEPT !.canceled = TRUE],
                                           [routine[i] EXCEPT !.minWatermark = At(pos)]}
  BY <1>1 DEF Stopped
<1>3. \A i \in Routines : Dated(routine'[i], published, pos, lastStatus)
  <2> TAKE i \in Routines
  <2>1. routine[i] \in Job /\ Dated(routine[i], published, pos, lastStatus)
    BY <1>1 DEF Dates
  <2>2. CASE routine'[i] = routine[i]
    BY <2>1, <2>2
  <2>3. CASE routine'[i] = [routine[i] EXCEPT !.canceled = TRUE]
    BY <2>1, <2>3 DEF Dated, Job
  <2>4. CASE routine'[i] = [routine[i] EXCEPT !.minWatermark = At(pos)]
    BY <1>1, <2>1, <2>4 DEF Dated, Job
  <2> QED
    BY <1>2, <2>2, <2>3, <2>4
<1> QED
  BY <1>3 DEF Dates

LEMMA ChangeDates ==
    ASSUME StreamInvariant, Dates, ChangeStep \/ Cancel
    PROVE  Dates' /\ published' = published
<1>1. UNCHANGED <<pos, main, lastWatermark, published, open, lastStatus>>
  BY DEF ChangeStep, CreateTable, DropTable, RenameTable, UpdateTableMetadata, UpdateKey, AddColumn,
         DropColumn, RenameColumn, Changing, Cancel, mainVars, muxVars, streamVars
<1>2. \/ routine' = routine
      \/ routine' = Stopped
      \/ running \in Routines /\ routine' = [routine EXCEPT ![running].minWatermark = At(pos)]
  BY DEF ChangeStep, CreateTable, DropTable, RenameTable, UpdateTableMetadata, UpdateKey, AddColumn,
         DropColumn, RenameColumn, StopIf, RunningFor, Cancel, StreamInvariant, Context
<1> QED
  BY <1>1, <1>2, ToldDates


\* A transaction is committed, if there is one and it has to be.
LEMMA CommitDates ==
    ASSUME StreamInvariant, Dates, NEW i \in Routines, NEW x \in Job, NEW condition,
           Dated([x EXCEPT !.tx = Null], published, pos, lastStatus), x.state # "granted",
           ~(condition /\ routine[i].tx # Null) => Dated(x, published, pos, lastStatus),
           CommitTxIf(condition, i, x), pos' = pos
    PROVE  Dates' /\ (published' # published => published < published')
<1>1. /\ pos \in Nat /\ published \in Nat /\ lastStatus \in Nat /\ routine \in [Routines -> Job]
      /\ required \in [Tables -> SUBSET AllColumns]
  BY DatesTypes
<1>2. CASE condition /\ routine[i].tx # Null
  <2> DEFINE y == [x EXCEPT !.tx = Null]
             new == [routine EXCEPT ![i] = y]
             tx == routine[i].tx
  <2>1. /\ published' = tx /\ open' = Null /\ lastStatus' = LastStatus(tx)
        /\ CheckAndStartBackfill(retryTimer, running, required, Granted(new, tx))
        /\ Release(tx)
        /\ main' = MainGranted
    BY <1>2 DEF CommitTxIf
  <2>2. tx \in Nat /\ published < tx /\ tx < At(pos + 1)
    BY <1>1, <1>2 DEF Dates, Dated, Job
  <2>3. y \in Job /\ ~Holding(y) /\ Holding(routine[i])
    BY <1>2 DEF Job, Holding, Null
  <2>4. \A j \in Routines \ {i} : ~Holding(routine[j])
    BY <2>3 DEF StreamInvariant, Locked, Lock, OneHolds
  <2>5. main # "tx" /\ routine[i].state # "waiting" /\ lastWatermark = Null
    BY <1>1, <1>2, <2>3
    DEF StreamInvariant, Locked, Lock, OneHolds, NobodyHolds, MainHolds, Job
  <2>6. lastStatus' \in Nat /\ lastStatus <= lastStatus' /\ lastStatus' < At(pos + 1)
    BY <1>1, <2>1, <2>2, LastStatusGrows DEF Dates
  <2>7. Dated(y, tx, pos, lastStatus')
    BY <1>1, <2>2, <2>3, <2>6, DatedLater
  <2>8. \A j \in Routines \ {i} : Dated(routine[j], tx, pos, lastStatus')
    <3> TAKE j \in Routines \ {i}
    <3>1. routine[j] \in Job /\ ~Holding(routine[j])
          /\ Dated(routine[j], published, pos, lastStatus)
      BY <1>1, <2>4 DEF Dates
    <3> HIDE DEF tx
    <3> QED
      BY <1>1, <2>2, <2>6, <3>1, DatedLater
  <2>9. Lock(main, Null, waiters, new)
    BY <2>3, <2>5, RoutineMoves DEF StreamInvariant, Locked
  <2> HIDE DEF y
  <2>10. \A j \in Routines : Dated(new[j], tx, pos, lastStatus') /\ new[j] \in Job
    BY <1>1, <2>3, <2>7, <2>8
  <2>11. Granted(new, tx) \in [Routines -> Job]
    <3>1. NobodyHolds(main, new)
      BY <2>3, <2>5, RoutineMoves DEF StreamInvariant, Locked
    <3> HIDE DEF new, tx
    <3>2. Lock(IF Waiting /\ Head(waiters) = "main" THEN "granted" ELSE main,
               lastWatermark', waiters', Granted(new, tx))
      BY <2>1, <2>2, <2>9, <3>1, ReleaseKeeps
    <3> QED
      BY <3>2 DEF Lock
  <2> HIDE DEF new, tx
  <2>12. \A j \in Routines : Gets(new[j], Granted(new, tx)[j], tx)
    BY <2>2, <2>9, GrantedGets
  <2>13. \A j \in Routines : Begins(Granted(new, tx)[j], routine'[j])
    BY <1>1, <2>1, <2>11, StartBegins
  <2>14. \A j \in Routines : Dated(routine'[j], tx, pos, lastStatus')
    <3> TAKE j \in Routines
    <3>1. Dated(Granted(new, tx)[j], tx, pos, lastStatus')
      BY <1>1, <2>2, <2>6, <2>10, <2>12, DatedGets
    <3> QED
      BY <1>1, <2>2, <2>6, <2>13, <3>1, DatedBegins
  <2>15. lastWatermark' # Null => lastWatermark' = tx
    BY <2>1, <2>2, HandsOn
  <2>16. main' # "tx"
    BY <2>1, <2>5 DEF MainGranted
  <2>17. open' \in Nat /\ open' < At(pos + 1)
    BY <1>1, <2>1, <2>2, DatesTypes DEF Null
  <2> QED
    BY <2>1, <2>2, <2>6, <2>14, <2>15, <2>16, <2>17 DEF Dates
<1>3. CASE ~(condition /\ routine[i].tx # Null)
  <2>1. /\ routine' = [routine EXCEPT ![i] = x]
        /\ UNCHANGED <<main, lastWatermark, published, open, lastStatus>>
    BY <1>3 DEF CommitTxIf, streamVars, muxVars
  <2>2. \A j \in Routines : Dated(routine'[j], published, pos, lastStatus)
    BY <1>1, <1>3, <2>1 DEF Dates
  <2> QED
    BY <2>1, <2>2 DEF Dates
<1> QED
  BY <1>2, <1>3

\* Rows and completions go into the transaction that is open, or wait for
\* another one.
LEMMA CommitStepsDates ==
    ASSUME StreamInvariant, Dates, NEW i \in Routines,
           NextRows(i) \/ NextCompleted(i) \/ EndBackfill(i)
    PROVE  Dates' /\ (published' # published => published < published')
<1>1. /\ pos \in Nat /\ published \in Nat /\ lastStatus \in Nat
      /\ routine[i] \in Job /\ Dated(routine[i], published, pos, lastStatus)
  BY DatesTypes DEF Dates
<1>2. CASE NextRows(i)
  <2> DEFINE n == routine[i].rows + 1
             x == [routine[i] EXCEPT !.state = "flush", !.msg = "backfill", !.rows = n]
  <2>1. routine[i].state = "streaming" /\ routine[i].rows < MaxRows /\ pos' = pos
        /\ CommitTxIf(Waiting, i, x)
    BY <1>2 DEF NextRows
  <2>2. n \in Nat /\ n <= MaxRows
    BY <1>1, <2>1, BoundsAssumption DEF Job
  <2> HIDE DEF n
  <2>3. x \in Job /\ x.state = "flush"
    BY <1>1, <2>2 DEF Job, States
  <2>4. Dated(x, published, pos, lastStatus)
    BY <1>1, <2>1, <2>2 DEF Dated, Job
  <2>5. Dated([x EXCEPT !.tx = Null], published, pos, lastStatus)
    BY <1>1, <2>1, <2>2 DEF Dated, Job
  <2> HIDE DEF x
  <2> QED
    BY <2>1, <2>3, <2>4, <2>5, CommitDates
<1>3. CASE NextCompleted(i)
  <2> DEFINE reached == ChangeStreamReached(i)
             mustWait == ~reached \/ routine[i].tx < routine[i].watermark
             st == IF reached THEN "flush" ELSE "reaching"
             x == [routine[i] EXCEPT !.state = st, !.msg = "backfill-completed"]
  <2>1. routine[i].state = "streaming" /\ pos' = pos /\ CommitTxIf(Waiting \/ mustWait, i, x)
    BY <1>3 DEF NextCompleted
  <2>2. x \in Job /\ x.state # "granted"
    BY <1>1 DEF Job, States
  <2>3. Dated([x EXCEPT !.tx = Null], published, pos, lastStatus)
    BY <1>1, <2>1 DEF Dated, Job, ChangeStreamReached
  <2>4. ASSUME ~((Waiting \/ mustWait) /\ routine[i].tx # Null)
        PROVE  Dated(x, published, pos, lastStatus)
    <3>1. CASE routine[i].tx = Null
      BY <1>1, <2>1, <3>1 DEF Dated, Job, ChangeStreamReached
    <3>2. CASE ~mustWait
      BY <1>1, <2>1, <3>2 DEF Dated, Job, ChangeStreamReached
    <3> QED
      BY <2>4, <3>1, <3>2
  <2> HIDE DEF x, mustWait
  <2> QED
    BY <2>1, <2>2, <2>3, <2>4, CommitDates
<1>4. CASE EndBackfill(i)
  <2>1. CommitTxIf(TRUE, i, Off) /\ pos' = pos
    BY <1>4 DEF EndBackfill
  <2>2. Off \in Job /\ Off.state # "granted" /\ [Off EXCEPT !.tx = Null] = Off
    BY DEF Off, Job, States, Null
  <2>3. Dated(Off, published, pos, lastStatus)
    BY <1>1, DatedOff
  <2>4. Dated([Off EXCEPT !.tx = Null], published, pos, lastStatus)
    BY <2>2, <2>3
  <2> QED
    BY <2>1, <2>2, <2>3, <2>4, CommitDates
<1> QED
  BY <1>2, <1>3, <1>4

\* A routine moves by itself.
LEMMA MoveDates ==
    ASSUME StreamInvariant, Dates, NEW i \in Routines, NEW x,
           Dated(x, published, pos, lastStatus), routine' = [routine EXCEPT ![i] = x],
           UNCHANGED <<pos, main, published, lastStatus>>,
           lastWatermark' \in {Null, lastWatermark},
           open' \in Nat, open' < At(pos + 1)
    PROVE  Dates' /\ published' = published
<1>1. \A j \in Routines : Dated(routine'[j], published, pos, lastStatus)
  BY DatesTypes DEF Dates
<1> QED
  BY <1>1 DEF Dates

LEMMA OpenDates ==
    ASSUME StreamInvariant, Dates, NEW i \in Routines, Open(i)
    PROVE  Dates' /\ published' = published
<1>1. PICK lsn \in pos .. MaxLSN :
         routine' = [routine EXCEPT ![i].state = "streaming", ![i].watermark = At(lsn)]
  BY DEF Open
<1> DEFINE x == [routine[i] EXCEPT !.state = "streaming", !.watermark = At(lsn)]
<1>2. routine' = [routine EXCEPT ![i] = x]
  BY <1>1
<1>3. At(lsn) \in Snapshots
  BY BoundsAssumption, DatesTypes DEF Snapshots
<1>4. routine[i] \in Job /\ Dated(routine[i], published, pos, lastStatus)
      /\ routine[i].state = "opening"
  BY DatesTypes DEF Dates, Open
<1>5. Dated(x, published, pos, lastStatus)
  BY <1>3, <1>4 DEF Dated, Job
<1>6. UNCHANGED <<pos, main, published, lastStatus, lastWatermark, open>>
  BY DEF Open, mainVars, muxVars, managerVars, streamVars
<1> HIDE DEF x
<1> QED
  BY <1>2, <1>5, <1>6, MoveDates DEF Dates

LEMMA ReserveDates ==
    ASSUME StreamInvariant, Dates, NEW i \in Routines, ReserveForTx(i)
    PROVE  Dates' /\ published' = published
<1>1. routine[i] \in Job /\ Dated(routine[i], published, pos, lastStatus)
      /\ routine[i].state = "flush" /\ routine[i].tx = Null
  BY DatesTypes DEF Dates, ReserveForTx
<1>2. UNCHANGED <<pos, main, published, lastStatus, open>>
  BY DEF ReserveForTx, mainVars, managerVars, streamVars
<1>3. CASE Reservable
  <2> DEFINE x == [routine[i] EXCEPT !.state = "granted", !.granted = lastWatermark]
  <2>1. routine' = [routine EXCEPT ![i] = x] /\ lastWatermark' = Null
    BY <1>3 DEF ReserveForTx
  <2>2. Dated(x, published, pos, lastStatus)
    BY <1>1, <1>3 DEF Dated, Job, Reservable, Dates
  <2> HIDE DEF x
  <2> QED
    BY <1>2, <2>1, <2>2, MoveDates DEF Dates
<1>4. CASE ~Reservable
  <2> DEFINE x == [routine[i] EXCEPT !.state = "waiting"]
  <2>1. routine' = [routine EXCEPT ![i] = x] /\ lastWatermark' = lastWatermark
    BY <1>4 DEF ReserveForTx
  <2>2. Dated(x, published, pos, lastStatus)
    BY <1>1 DEF Dated, Job
  <2> HIDE DEF x
  <2> QED
    BY <1>2, <2>1, <2>2, MoveDates DEF Dates
<1> QED
  BY <1>3, <1>4

\* A backfill's transaction comes after the last commit, and before the next
\* position of the replication stream.
LEMMA BeginDates ==
    ASSUME StreamInvariant, Dates, NEW i \in Routines, BeginTx(i)
    PROVE  Dates' /\ published' = published
<1> DEFINE w == TxWatermark(routine[i])
           x == [routine[i] EXCEPT !.state = "flush", !.tx = w, !.granted = Null]
<1>1. routine[i] \in Job /\ Dated(routine[i], published, pos, lastStatus)
      /\ routine[i].state = "granted" /\ MinorLeft(routine[i].granted)
  BY DatesTypes DEF Dates, BeginTx
<1>2. routine' = [routine EXCEPT ![i] = x] /\ open' = w
  BY DEF BeginTx
<1>3. /\ published \in Nat /\ lastStatus \in Nat /\ At(pos + 1) \in Nat
      /\ published < At(pos + 1) /\ lastStatus < At(pos + 1) /\ pos + 1 \in 1 .. MaxLSN + 1
  BY DatesTypes, BoundsAssumption DEF Dates
<1>4. published + 1 < At(pos + 1)
  <2>1. routine[i].granted + 1 # At(pos + 1) /\ routine[i].granted = published
    BY <1>1, <1>3 DEF MinorLeft, Dated
  <2> QED
    BY <1>3, <2>1
<1>5. /\ w \in Nat /\ published < w /\ w < At(pos + 1)
      /\ routine[i].msg = "backfill-completed" =>
            routine[i].watermark <= lastStatus /\ routine[i].watermark <= w
  BY <1>1, <1>3, <1>4 DEF TxWatermark, Dated, Job
<1> HIDE DEF w
<1>6. Dated(x, published, pos, lastStatus)
  BY <1>1, <1>5 DEF Dated, Job, Null
<1> HIDE DEF x
<1>7. UNCHANGED <<pos, main, published, lastStatus, lastWatermark>>
  BY DEF BeginTx, mainVars, muxVars, managerVars
<1> QED
  BY <1>2, <1>5, <1>6, <1>7, MoveDates

LEMMA GiveUpDates ==
    ASSUME StreamInvariant, Dates, NEW i \in Routines, GiveUp(i)
    PROVE  Dates' /\ published' = published
<1> DEFINE new == [routine EXCEPT ![i] = Off]
           w == routine[i].granted
<1>1. /\ Release(w) /\ main' = MainGranted /\ UNCHANGED <<pos, published, lastStatus, open>>
      /\ CheckAndStartBackfill(retryTimer, RunningAfterStop(i), required, Granted(new, w))
  BY DEF GiveUp, streamVars
<1>2. /\ pos \in Nat /\ published \in Nat /\ lastStatus \in Nat /\ routine \in [Routines -> Job]
      /\ required \in [Tables -> SUBSET AllColumns]
  BY DatesTypes
<1>3. routine[i].state = "granted" /\ w = published /\ Holding(routine[i])
  BY <1>2 DEF GiveUp, Dates, Dated, Holding
<1>4. Off \in Job /\ ~Holding(Off) /\ Dated(Off, published, pos, lastStatus)
  BY <1>2, DatedOff DEF Off, Job, States, Holding, Null
<1>5. Lock(main, lastWatermark, waiters, new) /\ NobodyHolds(main, new)
  BY <1>3, <1>4, RoutineMoves DEF StreamInvariant, Locked
<1>6. lastWatermark = Null /\ main # "tx"
  BY <1>3 DEF StreamInvariant, Locked, Lock, NobodyHolds, OneHolds, MainHolds
<1>7. \A j \in Routines : new[j] \in Job /\ Dated(new[j], published, pos, lastStatus)
  BY <1>2, <1>4 DEF Dates
<1> HIDE DEF new, w
<1>8. Lock(main, Null, waiters, new)
  BY <1>5, <1>6
<1>9. Granted(new, w) \in [Routines -> Job]
  <2>1. Lock(IF Waiting /\ Head(waiters) = "main" THEN "granted" ELSE main,
             lastWatermark', waiters', Granted(new, w))
    BY <1>1, <1>2, <1>3, <1>5, <1>8, ReleaseKeeps
  <2> QED
    BY <2>1 DEF Lock
<1>10. \A j \in Routines : Gets(new[j], Granted(new, w)[j], published)
  BY <1>2, <1>3, <1>8, GrantedGets
<1>11. \A j \in Routines : Begins(Granted(new, w)[j], routine'[j])
  BY <1>1, <1>2, <1>9, StartBegins
<1>12. \A j \in Routines : Dated(routine'[j], published, pos, lastStatus)
  <2> TAKE j \in Routines
  <2>1. Dated(Granted(new, w)[j], published, pos, lastStatus)
    BY <1>2, <1>7, <1>10, DatedGets
  <2> QED
    BY <1>2, <1>11, <2>1, DatedBegins
<1>13. lastWatermark' # Null => lastWatermark' = published
  BY <1>1, <1>2, <1>3, HandsOn
<1>14. main' # "tx"
  BY <1>1, <1>6 DEF MainGranted
<1> QED
  BY <1>1, <1>12, <1>13, <1>14 DEF Dates

LEMMA PushDates ==
    ASSUME StreamInvariant, Dates, NEW i \in Routines,
           \/ Reached(i) \/ PushRows(i) \/ PushCompleted(i) \/ OpenFails(i) \/ StreamFails(i)
    PROVE  Dates' /\ published' = published
<1>1. routine[i] \in Job /\ Dated(routine[i], published, pos, lastStatus)
      /\ published \in Nat /\ pos \in Nat /\ lastStatus \in Nat
  BY DatesTypes DEF Dates
<1>2. UNCHANGED <<pos, main, published, lastStatus, lastWatermark, open>>
  BY DEF Reached, PushRows, PushCompleted, OpenFails, StreamFails, Fails, mainVars, muxVars,
         managerVars, streamVars
<1>3. CASE Reached(i)
  <2> DEFINE x == [routine[i] EXCEPT !.state = "flush"]
  <2>1. routine' = [routine EXCEPT ![i] = x] /\ routine[i].state = "reaching"
        /\ routine[i].watermark <= lastStatus
    BY <1>3 DEF Reached, ChangeStreamReached
  <2>2. Dated(x, published, pos, lastStatus)
    BY <1>1, <2>1 DEF Dated, Job
  <2> HIDE DEF x
  <2> QED
    BY <1>2, <2>1, <2>2, MoveDates DEF Dates
<1>4. CASE PushRows(i) \/ PushCompleted(i)
  <2>1. PICK s \in {"streaming", "ending"} : routine' = [routine EXCEPT ![i].state = s]
    BY <1>4 DEF PushRows, PushCompleted
  <2>2. routine[i].state = "flush"
    BY <1>4 DEF PushRows, PushCompleted
  <2> DEFINE x == [routine[i] EXCEPT !.state = s]
  <2>3. routine' = [routine EXCEPT ![i] = x]
    BY <2>1
  <2>4. Dated(x, published, pos, lastStatus)
    BY <1>1, <2>2 DEF Dated, Job
  <2> HIDE DEF x
  <2> QED
    BY <1>2, <2>3, <2>4, MoveDates DEF Dates
<1>5. CASE OpenFails(i) \/ StreamFails(i)
  <2>1. routine' = [routine EXCEPT ![i] = Off]
    BY <1>5 DEF OpenFails, StreamFails, Fails
  <2>2. Dated(Off, published, pos, lastStatus)
    BY <1>1, DatedOff
  <2> QED
    BY <1>2, <2>1, <2>2, MoveDates DEF Dates
<1> QED
  BY <1>3, <1>4, <1>5

LEMMA RetryDates ==
    ASSUME StreamInvariant, Dates, RetryTimeout
    PROVE  Dates' /\ published' = published
<1>1. /\ CheckAndStartBackfill("unset", running, required, routine)
      /\ UNCHANGED <<pos, main, published, lastStatus, lastWatermark, open>>
  BY DEF RetryTimeout, mainVars, muxVars, streamVars
<1>2. \A i \in Routines : Begins(routine[i], routine'[i])
  BY <1>1, DatesTypes, StartBegins
<1>3. \A i \in Routines : Dated(routine'[i], published, pos, lastStatus)
  BY <1>2, DatesTypes, DatedBegins DEF Dates
<1> QED
  BY <1>1, <1>3 DEF Dates

LEMMA InitDates ==
    ASSUME Init
    PROVE  Dates
<1>1. /\ 1 \in Nat /\ At(1) \in Nat /\ At(2) \in Nat /\ At(1) < At(2) /\ 1 + 1 = 2
  BY PositionType, PositionOrder
<1>2. /\ pos = 1 /\ published = At(1) /\ lastStatus = At(1) /\ open = 0 /\ lastWatermark = At(1)
      /\ main = "idle" /\ 1 \in 1..MaxLSN
  BY BoundsAssumption DEF Init, Null
<1>3. \A i \in Routines : \/ routine[i] = Off
                          \/ \E t, cols : routine[i] = NewRoutine(t, cols)
  BY RoutinesAssumption DEF Init
<1>4. \A i \in Routines : Dated(routine[i], At(1), 1, At(1))
  BY <1>1, <1>3, DatedOff
<1> QED
  BY <1>1, <1>2, <1>4 DEF Dates

LEMMA NextDates ==
    ASSUME StreamInvariant, StreamInvariant', Dates, [Next]_vars
    PROVE  Dates' /\ (published' # published => published < published')
<1>1. ASSUME NEW i \in Routines, BackfillStep(i) \/ OpenFails(i) \/ StreamFails(i)
      PROVE  Dates' /\ (published' # published => published < published')
  BY <1>1, OpenDates, CommitStepsDates, ReserveDates, BeginDates, GiveUpDates, PushDates,
     Zenon DEF BackfillStep
<1>2. CASE ReplicationStep \/ ChangeStep \/ RetryTimeout \/ Cancel
  BY <1>2, ReplicationDates, ChangeDates, RetryDates, Zenon
<1>3. CASE UNCHANGED vars
  BY <1>3 DEF vars, mainVars, muxVars, managerVars, streamVars, Dates
<1> QED
  BY <1>1, <1>2, <1>3, Zenon DEF Next

\* The watermarks of the stream, of who has it and of who waits for a snapshot to
\* be reached are in order (backfill-manager.ts beginTxFor, commitTx,
\* change-stream-multiplexer.ts release).
THEOREM DatesTheorem == Spec => []Dates
<1>1. Init => Dates
  BY InitDates
<1>2. StreamInvariant /\ StreamInvariant' /\ Dates /\ [Next]_vars => Dates'
  BY NextDates
<1> QED
  BY <1>1, <1>2, StreamTheorem, PTL DEF Spec

\* Transactions enter the change stream with increasing watermarks, though
\* backfills invent watermarks between those of the replicated ones, and though
\* the stream is handed on, given back unused and lost (beginTxFor).
THEOREM WatermarksTheorem == Spec => WatermarksAdvance
<1>1. StreamInvariant /\ StreamInvariant' /\ Dates /\ [Next]_vars =>
         [published' # published => published < published']_vars
  BY NextDates
<1> QED
  BY <1>1, StreamTheorem, DatesTheorem, PTL DEF Spec, WatermarksAdvance

\* A backfill is declared complete when the replication stream has reached its
\* snapshot, and not before it (beginTxFor, #changeStreamReached).
THEOREM CompletedTheorem == Spec => []CompletedInOrder
<1>1. ASSUME StreamInvariant, Dates, NEW i \in Routines, routine[i].tx # Null,
             routine[i].msg = "backfill-completed"
      PROVE  routine[i].watermark <= At(pos) /\ routine[i].watermark <= routine[i].tx
  <2>1. /\ routine[i].watermark \in Snapshots /\ routine[i].watermark <= lastStatus
        /\ routine[i].watermark <= routine[i].tx
    BY <1>1 DEF Dates, Dated
  <2>2. PICK lsn \in 0..MaxLSN : routine[i].watermark = At(lsn)
    BY <2>1 DEF Snapshots
  <2>3. lsn \in Nat /\ At(lsn) \in Nat /\ lastStatus \in Nat /\ lastStatus < At(pos + 1)
        /\ pos \in Nat /\ At(pos + 1) \in Nat
    BY <1>1, BoundsAssumption, PositionType, DatesTypes DEF Dates
  <2>4. At(lsn) < At(pos + 1)
    BY <2>1, <2>2, <2>3
  <2>5. At(lsn) <= At(pos)
    BY <2>3, <2>4, PositionOrder
  <2> QED
    BY <2>1, <2>2, <2>5
<1>2. StreamInvariant /\ Dates => CompletedInOrder
  BY <1>1 DEF CompletedInOrder
<1> QED
  BY <1>2, StreamTheorem, DatesTheorem, PTL


-----------------------------------------------------------------------------
(* What is to be backfilled, and the changes of keys. *)

Live == {"opening", "streaming", "reaching", "flush", "waiting", "granted"}

\* Rows that are pushed do not predate a change of their key; whoever has yet to
\* look knows of it.
Fresh(x, changed) ==
    /\ x.state # "off" => x.table \in Tables
    /\ x.state \in Live \ {"opening"} /\ ~x.canceled =>
          changed[x.table] <= x.watermark \/ changed[x.table] <= x.minWatermark
    /\ x.tx # Null /\ x.msg = "backfill" => changed[x.table] <= x.watermark
    /\ x.tx # Null /\ x.state = "streaming" => x.msg = "backfill"

Runs(x, req) ==
    /\ x.state \in Live /\ ~x.canceled
    /\ x.table \in Tables /\ x.columns # {} /\ x.columns \subseteq req[x.table]

\* The running backfill is required, the others have been told to stop, and none
\* of those has a transaction.
Charged(rts, run, req) ==
    /\ run # "none" => run \in Routines /\ Runs(rts[run], req)
    /\ \A i \in Routines : rts[i].state \in Live /\ ~rts[i].canceled => run = i
    /\ \A i \in Routines : rts[i].tx # Null /\ rts[i].state # "ending" => ~rts[i].canceled

Kinds ==
    /\ main \in {"idle", "waiting", "granted", "tx", "held"}
    /\ retryTimer \in {"unset", "set", "cleared"}
    /\ canceled \in BOOLEAN
    /\ changes \in 0 .. MaxChanges
    /\ faults \in 0 .. MaxFaults

\* What is required is in the schema.
Demands ==
    /\ Kinds
    /\ schema \in [Tables -> SUBSET AllColumns]
    /\ keyChanged \in [Tables -> Nat]
    /\ \A t \in Tables : required[t] \subseteq schema[t] /\ keyChanged[t] <= At(pos)
    /\ \A i \in Routines : Fresh(routine[i], keyChanged)
    /\ ~canceled => Charged(routine, running, required)

LEMMA FreshOthers ==
    ASSUME NEW x \in Job, NEW y, NEW w, NEW changed, Fresh(x, changed),
           Gets(x, y, w) \/ Begins(x, y)
    PROVE  Fresh(y, changed)
<1>1. CASE Gets(x, y, w)
  BY <1>1 DEF Gets, Fresh, Live, Job
<1>2. CASE Begins(x, y)
  BY <1>2 DEF Begins, Fresh, Live, NewRoutine, Off
<1> QED
  BY <1>1, <1>2

LEMMA FreshOff == \A changed : Fresh(Off, changed)
BY DEF Fresh, Off, Live

LEMMA ChargedGranted ==
    ASSUME NEW mn, NEW rts, Lock(mn, Null, waiters, rts), NEW w \in Nat, NEW run, NEW req,
           Charged(rts, run, req)
    PROVE  Charged(Granted(rts, w), run, req)
<1> DEFINE new == Granted(rts, w)
<1>1. \A j \in Routines : Gets(rts[j], new[j], w) /\ rts[j] \in Job
  BY GrantedGets DEF Lock
<1> HIDE DEF new
<1>2. \A j \in Routines :
         /\ new[j].canceled = rts[j].canceled /\ new[j].tx = rts[j].tx
         /\ new[j].table = rts[j].table /\ new[j].columns = rts[j].columns
         /\ new[j].state \in Live <=> rts[j].state \in Live
         /\ new[j].state = "ending" <=> rts[j].state = "ending"
  <2> TAKE j \in Routines
  <2>1. CASE new[j] = rts[j]
    BY <2>1
  <2>2. CASE /\ rts[j].state = "waiting"
             /\ new[j] = [rts[j] EXCEPT !.state = "granted", !.granted = w]
    BY <1>1, <2>2 DEF Job, Live
  <2> QED
    BY <1>1, <2>1, <2>2 DEF Gets
<1>3. Charged(new, run, req)
  BY <1>2 DEF Charged, Runs
<1> QED
  BY <1>3 DEF new

LEMMA ChargedStart ==
    ASSUME NEW rts \in [Routines -> Job], NEW timer, NEW run \in {"none"} \cup Routines,
           NEW req \in [Tables -> SUBSET AllColumns],
           CheckAndStartBackfill(timer, run, req, rts), Charged(rts, run, req)
    PROVE  Charged(routine', running', req)
<1>1. CASE running' = run /\ routine' = rts
  BY <1>1
<1>2. CASE ~(running' = run /\ routine' = rts)
  <2> DEFINE i == CHOOSE i \in Free(rts) : TRUE
  <2>1. PICK t \in {t \in Tables : req[t] # {}} :
           /\ Free(rts) # {} /\ running' = i
           /\ routine' = [rts EXCEPT ![i] = NewRoutine(t, req[t])]
    BY <1>2 DEF CheckAndStartBackfill
  <2>2. i \in Routines /\ rts[i].state = "off"
    BY <2>1 DEF Free
  <2>3. run = "none"
    BY <1>2 DEF CheckAndStartBackfill
  <2> HIDE DEF i
  <2> DEFINE x == NewRoutine(t, req[t])
  <2>4. Runs(x, req) /\ x.tx = Null
    BY <2>1 DEF Runs, NewRoutine, Off, Live
  <2>5. i # "none"
    BY <2>2, RoutinesAssumption
  <2>6. routine'[i] = x /\ \A j \in Routines \ {i} : routine'[j] = rts[j]
    BY <2>1, <2>2
  <2> HIDE DEF x
  <2>7. \A j \in Routines : rts[j].state \in Live => rts[j].canceled
    BY <2>3, RoutinesAssumption DEF Charged
  <2> QED
    BY <2>1, <2>2, <2>4, <2>5, <2>6, <2>7 DEF Charged
<1> QED
  BY <1>1, <1>2

\* A routine goes on, and is as much in charge as before.
LEMMA ChargedMoves ==
    ASSUME NEW rts \in [Routines -> Job], NEW run, NEW req, Charged(rts, run, req),
           NEW i \in Routines, NEW x, rts[i].state \in Live, x.state \in Live,
           x.canceled = rts[i].canceled, x.table = rts[i].table, x.columns = rts[i].columns,
           x.tx # Null => rts[i].tx # Null \/ ~x.canceled
    PROVE  Charged([rts EXCEPT ![i] = x], run, req)
<1> DEFINE new == [rts EXCEPT ![i] = x]
<1>1. new[i] = x /\ \A j \in Routines \ {i} : new[j] = rts[j]
  OBVIOUS
<1> HIDE DEF new
<1>2. \A j \in Routines :
         /\ new[j].canceled = rts[j].canceled
         /\ new[j].table = rts[j].table /\ new[j].columns = rts[j].columns
         /\ new[j].state \in Live <=> rts[j].state \in Live
  BY <1>1
<1>3. \A j \in Routines : new[j].tx # Null /\ new[j].state # "ending" => ~new[j].canceled
  BY <1>1 DEF Charged, Live
<1>4. Charged(new, run, req)
  BY <1>2, <1>3 DEF Charged, Runs
<1> QED
  BY <1>4 DEF new

\* A routine ends, and if it was in charge nobody is any more.
LEMMA ChargedEnds ==
    ASSUME NEW rts \in [Routines -> Job], NEW run, NEW req, Charged(rts, run, req),
           NEW i \in Routines, NEW run2,
           run2 = (IF run = i THEN "none" ELSE run) \/ (rts[i].state \notin Live /\ run2 = run)
    PROVE  Charged([rts EXCEPT ![i] = Off], run2, req)
<1> DEFINE new == [rts EXCEPT ![i] = Off]
<1>1. new[i] = Off /\ \A j \in Routines \ {i} : new[j] = rts[j]
  OBVIOUS
<1>2. Off.state \notin Live /\ Off.tx = Null
  BY DEF Off, Live
<1> HIDE DEF new
<1>3. run2 # "none" => run2 \in Routines \ {i} /\ run2 = run
  BY DEF Charged, Runs
<1>4. Charged(new, run2, req)
  <2>1. run2 # "none" => run2 \in Routines /\ Runs(new[run2], req)
    BY <1>1, <1>3 DEF Charged
  <2>2. \A j \in Routines : new[j].state \in Live /\ ~new[j].canceled => run2 = j
    BY <1>1, <1>2 DEF Charged
  <2>3. \A j \in Routines : new[j].tx # Null /\ new[j].state # "ending" => ~new[j].canceled
    BY <1>1, <1>2 DEF Charged
  <2> QED
    BY <2>1, <2>2, <2>3 DEF Charged
<1> QED
  BY <1>4 DEF new


\* The replication stream changes neither the schema nor a key.
LEMMA DemandsKept ==
    ASSUME StreamInvariant, Dates, Demands, UNCHANGED <<schema, keyChanged, canceled>>,
           pos' \in {pos, pos + 1}, Kinds', \A t \in Tables : required'[t] \subseteq required[t],
           \A i \in Routines : Fresh(routine'[i], keyChanged),
           ~canceled => Charged(routine', running', required')
    PROVE  Demands'
<1>1. \A t \in Tables : keyChanged[t] \in Nat /\ keyChanged[t] <= At(pos)
  BY DEF Demands
<1>2. At(pos) \in Nat /\ At(pos + 1) \in Nat /\ At(pos) < At(pos + 1)
  BY DatesTypes
<1>3. \A t \in Tables : keyChanged[t] <= At(pos')
  BY <1>1, <1>2
<1> QED
  BY <1>3 DEF Demands

LEMMA DemandsTypes ==
    ASSUME StreamInvariant, Dates, Demands
    PROVE  /\ routine \in [Routines -> Job] /\ published \in Nat /\ pos \in Nat
           /\ required \in [Tables -> SUBSET AllColumns] /\ running \in {"none"} \cup Routines
           /\ \A i \in Routines : Fresh(routine[i], keyChanged)
BY DatesTypes DEF StreamInvariant, Context, Demands

LEMMA ReplicationDemands ==
    ASSUME StreamInvariant, Dates, Demands, ReplicationStep
    PROVE  Demands'
<1>1. /\ routine \in [Routines -> Job] /\ published \in Nat /\ pos \in Nat
      /\ required \in [Tables -> SUBSET AllColumns] /\ running \in {"none"} \cup Routines
      /\ \A i \in Routines : Fresh(routine[i], keyChanged)
  BY DemandsTypes
<1>2. /\ UNCHANGED <<schema, keyChanged, canceled, required>> /\ pos' \in {pos, pos + 1}
      /\ UNCHANGED <<retryTimer, changes, faults>>
      /\ main' \in {main, "idle", "granted", "waiting", "tx", "held"}
  BY DEF ReplicationStep, MainKeepalive, MainReserve, MainBegin, MainKeepaliveInTx, MainCommit,
         MainRelease, upstreamVars, managerVars, mainVars
<1>3. Kinds'
  BY <1>2 DEF Demands, Kinds
<1>4. \/ routine' = routine /\ running' = running
      \/ main = "held" /\ routine' = Granted(routine, published) /\ running' = running
      \/ CheckAndStartBackfill(retryTimer, running, required, routine)
  BY DEF ReplicationStep, MainKeepalive, MainReserve, MainBegin, MainKeepaliveInTx, MainCommit,
         MainRelease, managerVars
<1>5. CASE routine' = routine /\ running' = running
  BY <1>1, <1>2, <1>3, <1>5, DemandsKept DEF Demands
<1>6. CASE main = "held" /\ routine' = Granted(routine, published) /\ running' = running
  <2>1. Lock(main, Null, waiters, routine)
    BY <1>6 DEF StreamInvariant, Locked, Lock, NobodyHolds, MainHolds
  <2>2. \A i \in Routines : Gets(routine[i], routine'[i], published)
    BY <1>1, <1>6, <2>1, GrantedGets
  <2>3. \A i \in Routines : Fresh(routine'[i], keyChanged)
    BY <1>1, <2>2, FreshOthers
  <2>4. ~canceled => Charged(routine', running', required)
    BY <1>1, <1>6, <2>1, ChargedGranted DEF Demands
  <2> QED
    BY <1>2, <1>3, <2>3, <2>4, DemandsKept
<1>7. CASE CheckAndStartBackfill(retryTimer, running, required, routine)
  <2>1. \A i \in Routines : Begins(routine[i], routine'[i])
    BY <1>1, <1>7, StartBegins
  <2>2. \A i \in Routines : Fresh(routine'[i], keyChanged)
    BY <1>1, <2>1, FreshOthers
  <2>3. ~canceled => Charged(routine', running', required)
    BY <1>1, <1>7, ChargedStart DEF Demands
  <2> QED
    BY <1>2, <1>3, <2>2, <2>3, DemandsKept
<1> QED
  BY <1>4, <1>5, <1>6, <1>7

\* A transaction is committed, if there is one and it has to be, by a routine
\* that goes on or is off.
LEMMA CommitDemands ==
    ASSUME StreamInvariant, Dates, Demands, NEW i \in Routines, NEW x \in Job, NEW condition,
           Fresh([x EXCEPT !.tx = Null], keyChanged),
           ~(condition /\ routine[i].tx # Null) => Fresh(x, keyChanged),
           ~canceled => /\ Charged([routine EXCEPT ![i] = [x EXCEPT !.tx = Null]], running, required)
                        /\ Charged([routine EXCEPT ![i] = x], running, required),
           routine[i].state # "waiting", x.state # "granted", x.state # "waiting",
           CommitTxIf(condition, i, x), UNCHANGED <<pos, required, retryTimer, schema, keyChanged,
                                                    changes, canceled, faults>>
    PROVE  Demands'
<1>1. /\ routine \in [Routines -> Job] /\ published \in Nat /\ pos \in Nat
      /\ required \in [Tables -> SUBSET AllColumns] /\ running \in {"none"} \cup Routines
      /\ \A j \in Routines : Fresh(routine[j], keyChanged)
  BY DemandsTypes
<1>2. CASE condition /\ routine[i].tx # Null
  <2> DEFINE y == [x EXCEPT !.tx = Null]
             new == [routine EXCEPT ![i] = y]
             tx == routine[i].tx
  <2>1. /\ CheckAndStartBackfill(retryTimer, running, required, Granted(new, tx))
        /\ Release(tx)
        /\ main' = MainGranted
    BY <1>2 DEF CommitTxIf
  <2>2. tx \in Nat /\ y \in Job /\ ~Holding(y) /\ Holding(routine[i])
    BY <1>1, <1>2 DEF Job, Holding, Null
  <2>3. lastWatermark = Null
    BY <2>2 DEF StreamInvariant, Locked, Lock, NobodyHolds
  <2>4. Lock(main, Null, waiters, new) /\ NobodyHolds(main, new)
    BY <2>2, <2>3, RoutineMoves DEF StreamInvariant, Locked
  <2>5. ~canceled => Charged(new, running, required)
    OBVIOUS
  <2>6. \A j \in Routines : Fresh(new[j], keyChanged) /\ new[j] \in Job
    BY <1>1, <2>2
  <2> HIDE DEF y, new, tx
  <2>7. Granted(new, tx) \in [Routines -> Job]
    <3>1. Lock(IF Waiting /\ Head(waiters) = "main" THEN "granted" ELSE main,
               lastWatermark', waiters', Granted(new, tx))
      BY <2>1, <2>2, <2>4, ReleaseKeeps
    <3> QED
      BY <3>1 DEF Lock
  <2>8. \A j \in Routines : Gets(new[j], Granted(new, tx)[j], tx)
    BY <2>2, <2>4, GrantedGets
  <2>9. \A j \in Routines : Begins(Granted(new, tx)[j], routine'[j])
    BY <1>1, <2>1, <2>7, StartBegins
  <2>10. \A j \in Routines : Fresh(routine'[j], keyChanged)
    <3> TAKE j \in Routines
    <3>1. Fresh(Granted(new, tx)[j], keyChanged) /\ Granted(new, tx)[j] \in Job
      BY <2>6, <2>7, <2>8, FreshOthers
    <3> QED
      BY <2>9, <3>1, FreshOthers
  <2>11. ~canceled => Charged(Granted(new, tx), running, required)
    BY <2>2, <2>4, <2>5, ChargedGranted
  <2>12. ~canceled => Charged(routine', running', required)
    BY <1>1, <2>1, <2>7, <2>11, ChargedStart
  <2>13. Kinds'
    BY <2>1 DEF Kinds, Demands, MainGranted
  <2> QED
    BY <2>10, <2>12, <2>13, DemandsKept
<1>3. CASE ~(condition /\ routine[i].tx # Null)
  <2>1. routine' = [routine EXCEPT ![i] = x] /\ UNCHANGED <<main, running>>
    BY <1>3 DEF CommitTxIf
  <2>2. \A j \in Routines : Fresh(routine'[j], keyChanged)
    BY <1>1, <1>3, <2>1
  <2>3. Kinds'
    BY <2>1 DEF Kinds, Demands
  <2> QED
    BY <2>1, <2>2, <2>3, DemandsKept
<1> QED
  BY <1>2, <1>3

LEMMA CommitStepsDemands ==
    ASSUME StreamInvariant, Dates, Demands, NEW i \in Routines,
           NextRows(i) \/ NextCompleted(i) \/ EndBackfill(i)
    PROVE  Demands'
<1>1. /\ routine \in [Routines -> Job] /\ routine[i] \in Job
      /\ Fresh(routine[i], keyChanged) /\ running \in {"none"} \cup Routines
      /\ ~canceled => Charged(routine, running, required)
  BY DemandsTypes DEF Demands
<1>2. UNCHANGED <<pos, required, retryTimer, schema, keyChanged, changes, canceled, faults>>
  BY DEF NextRows, NextCompleted, EndBackfill, upstreamVars
<1>3. CASE NextRows(i)
  <2> DEFINE n == routine[i].rows + 1
             x == [routine[i] EXCEPT !.state = "flush", !.msg = "backfill", !.rows = n]
             y == [x EXCEPT !.tx = Null]
  <2>1. routine[i].state = "streaming" /\ CommitTxIf(Waiting, i, x)
    BY <1>3 DEF NextRows
  <2>2. n \in Nat
    BY <1>1 DEF Job
  <2> HIDE DEF n
  <2>3. x \in Job /\ x.state = "flush"
    BY <1>1, <2>2 DEF Job, States
  <2>4. Fresh(x, keyChanged) /\ Fresh(y, keyChanged)
    BY <1>1, <2>1, <2>2 DEF Fresh, Job, Live
  <2>5. /\ routine[i].state \in Live /\ x.state \in Live /\ y.state \in Live
        /\ x.canceled = routine[i].canceled /\ x.table = routine[i].table
        /\ x.columns = routine[i].columns /\ x.tx = routine[i].tx
        /\ y.canceled = routine[i].canceled /\ y.table = routine[i].table
        /\ y.columns = routine[i].columns /\ y.tx = Null
    BY <1>1, <2>1, <2>2 DEF Job, Live
  <2> HIDE DEF x
  <2>6. ~canceled => Charged([routine EXCEPT ![i] = x], running, required)
    BY <1>1, <2>5, ChargedMoves
  <2> HIDE DEF y
  <2>7. ~canceled => Charged([routine EXCEPT ![i] = y], running, required)
    BY <1>1, <2>5, ChargedMoves
  <2> USE DEF y
  <2> QED
    BY <1>2, <2>1, <2>3, <2>4, <2>6, <2>7, CommitDemands
<1>4. CASE NextCompleted(i)
  <2> DEFINE reached == ChangeStreamReached(i)
             mustWait == ~reached \/ routine[i].tx < routine[i].watermark
             st == IF reached THEN "flush" ELSE "reaching"
             x == [routine[i] EXCEPT !.state = st, !.msg = "backfill-completed"]
             y == [x EXCEPT !.tx = Null]
  <2>1. routine[i].state = "streaming" /\ CommitTxIf(Waiting \/ mustWait, i, x)
    BY <1>4 DEF NextCompleted
  <2>2. st \in {"flush", "reaching"}
    OBVIOUS
  <2> HIDE DEF reached, st, mustWait
  <2>3. x \in Job /\ x.state \in {"flush", "reaching"}
    BY <1>1, <2>1, <2>2 DEF Job, States
  <2>4. Fresh(x, keyChanged) /\ Fresh(y, keyChanged)
    BY <1>1, <2>1, <2>2 DEF Fresh, Job, Live
  <2>5. /\ routine[i].state \in Live /\ x.state \in Live /\ y.state \in Live
        /\ x.canceled = routine[i].canceled /\ x.table = routine[i].table
        /\ x.columns = routine[i].columns /\ x.tx = routine[i].tx
        /\ y.canceled = routine[i].canceled /\ y.table = routine[i].table
        /\ y.columns = routine[i].columns /\ y.tx = Null
    BY <1>1, <2>1, <2>2 DEF Job, Live
  <2> HIDE DEF x
  <2>6. ~canceled => Charged([routine EXCEPT ![i] = x], running, required)
    BY <1>1, <2>5, ChargedMoves
  <2> HIDE DEF y
  <2>7. ~canceled => Charged([routine EXCEPT ![i] = y], running, required)
    BY <1>1, <2>5, ChargedMoves
  <2> USE DEF y
  <2> QED
    BY <1>2, <2>1, <2>3, <2>4, <2>6, <2>7, CommitDemands
<1>5. CASE EndBackfill(i)
  <2>1. CommitTxIf(TRUE, i, Off) /\ routine[i].state = "ending"
    BY <1>5 DEF EndBackfill
  <2>2. Off \in Job /\ Off.state = "off" /\ [Off EXCEPT !.tx = Null] = Off
    BY DEF Off, Job, States, Null
  <2>3. ~canceled => Charged([routine EXCEPT ![i] = Off], running, required)
    BY <1>1, <2>1, ChargedEnds DEF Live
  <2>4. Fresh(Off, keyChanged)
    BY FreshOff
  <2> HIDE DEF Off
  <2> QED
    BY <1>2, <2>1, <2>2, <2>3, <2>4, CommitDemands
<1> QED
  BY <1>3, <1>4, <1>5


\* A live routine moves by itself.
LEMMA MoveDemands ==
    ASSUME StreamInvariant, Dates, Demands, NEW i \in Routines, NEW x,
           Fresh(x, keyChanged), routine[i].state \in Live, x.state \in Live,
           x.canceled = routine[i].canceled, x.table = routine[i].table,
           x.columns = routine[i].columns,
           x.tx # Null => routine[i].tx # Null \/ ~x.canceled,
           routine' = [routine EXCEPT ![i] = x],
           UNCHANGED <<pos, main, running, required, retryTimer, schema, keyChanged,
                       changes, canceled, faults>>
    PROVE  Demands'
<1>1. routine \in [Routines -> Job]
      /\ \A j \in Routines : Fresh(routine[j], keyChanged)
  BY DemandsTypes
<1>2. \A j \in Routines : Fresh(routine'[j], keyChanged)
  BY <1>1
<1>3. ~canceled => Charged([routine EXCEPT ![i] = x], running, required)
  BY <1>1, ChargedMoves DEF Demands
<1>4. Kinds'
  BY DEF Demands, Kinds
<1> QED
  BY <1>2, <1>3, <1>4, DemandsKept

LEMMA OpenDemands ==
    ASSUME StreamInvariant, Dates, Demands, NEW i \in Routines, Open(i)
    PROVE  Demands'
<1>1. PICK lsn \in pos .. MaxLSN :
         routine' = [routine EXCEPT ![i].state = "streaming", ![i].watermark = At(lsn)]
  BY DEF Open
<1> DEFINE x == [routine[i] EXCEPT !.state = "streaming", !.watermark = At(lsn)]
<1>2. routine' = [routine EXCEPT ![i] = x] /\ routine[i].state = "opening"
  BY <1>1 DEF Open
<1>3. routine[i] \in Job /\ routine[i].tx = Null /\ Fresh(routine[i], keyChanged)
  BY <1>2, DemandsTypes DEF Job
<1>4. routine[i].table \in Tables
  BY <1>2, <1>3 DEF Fresh
<1>5. keyChanged[routine[i].table] <= At(lsn)
  <2>1. pos \in Nat /\ lsn \in Nat /\ pos <= lsn
    BY DatesTypes, BoundsAssumption
  <2>2. At(pos) \in Nat /\ At(lsn) \in Nat /\ At(pos) <= At(lsn)
    BY <2>1, PositionType, PositionOrder
  <2>3. keyChanged[routine[i].table] \in Nat /\ keyChanged[routine[i].table] <= At(pos)
    BY <1>4 DEF Demands
  <2> QED
    BY <2>2, <2>3
<1>6. Fresh(x, keyChanged)
  BY <1>3, <1>4, <1>5 DEF Fresh, Job
<1>7. /\ routine[i].state \in Live /\ x.state \in Live /\ x.canceled = routine[i].canceled
      /\ x.table = routine[i].table /\ x.columns = routine[i].columns /\ x.tx = Null
  BY <1>2, <1>3 DEF Live, Job
<1>8. UNCHANGED <<pos, main, running, required, retryTimer, schema, keyChanged,
                  changes, canceled, faults>>
  BY DEF Open, mainVars, managerVars, upstreamVars
<1> HIDE DEF x
<1> QED
  BY <1>2, <1>6, <1>7, <1>8, MoveDemands

LEMMA ReserveDemands ==
    ASSUME StreamInvariant, Dates, Demands, NEW i \in Routines, ReserveForTx(i)
    PROVE  Demands'
<1>1. /\ routine[i] \in Job /\ routine[i].state = "flush" /\ routine[i].tx = Null
      /\ Fresh(routine[i], keyChanged)
  BY DemandsTypes DEF ReserveForTx
<1>2. UNCHANGED <<pos, main, running, required, retryTimer, schema, keyChanged,
                  changes, canceled, faults>>
  BY DEF ReserveForTx, mainVars, managerVars, upstreamVars
<1> DEFINE x == [routine[i] EXCEPT !.state = "granted", !.granted = lastWatermark]
           y == [routine[i] EXCEPT !.state = "waiting"]
<1>3. routine' = [routine EXCEPT ![i] = x] \/ routine' = [routine EXCEPT ![i] = y]
  BY DEF ReserveForTx
<1>4. Fresh(x, keyChanged) /\ Fresh(y, keyChanged)
  BY <1>1 DEF Fresh, Job, Live
<1>5. /\ routine[i].state \in Live /\ x.state \in Live /\ x.canceled = routine[i].canceled
      /\ x.table = routine[i].table /\ x.columns = routine[i].columns /\ x.tx = Null
      /\ y.state \in Live /\ y.canceled = routine[i].canceled
      /\ y.table = routine[i].table /\ y.columns = routine[i].columns /\ y.tx = Null
  BY <1>1 DEF Live, Job
<1> HIDE DEF x, y
<1> QED
  BY <1>2, <1>3, <1>4, <1>5, MoveDemands

\* With the reservation, a backfill that is not invalidated has rows that are
\* not older than the last change of their key.
LEMMA BeginDemands ==
    ASSUME StreamInvariant, Dates, Demands, NEW i \in Routines, BeginTx(i)
    PROVE  Demands'
<1> DEFINE w == TxWatermark(routine[i])
           x == [routine[i] EXCEPT !.state = "flush", !.tx = w, !.granted = Null]
<1>1. /\ routine[i] \in Job /\ routine[i].state = "granted" /\ ~Invalidated(routine[i])
      /\ Fresh(routine[i], keyChanged)
  BY DemandsTypes DEF BeginTx
<1>2. routine' = [routine EXCEPT ![i] = x]
      /\ UNCHANGED <<pos, main, running, required, retryTimer, schema, keyChanged,
                     changes, canceled, faults>>
  BY DEF BeginTx, mainVars, managerVars, upstreamVars
<1> HIDE DEF w
<1>3. ~routine[i].canceled /\ routine[i].table \in Tables
      /\ (routine[i].msg = "backfill" => routine[i].minWatermark <= routine[i].watermark)
  BY <1>1 DEF Invalidated, Job, Fresh
<1>4. keyChanged[routine[i].table] \in Nat
  BY <1>3 DEF Demands
<1>5. routine[i].msg = "backfill" => keyChanged[routine[i].table] <= routine[i].watermark
  BY <1>1, <1>3, <1>4 DEF Fresh, Live, Job
<1>6. Fresh(x, keyChanged)
  BY <1>1, <1>5 DEF Fresh, Job, Live
<1>7. /\ routine[i].state \in Live /\ x.state \in Live /\ x.canceled = routine[i].canceled
      /\ x.table = routine[i].table /\ x.columns = routine[i].columns /\ ~x.canceled
  BY <1>1, <1>3 DEF Live, Job
<1> HIDE DEF x
<1> QED
  BY <1>2, <1>6, <1>7, MoveDemands

LEMMA GiveUpDemands ==
    ASSUME StreamInvariant, Dates, Demands, NEW i \in Routines, GiveUp(i)
    PROVE  Demands'
<1> DEFINE new == [routine EXCEPT ![i] = Off]
           w == routine[i].granted
           run == RunningAfterStop(i)
<1>1. /\ Release(w) /\ main' = MainGranted
      /\ UNCHANGED <<pos, required, retryTimer, schema, keyChanged, changes, canceled, faults>>
      /\ CheckAndStartBackfill(retryTimer, run, required, Granted(new, w))
  BY DEF GiveUp, upstreamVars
<1>2. /\ routine \in [Routines -> Job] /\ required \in [Tables -> SUBSET AllColumns]
      /\ running \in {"none"} \cup Routines /\ \A j \in Routines : Fresh(routine[j], keyChanged)
  BY DemandsTypes
<1>3. routine[i].state = "granted" /\ w \in Nat /\ Holding(routine[i])
  BY <1>2 DEF GiveUp, Job, Holding
<1>4. Off \in Job /\ ~Holding(Off) /\ Fresh(Off, keyChanged)
  BY FreshOff DEF Off, Job, States, Holding, Null
<1>5. Lock(main, lastWatermark, waiters, new) /\ NobodyHolds(main, new)
  BY <1>3, <1>4, RoutineMoves DEF StreamInvariant, Locked
<1>6. lastWatermark = Null
  BY <1>3 DEF StreamInvariant, Locked, Lock, NobodyHolds
<1>7. \A j \in Routines : new[j] \in Job /\ Fresh(new[j], keyChanged)
  BY <1>2, <1>4
<1>8. run \in {"none"} \cup Routines /\ run = (IF running = i THEN "none" ELSE running)
  BY <1>2 DEF RunningAfterStop
<1>9. ~canceled => Charged(new, run, required)
  BY <1>2, <1>8, ChargedEnds DEF Demands
<1> HIDE DEF new, w, run
<1>10. Lock(main, Null, waiters, new)
  BY <1>5, <1>6
<1>11. Granted(new, w) \in [Routines -> Job]
  <2>1. Lock(IF Waiting /\ Head(waiters) = "main" THEN "granted" ELSE main,
             lastWatermark', waiters', Granted(new, w))
    BY <1>1, <1>3, <1>5, <1>10, ReleaseKeeps
  <2> QED
    BY <2>1 DEF Lock
<1>12. \A j \in Routines : Gets(new[j], Granted(new, w)[j], w)
  BY <1>3, <1>10, GrantedGets
<1>13. \A j \in Routines : Begins(Granted(new, w)[j], routine'[j])
  BY <1>1, <1>2, <1>11, StartBegins
<1>14. \A j \in Routines : Fresh(routine'[j], keyChanged)
  <2> TAKE j \in Routines
  <2>1. Fresh(Granted(new, w)[j], keyChanged) /\ Granted(new, w)[j] \in Job
    BY <1>7, <1>11, <1>12, FreshOthers
  <2> QED
    BY <1>13, <2>1, FreshOthers
<1>15. ~canceled => Charged(Granted(new, w), run, required)
  BY <1>3, <1>9, <1>10, ChargedGranted
<1>16. ~canceled => Charged(routine', running', required)
  BY <1>1, <1>2, <1>8, <1>11, <1>15, ChargedStart
<1>17. Kinds'
  BY <1>1 DEF Kinds, Demands, MainGranted
<1> QED
  BY <1>1, <1>14, <1>16, <1>17, DemandsKept

LEMMA PushDemands ==
    ASSUME StreamInvariant, Dates, Demands, NEW i \in Routines, Reached(i) \/ PushRows(i)
    PROVE  Demands'
<1>1. PICK s \in {"flush", "streaming"} : routine' = [routine EXCEPT ![i].state = s]
                                          /\ (s = "streaming" => routine[i].msg = "backfill")
  BY DEF Reached, PushRows
<1>2. routine[i] \in Job /\ routine[i].state \in {"reaching", "flush"}
      /\ Fresh(routine[i], keyChanged)
  BY DemandsTypes DEF Reached, PushRows
<1> DEFINE x == [routine[i] EXCEPT !.state = s]
<1>3. routine' = [routine EXCEPT ![i] = x]
      /\ UNCHANGED <<pos, main, running, required, retryTimer, schema, keyChanged,
                     changes, canceled, faults>>
  BY <1>1 DEF Reached, PushRows, mainVars, managerVars, upstreamVars
<1>4. Fresh(x, keyChanged)
  BY <1>1, <1>2 DEF Fresh, Job, Live
<1>5. /\ routine[i].state \in Live /\ x.state \in Live /\ x.canceled = routine[i].canceled
      /\ x.table = routine[i].table /\ x.columns = routine[i].columns /\ x.tx = routine[i].tx
  BY <1>1, <1>2 DEF Live, Job
<1> HIDE DEF x
<1> QED
  BY <1>3, <1>4, <1>5, MoveDemands

\* The backfill that completes is the running one, unless the stream is cancelled.
LEMMA PushCompletedDemands ==
    ASSUME StreamInvariant, Dates, Demands, NEW i \in Routines, PushCompleted(i)
    PROVE  Demands'
<1> DEFINE x == [routine[i] EXCEPT !.state = "ending"]
<1>1. /\ routine' = [routine EXCEPT ![i] = x] /\ running' = "none"
      /\ required' = [required EXCEPT ![routine[i].table] = @ \ (routine[i].columns \cup {Key})]
      /\ UNCHANGED <<pos, main, retryTimer, schema, keyChanged, changes, canceled, faults>>
      /\ routine[i].state = "flush" /\ routine[i].tx # Null
      /\ routine[i].msg = "backfill-completed"
  BY DEF PushCompleted, mainVars, upstreamVars
<1>2. /\ routine \in [Routines -> Job] /\ routine[i] \in Job
      /\ \A j \in Routines : Fresh(routine[j], keyChanged)
      /\ required \in [Tables -> SUBSET AllColumns]
  BY DemandsTypes
<1>3. Fresh(x, keyChanged)
  BY <1>1, <1>2 DEF Fresh, Job, Live
<1>4. x.state = "ending" /\ "ending" \notin Live
  BY <1>2 DEF Job, Live
<1> HIDE DEF x
<1>5. \A j \in Routines : Fresh(routine'[j], keyChanged)
  BY <1>1, <1>2, <1>3
<1>6. ASSUME ~canceled
      PROVE  Charged(routine', "none", required')
  <2>1. Charged(routine, running, required)
    BY <1>6 DEF Demands
  <2>2. ~routine[i].canceled /\ running = i
    BY <1>1, <2>1 DEF Charged, Live
  <2>3. \A j \in Routines : ~(routine'[j].state \in Live /\ ~routine'[j].canceled)
    BY <1>1, <1>2, <1>4, <2>1, <2>2 DEF Charged
  <2>4. \A j \in Routines : routine'[j].tx # Null /\ routine'[j].state # "ending" =>
                               ~routine'[j].canceled
    BY <1>1, <1>2, <1>4, <2>1 DEF Charged
  <2> QED
    BY <2>3, <2>4 DEF Charged
<1>7. \A t \in Tables : required'[t] \subseteq required[t]
  BY <1>1, <1>2
<1>8. Kinds'
  BY <1>1 DEF Kinds, Demands
<1> QED
  BY <1>1, <1>5, <1>6, <1>7, <1>8, DemandsKept

LEMMA FailDemands ==
    ASSUME StreamInvariant, Dates, Demands, NEW i \in Routines, OpenFails(i) \/ StreamFails(i)
    PROVE  Demands'
<1>1. /\ routine' = [routine EXCEPT ![i] = Off] /\ running' = RunningAfterStop(i)
      /\ retryTimer' = "set" /\ faults' = faults + 1 /\ faults < MaxFaults
      /\ UNCHANGED <<pos, main, required, schema, keyChanged, changes, canceled>>
  BY DEF OpenFails, StreamFails, Fails, Fault, mainVars, upstreamVars
<1>2. /\ routine \in [Routines -> Job] /\ running \in {"none"} \cup Routines
      /\ \A j \in Routines : Fresh(routine[j], keyChanged)
  BY DemandsTypes
<1>3. \A j \in Routines : Fresh(routine'[j], keyChanged)
  BY <1>1, <1>2, FreshOff
<1>4. ~canceled => Charged([routine EXCEPT ![i] = Off], running', required)
  <2>1. running' = IF running = i THEN "none" ELSE running
    BY <1>1 DEF RunningAfterStop
  <2> QED
    BY <1>2, <2>1, ChargedEnds DEF Demands
<1>5. Kinds'
  BY <1>1, BoundsAssumption DEF Kinds, Demands
<1> QED
  BY <1>1, <1>3, <1>4, <1>5, DemandsKept

LEMMA RetryDemands ==
    ASSUME StreamInvariant, Dates, Demands, RetryTimeout
    PROVE  Demands'
<1>1. /\ CheckAndStartBackfill("unset", running, required, routine) /\ retryTimer' = "unset"
      /\ UNCHANGED <<pos, main, required, schema, keyChanged, changes, canceled, faults>>
  BY DEF RetryTimeout, mainVars, upstreamVars
<1>2. /\ routine \in [Routines -> Job] /\ running \in {"none"} \cup Routines
      /\ required \in [Tables -> SUBSET AllColumns]
      /\ \A j \in Routines : Fresh(routine[j], keyChanged)
  BY DemandsTypes
<1>3. \A j \in Routines : Begins(routine[j], routine'[j])
  BY <1>1, <1>2, StartBegins
<1>4. \A j \in Routines : Fresh(routine'[j], keyChanged)
  BY <1>2, <1>3, FreshOthers
<1>5. ~canceled => Charged(routine', running', required)
  BY <1>1, <1>2, ChargedStart DEF Demands
<1>6. Kinds'
  BY <1>1 DEF Kinds, Demands
<1> QED
  BY <1>1, <1>4, <1>5, <1>6, DemandsKept

\* Those that are told to stop.
LEMMA FreshStopped ==
    ASSUME StreamInvariant, Dates, Demands
    PROVE  \A i \in Routines : /\ Fresh(Stopped[i], keyChanged)
                               /\ Stopped[i].state = routine[i].state
                               /\ Stopped[i].tx = routine[i].tx
                               /\ Stopped[i].canceled = (routine[i].canceled \/ running = i)
<1> TAKE i \in Routines
<1>1. /\ routine \in [Routines -> Job] /\ routine[i] \in Job /\ Fresh(routine[i], keyChanged)
      /\ running \in {"none"} \cup Routines
  BY DemandsTypes
<1>2. CASE running = i
  <2>1. Stopped[i] = [routine[i] EXCEPT !.canceled = TRUE]
    BY <1>1, <1>2, RoutinesAssumption DEF Stopped
  <2> QED
    BY <1>1, <1>2, <2>1 DEF Fresh, Job, Live
<1>3. CASE running # i
  <2>1. Stopped[i] = routine[i]
    BY <1>1, <1>3 DEF Stopped
  <2> QED
    BY <1>1, <1>3, <2>1 DEF Job
<1> QED
  BY <1>2, <1>3

LEMMA CancelDemands ==
    ASSUME StreamInvariant, Dates, Demands, Cancel
    PROVE  Demands'
<1>1. /\ routine' = Stopped /\ canceled' = TRUE /\ retryTimer' \in {retryTimer, "cleared"}
      /\ faults' = faults + 1 /\ faults < MaxFaults
      /\ UNCHANGED <<pos, main, required, schema, keyChanged, changes>>
  BY DEF Cancel, Fault, mainVars, upstreamVars
<1>2. \A i \in Routines : Fresh(routine'[i], keyChanged)
  BY <1>1, FreshStopped
<1>3. Kinds'
  BY <1>1, BoundsAssumption DEF Kinds, Demands
<1> QED
  BY <1>1, <1>2, <1>3 DEF Demands


-----------------------------------------------------------------------------
(* Changes of the schema and of keys, and what is required. *)

\* In a replicated transaction no backfill has one, and the running backfill is
\* required.
LEMMA InChange ==
    ASSUME StreamInvariant, Dates, Demands, Changing
    PROVE  /\ ~canceled /\ Charged(routine, running, required)
           /\ \A i \in Routines : routine[i].tx = Null
           /\ routine \in [Routines -> Job] /\ running \in {"none"} \cup Routines
           /\ required \in [Tables -> SUBSET AllColumns]
           /\ schema \in [Tables -> SUBSET AllColumns]
           /\ \A t \in Tables : required[t] \subseteq schema[t]
           /\ running # "none" => running \in Routines /\ Runs(routine[running], required)
BY DemandsTypes
DEF Changing, Demands, StreamInvariant, Locked, Lock, OneHolds, Holding, MainHolds, Charged

LEMMA ChangeKinds ==
    ASSUME Demands, Changing
    PROVE  Kinds' /\ pos' = pos /\ canceled' = canceled
BY BoundsAssumption DEF Demands, Kinds, Changing, mainVars

LEMMA SchemaDemands ==
    ASSUME StreamInvariant, Dates, Demands, Changing, keyChanged' = keyChanged,
           schema' \in [Tables -> SUBSET AllColumns],
           \A t \in Tables : required'[t] \subseteq schema'[t],
           \/ running' = "none" /\ routine' = Stopped
           \/ /\ running' = running /\ routine' = routine
              /\ running # "none" =>
                    routine[running].columns \subseteq required'[routine[running].table]
    PROVE  Demands'
<1>1. /\ ~canceled /\ Charged(routine, running, required)
      /\ \A i \in Routines : routine[i].tx = Null
      /\ running # "none" => running \in Routines /\ Runs(routine[running], required)
  BY InChange
<1>2. Kinds' /\ pos' = pos /\ canceled' = canceled
  BY ChangeKinds
<1>3. CASE running' = "none" /\ routine' = Stopped
  <2>1. \A i \in Routines : /\ Fresh(routine'[i], keyChanged)
                            /\ routine'[i].state = routine[i].state
                            /\ routine'[i].tx = Null
                            /\ routine'[i].canceled = (routine[i].canceled \/ running = i)
    BY <1>1, <1>3, FreshStopped
  <2>2. Charged(routine', running', required')
    BY <1>1, <1>3, <2>1 DEF Charged
  <2> QED
    BY <1>2, <2>1, <2>2 DEF Demands
<1>4. CASE /\ running' = running /\ routine' = routine
           /\ running # "none" =>
                 routine[running].columns \subseteq required'[routine[running].table]
  <2>1. running # "none" => Runs(routine[running], required')
    BY <1>1, <1>4 DEF Runs
  <2>2. Charged(routine', running', required')
    BY <1>1, <1>4, <2>1 DEF Charged
  <2> QED
    BY <1>2, <1>4, <2>2 DEF Demands
<1> QED
  BY <1>3, <1>4

\* The running backfill is stopped, or it was not about this.
LEMMA StopCases ==
    ASSUME NEW condition, StopIf(condition)
    PROVE  \/ condition /\ running' = "none" /\ routine' = Stopped
           \/ ~condition /\ running' = running /\ routine' = routine
BY DEF StopIf

LEMMA TableDemands ==
    ASSUME StreamInvariant, Dates, Demands, NEW t \in Tables,
           \/ CreateTable(t) \/ DropTable(t) \/ UpdateTableMetadata(t)
           \/ \E u \in Tables : RenameTable(t, u)
    PROVE  Demands'
<1>1. Changing
  BY DEF CreateTable, DropTable, UpdateTableMetadata, RenameTable
<1>2. /\ required \in [Tables -> SUBSET AllColumns] /\ schema \in [Tables -> SUBSET AllColumns]
      /\ \A s \in Tables : required[s] \subseteq schema[s]
      /\ running # "none" => running \in Routines /\ Runs(routine[running], required)
  BY <1>1, InChange
<1>3. running # "none" =>
         LET s == routine[running].table
         IN  s \in Tables /\ required[s] # {} /\ routine[running].columns \subseteq required[s]
  BY <1>2 DEF Runs
<1>4. CASE CreateTable(t)
  <2>1. /\ schema[t] = {} /\ schema' = [schema EXCEPT ![t] = AllColumns]
        /\ required' \in {required, [required EXCEPT ![t] = AllColumns]}
        /\ keyChanged' = keyChanged /\ running' = running /\ routine' = routine
    BY <1>4 DEF CreateTable
  <2>2. running # "none" => routine[running].table # t
    BY <1>2, <1>3, <2>1
  <2>3. \A s \in Tables : required'[s] \subseteq schema'[s] /\ (s # t => required'[s] = required[s])
    BY <1>2, <2>1
  <2>4. schema' \in [Tables -> SUBSET AllColumns]
    BY <1>2, <2>1
  <2>5. running # "none" => routine[running].columns \subseteq required'[routine[running].table]
    BY <1>3, <2>2, <2>3
  <2> QED
    BY <1>1, <2>1, <2>3, <2>4, <2>5, SchemaDemands
<1>5. CASE DropTable(t)
  <2>1. /\ schema' = [schema EXCEPT ![t] = {}] /\ required' = [required EXCEPT ![t] = {}]
        /\ keyChanged' = keyChanged /\ StopIf(required[t] # {} /\ RunningFor(t))
    BY <1>5 DEF DropTable
  <2>2. /\ schema' \in [Tables -> SUBSET AllColumns]
        /\ \A s \in Tables : required'[s] \subseteq schema'[s] /\ (s # t => required'[s] = required[s])
    BY <1>2, <2>1
  <2>3. \/ running' = "none" /\ routine' = Stopped
        \/ /\ running' = running /\ routine' = routine
           /\ running # "none" => routine[running].table # t
    BY <1>3, <2>1, StopCases DEF RunningFor
  <2> QED
    BY <1>1, <1>3, <2>1, <2>2, <2>3, SchemaDemands
<1>6. CASE UpdateTableMetadata(t)
  <2>1. /\ schema' = schema /\ required' = required
        /\ keyChanged' = keyChanged /\ StopIf(required[t] # {} /\ RunningFor(t))
    BY <1>6 DEF UpdateTableMetadata
  <2>2. \/ running' = "none" /\ routine' = Stopped
        \/ running' = running /\ routine' = routine
    BY <2>1, StopCases
  <2> QED
    BY <1>1, <1>2, <1>3, <2>1, <2>2, SchemaDemands
<1>7. CASE \E u \in Tables : RenameTable(t, u)
  <2>1. PICK u \in Tables : RenameTable(t, u)
    BY <1>7
  <2>2. /\ schema[t] # {} /\ schema[u] = {}
        /\ schema' = [schema EXCEPT ![t] = {}, ![u] = schema[t]]
        /\ required' = [required EXCEPT ![t] = {}, ![u] = required[t]]
        /\ keyChanged' = keyChanged /\ StopIf(required[t] # {} /\ RunningFor(t))
    BY <2>1 DEF RenameTable
  <2>3. t # u /\ required[u] = {}
    BY <1>2, <2>2
  <2>4. /\ schema' \in [Tables -> SUBSET AllColumns]
        /\ schema'[u] = schema[t] /\ required'[u] = required[t]
        /\ schema'[t] = {} /\ required'[t] = {}
        /\ \A s \in Tables \ {t, u} : required'[s] = required[s] /\ schema'[s] = schema[s]
    BY <1>2, <2>2, <2>3
  <2>5. \A s \in Tables : required'[s] \subseteq schema'[s]
    BY <1>2, <2>4
  <2>6. running # "none" => routine[running].table # u
    BY <1>3, <2>3
  <2>7. \/ running' = "none" /\ routine' = Stopped
        \/ /\ running' = running /\ routine' = routine
           /\ running # "none" => routine[running].table # t
    BY <1>3, <2>2, StopCases DEF RunningFor
  <2> QED
    BY <1>1, <1>3, <2>2, <2>4, <2>5, <2>6, <2>7, SchemaDemands
<1> QED
  BY <1>4, <1>5, <1>6, <1>7

LEMMA ColumnDemands ==
    ASSUME StreamInvariant, Dates, Demands, NEW t \in Tables, NEW c \in Columns,
           AddColumn(t, c) \/ DropColumn(t, c) \/ \E d \in Columns : RenameColumn(t, c, d)
    PROVE  Demands'
<1>1. Changing
  BY DEF AddColumn, DropColumn, RenameColumn
<1>2. /\ required \in [Tables -> SUBSET AllColumns] /\ schema \in [Tables -> SUBSET AllColumns]
      /\ \A s \in Tables : required[s] \subseteq schema[s]
      /\ running # "none" => running \in Routines /\ Runs(routine[running], required)
      /\ Columns \subseteq AllColumns
  BY <1>1, InChange DEF AllColumns
<1>3. running # "none" =>
         LET s == routine[running].table
         IN  s \in Tables /\ routine[running].columns \subseteq required[s]
  BY <1>2 DEF Runs
<1>4. CASE AddColumn(t, c)
  <2>1. /\ schema' = [schema EXCEPT ![t] = schema[t] \cup {c}]
        /\ required' = [required EXCEPT ![t] = required[t] \cup {c}]
        /\ keyChanged' = keyChanged /\ running' = running /\ routine' = routine
    BY <1>4 DEF AddColumn
  <2>2. /\ schema' \in [Tables -> SUBSET AllColumns]
        /\ \A s \in Tables : required'[s] \subseteq schema'[s] /\ required[s] \subseteq required'[s]
    BY <1>2, <2>1
  <2> QED
    BY <1>1, <1>3, <2>1, <2>2, SchemaDemands
<1>5. CASE DropColumn(t, c)
  <2>1. /\ schema' = [schema EXCEPT ![t] = schema[t] \ {c}]
        /\ required' = [required EXCEPT ![t] = required[t] \ {c}]
        /\ keyChanged' = keyChanged
        /\ StopIf(c \in required[t] /\ RunningFor(t) /\ c \in routine[running].columns)
    BY <1>5 DEF DropColumn
  <2>2. /\ schema' \in [Tables -> SUBSET AllColumns]
        /\ \A s \in Tables : required'[s] \subseteq schema'[s] /\ (s # t => required'[s] = required[s])
        /\ required'[t] = required[t] \ {c}
    BY <1>2, <2>1
  <2>3. \/ running' = "none" /\ routine' = Stopped
        \/ /\ running' = running /\ routine' = routine
           /\ ~(c \in required[t] /\ RunningFor(t) /\ c \in routine[running].columns)
    BY <2>1, StopCases
  <2>4. ASSUME ~(c \in required[t] /\ RunningFor(t) /\ c \in routine[running].columns),
               running # "none"
        PROVE  routine[running].columns \subseteq required'[routine[running].table]
    <3>1. CASE routine[running].table = t
      BY <1>3, <2>2, <2>4, <3>1 DEF RunningFor
    <3>2. CASE routine[running].table # t
      BY <1>3, <2>2, <2>4, <3>2
    <3> QED
      BY <3>1, <3>2
  <2> QED
    BY <1>1, <2>1, <2>2, <2>3, <2>4, SchemaDemands
<1>6. CASE \E d \in Columns : RenameColumn(t, c, d)
  <2>1. PICK d \in Columns : RenameColumn(t, c, d)
    BY <1>6
  <2>2. /\ c \in schema[t] /\ d \notin schema[t]
        /\ schema' = [schema EXCEPT ![t] = (schema[t] \ {c}) \cup {d}]
        /\ required' = IF c \in required[t]
                       THEN [required EXCEPT ![t] = (required[t] \ {c}) \cup {d}] ELSE required
        /\ keyChanged' = keyChanged
        /\ StopIf(c \in required[t] /\ RunningFor(t) /\ c \in routine[running].columns)
    BY <2>1 DEF RenameColumn
  <2>3. /\ schema' \in [Tables -> SUBSET AllColumns]
        /\ \A s \in Tables : s # t => required'[s] = required[s] /\ schema'[s] = schema[s]
        /\ schema'[t] = (schema[t] \ {c}) \cup {d}
        /\ c \in required[t] => required'[t] = (required[t] \ {c}) \cup {d}
        /\ c \notin required[t] => required'[t] = required[t]
    BY <1>2, <2>2
  <2>4. \A s \in Tables : required'[s] \subseteq schema'[s]
    BY <1>2, <2>2, <2>3
  <2>5. \/ running' = "none" /\ routine' = Stopped
        \/ /\ running' = running /\ routine' = routine
           /\ ~(c \in required[t] /\ RunningFor(t) /\ c \in routine[running].columns)
    BY <2>2, StopCases
  <2>6. ASSUME ~(c \in required[t] /\ RunningFor(t) /\ c \in routine[running].columns),
               running # "none"
        PROVE  routine[running].columns \subseteq required'[routine[running].table]
    <3>1. CASE routine[running].table = t
      BY <1>3, <2>3, <2>6, <3>1 DEF RunningFor
    <3>2. CASE routine[running].table # t
      BY <1>3, <2>3, <2>6, <3>2
    <3> QED
      BY <3>1, <3>2
  <2> QED
    BY <1>1, <2>2, <2>3, <2>4, <2>5, <2>6, SchemaDemands
<1> QED
  BY <1>4, <1>5, <1>6

\* The running backfill is told of a key's change, and nobody else may push.
LEMMA KeyDemands ==
    ASSUME StreamInvariant, Dates, Demands, NEW t \in Tables, UpdateKey(t)
    PROVE  Demands'
<1>1. /\ Changing /\ keyChanged' = [keyChanged EXCEPT ![t] = At(pos)]
      /\ routine' = (IF RunningFor(t)
                     THEN [routine EXCEPT ![running].minWatermark = At(pos)] ELSE routine)
      /\ schema' = schema /\ required' = required /\ running' = running
  BY DEF UpdateKey
<1>2. /\ ~canceled /\ Charged(routine, running, required)
      /\ \A i \in Routines : routine[i].tx = Null
      /\ routine \in [Routines -> Job] /\ running \in {"none"} \cup Routines
  BY <1>1, InChange
<1>3. Kinds' /\ pos' = pos /\ canceled' = canceled
  BY <1>1, ChangeKinds
<1>4. At(pos) \in Nat /\ keyChanged \in [Tables -> Nat]
      /\ \A i \in Routines : Fresh(routine[i], keyChanged)
  BY DatesTypes DEF Demands
<1>5. \A i \in Routines :
         /\ routine'[i] = (IF RunningFor(t) /\ running = i
                           THEN [routine[i] EXCEPT !.minWatermark = At(pos)] ELSE routine[i])
         /\ routine[i] \in Job
  BY <1>1, <1>2 DEF RunningFor
<1>6. \A i \in Routines :
         /\ routine'[i].state = routine[i].state /\ routine'[i].canceled = routine[i].canceled
         /\ routine'[i].table = routine[i].table /\ routine'[i].columns = routine[i].columns
         /\ routine'[i].tx = Null
         /\ routine'[i].watermark = routine[i].watermark
         /\ RunningFor(t) /\ running = i => routine'[i].minWatermark = At(pos)
         /\ ~(RunningFor(t) /\ running = i) => routine'[i] = routine[i]
  <2> TAKE i \in Routines
  <2>1. routine[i].tx = Null /\ routine[i] \in Job
    BY <1>2
  <2>2. CASE RunningFor(t) /\ running = i
    <3>1. routine'[i] = [routine[i] EXCEPT !.minWatermark = At(pos)]
      BY <1>5, <2>2
    <3> QED
      BY <2>1, <2>2, <3>1 DEF Job
  <2>3. CASE ~(RunningFor(t) /\ running = i)
    <3>1. routine'[i] = routine[i]
      BY <1>5, <2>3
    <3> QED
      BY <2>1, <2>3, <3>1
  <2> QED
    BY <2>2, <2>3
<1>7. \A i \in Routines : Fresh(routine'[i], keyChanged')
  <2> TAKE i \in Routines
  <2>1. routine[i].state # "off" => routine[i].table \in Tables
    BY <1>4 DEF Fresh
  <2>2. ASSUME routine[i].state \in Live \ {"opening"}, ~routine[i].canceled
        PROVE  \/ keyChanged'[routine[i].table] <= routine[i].watermark
               \/ keyChanged'[routine[i].table] <= routine'[i].minWatermark
    <3>1. running = i /\ i # "none" /\ routine[i].table \in Tables
      BY <1>2, <2>1, <2>2, RoutinesAssumption DEF Charged, Live
    <3>2. CASE routine[i].table = t
      <4>1. routine'[i].minWatermark = At(pos)
        BY <1>6, <3>1, <3>2 DEF RunningFor
      <4>2. keyChanged'[t] = At(pos)
        BY <1>1, <1>4
      <4> QED
        BY <1>4, <3>2, <4>1, <4>2
    <3>3. CASE routine[i].table # t
      <4>1. routine'[i] = routine[i]
        BY <1>6, <3>1, <3>3 DEF RunningFor
      <4>2. keyChanged'[routine[i].table] = keyChanged[routine[i].table]
        BY <1>1, <1>4, <3>1, <3>3
      <4> QED
        BY <1>4, <2>2, <4>1, <4>2 DEF Fresh
    <3> QED
      BY <3>2, <3>3
  <2> QED
    BY <1>6, <2>1, <2>2 DEF Fresh
<1>8. Charged(routine', running, required)
  BY <1>2, <1>6 DEF Charged, Runs
<1>9. /\ keyChanged' \in [Tables -> Nat]
      /\ \A s \in Tables : required[s] \subseteq schema[s] /\ keyChanged'[s] <= At(pos)
  BY <1>1, <1>4 DEF Demands
<1> QED
  BY <1>1, <1>3, <1>7, <1>8, <1>9 DEF Demands

LEMMA ChangeDemands ==
    ASSUME StreamInvariant, Dates, Demands, ChangeStep
    PROVE  Demands'
BY TableDemands, ColumnDemands, KeyDemands DEF ChangeStep

LEMMA InitDemands ==
    ASSUME Init
    PROVE  Demands
<1> DEFINE off == [i \in Routines |-> Off]
           first == CHOOSE i \in Routines : TRUE
<1>1. Kinds
  <2>1. main = "idle" /\ retryTimer = "unset" /\ canceled = FALSE /\ changes = 0 /\ faults = 0
    BY DEF Init
  <2>2. changes \in 0..MaxChanges /\ faults \in 0..MaxFaults
    BY <2>1, BoundsAssumption
  <2>3. canceled \in BOOLEAN
    BY <2>1
  <2> QED
    BY <2>1, <2>2, <2>3 DEF Kinds
<1>2. /\ schema \in [Tables -> SUBSET AllColumns] /\ keyChanged \in [Tables -> Nat]
      /\ required \in [Tables -> SUBSET AllColumns] /\ required = InitialRequests
      /\ \A t \in Tables : required[t] \subseteq schema[t] /\ keyChanged[t] = 0
  BY SchemaAssumption DEF Init, Null
<1>3. pos = 1 /\ At(1) \in Nat
  BY PositionType DEF Init
<1>4. /\ \A i \in Routines : Fresh(off[i], keyChanged) /\ off[i].state \notin Live
                             /\ off[i].tx = Null /\ off[i].state = "off"
      /\ off \in [Routines -> Job]
  BY FreshOff DEF Off, Live, Job, States, Null
<1>5. Charged(off, "none", required)
  BY <1>4 DEF Charged
<1>6. \/ running = "none" /\ routine = off
      \/ \E t \in {t \in Tables : required[t] # {}} :
            running = first /\ routine = [off EXCEPT ![first] = NewRoutine(t, required[t])]
  BY <1>2 DEF Init
<1>7. first \in Routines /\ first # "none"
  BY RoutinesAssumption
<1> HIDE DEF off, first
<1>8. CASE running = "none" /\ routine = off
  BY <1>1, <1>2, <1>3, <1>4, <1>5, <1>8 DEF Demands
<1>9. CASE \E t \in {t \in Tables : required[t] # {}} :
              running = first /\ routine = [off EXCEPT ![first] = NewRoutine(t, required[t])]
  <2>1. PICK t \in {t \in Tables : required[t] # {}} :
           running = first /\ routine = [off EXCEPT ![first] = NewRoutine(t, required[t])]
    BY <1>9
  <2> DEFINE x == NewRoutine(t, required[t])
  <2>2. Runs(x, required) /\ x.tx = Null /\ Fresh(x, keyChanged)
    BY <2>1 DEF Runs, NewRoutine, Off, Live, Fresh
  <2>3. routine[first] = x /\ \A j \in Routines \ {first} : routine[j] = off[j]
    BY <1>4, <1>7, <2>1
  <2> HIDE DEF x
  <2>4. \A i \in Routines : Fresh(routine[i], keyChanged)
    BY <1>4, <2>2, <2>3
  <2>5. Charged(routine, running, required)
    BY <1>4, <1>7, <2>1, <2>2, <2>3 DEF Charged
  <2> QED
    BY <1>1, <1>2, <1>3, <2>4, <2>5 DEF Demands
<1> QED
  BY <1>6, <1>8, <1>9

LEMMA NextDemands ==
    ASSUME StreamInvariant, Dates, Demands, [Next]_vars
    PROVE  Demands'
<1>1. ASSUME NEW i \in Routines, BackfillStep(i) \/ OpenFails(i) \/ StreamFails(i)
      PROVE  Demands'
  BY <1>1, OpenDemands, CommitStepsDemands, ReserveDemands, BeginDemands, GiveUpDemands,
     PushDemands, PushCompletedDemands, FailDemands, Zenon DEF BackfillStep
<1>2. CASE ReplicationStep \/ ChangeStep \/ RetryTimeout \/ Cancel
  BY <1>2, ReplicationDemands, ChangeDemands, RetryDemands, CancelDemands, Zenon
<1>3. CASE UNCHANGED vars
  <2>1. UNCHANGED <<schema, keyChanged, canceled, pos, required, routine, running, main,
                    retryTimer, changes, faults>>
    BY <1>3 DEF vars, mainVars, managerVars, upstreamVars
  <2> QED
    BY <2>1 DEF Demands, Kinds
<1> QED
  BY <1>1, <1>2, <1>3, Zenon DEF Next

\* The running backfill is required, the others have been told, what is required
\* is in the schema, and a key's change is known to whoever has yet to push rows
\* (backfill-manager.ts onChange, #stopRunningBackfill, beginTxFor).
THEOREM DemandsTheorem == Spec => []Demands
<1>1. Init => Demands
  BY InitDemands
<1>2. StreamInvariant /\ Dates /\ Demands /\ [Next]_vars => Demands'
  BY NextDemands
<1> QED
  BY <1>1, <1>2, StreamTheorem, DatesTheorem, PTL DEF Spec

\* Rows are never pushed from a snapshot that predates a change of a row's key
\* which the stream already contains (onChange for updates, beginTxFor).
THEOREM RowsTheorem == Spec => []NoStaleRows
<1>1. Demands => NoStaleRows
  BY DEF Demands, Fresh, NoStaleRows
<1> QED
  BY <1>1, DemandsTheorem, PTL

\* The backfill that runs, and any that pushes, is still required: its table is
\* there and so are its columns (comment on #runningBackfill).
THEOREM RequiredTheorem == Spec => []BackfillIsRequired
<1>1. ASSUME StreamInvariant, Demands, ~canceled, NEW i \in Routines,
             running = i \/ (routine[i].tx # Null /\ routine[i].state # "ending")
      PROVE  /\ required[routine[i].table] # {}
             /\ routine[i].columns \subseteq required[routine[i].table]
  <2>1. Charged(routine, running, required) /\ routine[i] \in Job
    BY <1>1 DEF Demands, StreamInvariant, Locked, Lock
  <2>2. running = i
    <3>1. CASE routine[i].tx # Null /\ routine[i].state # "ending"
      <4>1. routine[i].state \in Live /\ ~routine[i].canceled
        BY <2>1, <3>1 DEF Charged, Job, States, Live
      <4> QED
        BY <2>1, <4>1 DEF Charged
    <3> QED
      BY <1>1, <3>1
  <2>3. Runs(routine[i], required)
    BY <2>1, <2>2, RoutinesAssumption DEF Charged
  <2> QED
    BY <2>3 DEF Runs
<1>2. StreamInvariant /\ Demands => BackfillIsRequired
  BY <1>1 DEF BackfillIsRequired
<1> QED
  BY <1>2, StreamTheorem, DemandsTheorem, PTL

\* Every variable holds a value that the fields of the code can hold.
THEOREM TypeTheorem == Spec => []TypeOK
<1>1. ASSUME StreamInvariant, Dates, Demands
      PROVE  TypeOK
  <2>1. /\ pos \in Nat /\ pos \in 1..MaxLSN /\ published \in Nat /\ lastStatus \in Nat
        /\ lastWatermark \in Nat /\ routine \in [Routines -> Job]
        /\ required \in [Tables -> SUBSET AllColumns] /\ At(pos) \in Nat /\ At(pos + 1) \in Nat
        /\ At(pos) < At(pos + 1)
    BY <1>1, DatesTypes DEF Dates
  <2>2. /\ MaxLSN \in Nat /\ MaxRows \in Nat /\ MaxLSN * Base + Base - 1 \in Nat
        /\ At(MaxLSN + 1) = MaxLSN * Base + Base
        /\ At(pos + 1) <= At(MaxLSN + 1) /\ At(MaxLSN) < At(MaxLSN + 1)
    <3>1. MaxLSN \in Nat /\ MaxRows \in Nat /\ Base \in Nat \ {0} /\ MaxLSN * Base \in Nat
      BY BoundsAssumption
    <3>2. (MaxLSN + 1) * Base = MaxLSN * Base + Base
      BY <3>1
    <3>3. At(pos + 1) <= At(MaxLSN + 1) /\ At(MaxLSN) < At(MaxLSN + 1)
      <4>1. pos + 1 \in Nat /\ MaxLSN + 1 \in Nat /\ pos + 1 <= MaxLSN + 1
        BY <2>1, <3>1
      <4> QED
        BY <3>1, <4>1, PositionOrder
    <3> QED
      BY <3>1, <3>2, <3>3 DEF At
  <2>3. \A w \in Nat : w < At(MaxLSN + 1) => w \in Watermark
    <3> TAKE w \in Nat
    <3> HAVE w < At(MaxLSN + 1)
    <3>1. PICK last \in Nat : last = MaxLSN * Base
      BY BoundsAssumption
    <3>2. Base \in Nat /\ w < last + Base
      BY <2>2, <3>1, BoundsAssumption
    <3>3. w \in 0 .. (last + Base - 1)
      BY <3>1, <3>2
    <3> QED
      BY <3>1, <3>3 DEF Watermark
  <2>4. \A w \in Nat : w < At(pos + 1) => w \in Watermark
    <3> TAKE w \in Nat
    <3> HAVE w < At(pos + 1)
    <3>1. At(MaxLSN + 1) \in Nat
      BY <2>2, PositionType
    <3>2. w < At(MaxLSN + 1)
      BY <2>1, <2>2, <3>1
    <3> QED
      BY <2>3, <3>2
  <2>5. \A w \in Snapshots : w \in Watermark
    <3> SUFFICES ASSUME NEW lsn \in 0..MaxLSN
                 PROVE  At(lsn) \in Watermark
      BY DEF Snapshots
    <3>1. lsn \in Nat /\ lsn <= MaxLSN /\ At(lsn) \in Nat /\ At(lsn) <= At(MaxLSN)
      BY <2>2, PositionType, PositionOrder
    <3>2. At(MaxLSN) \in Nat /\ At(MaxLSN + 1) \in Nat
      BY <2>2, PositionType
    <3>3. At(lsn) < At(MaxLSN + 1)
      BY <2>2, <3>1, <3>2
    <3> QED
      BY <2>3, <3>1, <3>3
  <2>6. /\ published \in Watermark /\ lastStatus \in Watermark /\ open \in Watermark
        /\ lastWatermark \in Watermark
    <3>1. 0 \in Watermark
      BY <2>2 DEF Watermark
    <3> QED
      BY <1>1, <2>1, <2>4, <3>1 DEF Dates, Null
  <2>7. keyChanged \in [Tables -> Watermark]
    <3> SUFFICES ASSUME NEW t \in Tables
                 PROVE  keyChanged[t] \in Watermark
      BY <1>1 DEF Demands
    <3>1. keyChanged[t] \in Nat /\ keyChanged[t] <= At(pos)
      BY <1>1 DEF Demands
    <3> QED
      BY <2>1, <2>4, <3>1
  <2>8. routine \in [Routines -> Routine]
    <3> SUFFICES ASSUME NEW i \in Routines
                 PROVE  routine[i] \in Routine
      BY <2>1
    <3>1. routine[i] \in Job /\ Dated(routine[i], published, pos, lastStatus)
      BY <1>1, <2>1 DEF Dates
    <3>2. routine[i].minWatermark \in Watermark /\ routine[i].watermark \in Watermark
      BY <2>1, <2>4, <2>5, <3>1 DEF Dated, Job
    <3>3. routine[i].granted \in Watermark /\ routine[i].tx \in Watermark
      <4>1. 0 \in Watermark
        BY <2>2 DEF Watermark
      <4> QED
        BY <2>4, <2>6, <3>1, <4>1 DEF Dated, Job, Null
    <3>4. routine[i].rows \in 0 .. MaxRows
      BY <2>2, <3>1 DEF Dated, Job
    <3> QED
      BY <3>1, <3>2, <3>3, <3>4 DEF Job, Routine, States
  <2> QED
    BY <1>1, <2>1, <2>6, <2>7, <2>8
    DEF TypeOK, Demands, Kinds, StreamInvariant, Locked, Lock, Queued, Producers, Context
<1> QED
  BY <1>1, StreamTheorem, DatesTheorem, DemandsTheorem, PTL

=============================================================================
