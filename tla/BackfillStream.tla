--------------------------- MODULE BackfillStream ---------------------------
(***************************************************************************)
(* How backfills share the change stream with the replication stream.      *)
(*                                                                         *)
(* When a table or column is published, its existing rows are copied from  *)
(* an upstream snapshot while replication goes on.  The BackfillManager    *)
(* runs one backfill at a time, as an asynchronous routine that pushes its *)
(* rows in transactions of its own.  The ChangeStreamMultiplexer hands the *)
(* right to push from one producer to the next.  Between two awaits of a   *)
(* routine the replication stream may drop or rename what is backfilled,   *)
(* or change the key of a row; a routine that was cancelled learns of it   *)
(* only at its next transaction, when its successor may already run.       *)
(*                                                                         *)
(* A position of the upstream log (LSN) is a number; a watermark is a pair *)
(* of an LSN and a minor number, encoded as one number (stateVersion).     *)
(***************************************************************************)
EXTENDS Naturals, Sequences

CONSTANTS Tables,       \* names of tables
          Columns,      \* names of columns other than the key
          Key,          \* the key column of every table
          InitialSchema,    \* the columns of each table; {} if there is none
          InitialRequests,  \* the columns that still have to be backfilled
          MaxLSN,       \* the last upstream position explored
          Base,         \* minor versions are below Base
          Routines,     \* backfill routines that can exist at one time
          MaxRows,      \* batches of rows of a backfill
          MaxChanges,   \* schema and key changes upstream
          Faults,       \* the faults that may happen
          MaxFaults     \* how many of them

AllColumns == Columns \cup {Key}

ASSUME SchemaAssumption ==
    /\ Key \notin Columns
    /\ InitialSchema \in [Tables -> {{}} \cup {cs \in SUBSET AllColumns : Key \in cs}]
    /\ InitialRequests \in [Tables -> SUBSET AllColumns]
    /\ \A t \in Tables : InitialRequests[t] \subseteq InitialSchema[t]
ASSUME BoundsAssumption ==
    /\ MaxLSN \in Nat \ {0}
    /\ Base \in Nat \ {0}
    /\ MaxRows \in Nat
    /\ MaxChanges \in Nat
    /\ MaxFaults \in Nat
ASSUME RoutinesAssumption ==
    Routines # {} /\ "main" \notin Routines /\ "none" \notin Routines
ASSUME FaultsAssumption == Faults \subseteq {"open", "stream", "cancel"}

VARIABLES
    schema,         \* the published columns of each table, as replicated
    pos,            \* last LSN the replication stream has read
    main,           \* state of the loop that reads the replication stream
    lastWatermark,  \* the multiplexer's #lastWatermark, or Null
    waiters,        \* the multiplexer's #waiters
    required,       \* #requiredBackfills: columns to backfill in each table
    running,        \* #runningBackfill, or "none"
    lastStatus,     \* #lastStatusWatermark
    retryTimer,     \* #backfillRetryTimer; "cleared" when it will never fire
    routine,        \* the backfill routines
    published,      \* watermark of the last commit in the change stream
    open,           \* watermark of the transaction open in it, or Null
    keyChanged,     \* last key change of a row of each table
    canceled,       \* whether the change stream has been cancelled
    changes,        \* schema and key changes so far
    faults          \* faults so far

mainVars == <<pos, main>>
muxVars == <<lastWatermark, waiters>>
managerVars == <<required, running, lastStatus, retryTimer>>
streamVars == <<published, open>>
upstreamVars == <<schema, keyChanged, changes>>
vars == <<mainVars, muxVars, managerVars, streamVars, upstreamVars, routine, canceled, faults>>

Null == 0

At(lsn) == lsn * Base

Off == [state |-> "off", table |-> "none", columns |-> {}, canceled |-> FALSE,
        minWatermark |-> Null, watermark |-> Null, msg |-> "none", granted |-> Null,
        tx |-> Null, rows |-> 0]

Fault(f) == f \in Faults /\ faults < MaxFaults /\ faults' = faults + 1

----------------------------------------------------------------------------
(* BackfillManager: starting and stopping. *)

NewRoutine(t, cols) == [Off EXCEPT !.state = "opening", !.table = t, !.columns = cols]

Free(rts) == {i \in Routines : rts[i].state = "off"}

\* #checkAndStartBackfill, with the retry timer, the running backfill, the
\* required ones and the routines as they stand when it is called.
CheckAndStartBackfill(timer, run, req, rts) ==
    LET candidates == {t \in Tables : req[t] # {}}
    IN  IF timer = "unset" /\ run = "none" /\ candidates # {}
        THEN \E t \in candidates :
                LET i == CHOOSE i \in Free(rts) : TRUE
                IN  /\ Free(rts) # {}
                    /\ running' = i
                    /\ routine' = [rts EXCEPT ![i] = NewRoutine(t, req[t])]
        ELSE running' = run /\ routine' = rts

\* Mutant: stopping forgets the running backfill but does not tell it.
Stopped_Untold == routine

\* #stopRunningBackfill with a reason: the routine is told.
Stopped ==
    IF running = "none" THEN routine ELSE [routine EXCEPT ![running].canceled = TRUE]

RunningAfterStop(i) == IF running = i THEN "none" ELSE running

\* #setLastStatusWatermark only moves forward.
LastStatus(w) == IF lastStatus < w THEN w ELSE lastStatus

----------------------------------------------------------------------------
(* ChangeStreamMultiplexer. *)

\* reserve: immediate if nobody holds the stream.
Reservable == lastWatermark # Null

Waiting == waiters # <<>>

\* Mutant: the stream is free although it is handed to a waiter.
Release_AlsoFree(w) ==
    /\ lastWatermark' = w
    /\ waiters' = IF Waiting THEN Tail(waiters) ELSE waiters

\* release: to the producer that has waited longest, or to nobody.
Release(w) ==
    /\ lastWatermark' = IF Waiting THEN Null ELSE w
    /\ waiters' = IF Waiting THEN Tail(waiters) ELSE waiters

Granted(rts, w) ==
    IF Waiting /\ Head(waiters) # "main"
    THEN [rts EXCEPT ![Head(waiters)].state = "granted", ![Head(waiters)].granted = w]
    ELSE rts

MainGranted == IF Waiting /\ Head(waiters) = "main" THEN "granted" ELSE main

----------------------------------------------------------------------------
(* The replication stream. *)

Init ==
    /\ schema = InitialSchema
    /\ pos = 1
    /\ main = "idle"
    /\ lastWatermark = At(1)
    /\ waiters = <<>>
    /\ required = InitialRequests
    /\ lastStatus = At(1)
    /\ retryTimer = "unset"
    /\ LET started == {t \in Tables : InitialRequests[t] # {}}
           off == [i \in Routines |-> Off]
           i == CHOOSE i \in Routines : TRUE
       IN  IF started = {} THEN running = "none" /\ routine = off
           ELSE \E t \in started :
                    /\ running = i
                    /\ routine = [off EXCEPT ![i] = NewRoutine(t, InitialRequests[t])]
    /\ published = At(1)
    /\ open = Null
    /\ keyChanged = [t \in Tables |-> Null]
    /\ canceled = FALSE
    /\ changes = 0
    /\ faults = 0

\* A keepalive: a status for the manager, and the end of a reservation that
\* was kept after the last transaction.  While it is kept, the last commit in
\* the stream is that transaction's (reservation.lastWatermark).
MainKeepalive ==
    /\ ~canceled
    /\ main \in {"idle", "held"}
    /\ pos < MaxLSN
    /\ pos' = pos + 1
    /\ lastStatus' = LastStatus(At(pos + 1))
    /\ IF main = "held"
       THEN /\ main' = "idle"
            /\ Release(published)
            /\ routine' = Granted(routine, published)
       ELSE UNCHANGED <<main, muxVars, routine>>
    /\ UNCHANGED <<required, running, retryTimer, streamVars, upstreamVars,
                   canceled, faults>>

\* The first message of a transaction: the stream is reserved ...
MainReserve ==
    /\ ~canceled
    /\ main = "idle"
    /\ pos < MaxLSN
    /\ IF Reservable
       THEN main' = "granted" /\ lastWatermark' = Null /\ UNCHANGED waiters
       ELSE main' = "waiting" /\ waiters' = Append(waiters, "main") /\ UNCHANGED lastWatermark
    /\ UNCHANGED <<pos, managerVars, streamVars, upstreamVars, routine,
                   canceled, faults>>

\* ... and the begin is pushed.
MainBegin ==
    /\ ~canceled
    /\ main \in {"granted", "held"}
    /\ pos < MaxLSN
    /\ pos' = pos + 1
    /\ main' = "tx"
    /\ open' = At(pos + 1)
    /\ UNCHANGED <<muxVars, managerVars, published, upstreamVars, routine,
                   canceled, faults>>

\* A keepalive inside a transaction is at the transaction's watermark.
MainKeepaliveInTx ==
    /\ ~canceled
    /\ main = "tx"
    /\ lastStatus' = LastStatus(At(pos))
    /\ UNCHANGED <<mainVars, muxVars, required, running, retryTimer, streamVars,
                   upstreamVars, routine, canceled, faults>>

\* onChange(commit) starts the next backfill if none is running.
MainCommit ==
    /\ ~canceled
    /\ main = "tx"
    /\ main' = "held"
    /\ published' = At(pos)
    /\ open' = Null
    /\ lastStatus' = LastStatus(At(pos))
    /\ CheckAndStartBackfill(retryTimer, running, required, routine)
    /\ UNCHANGED <<pos, muxVars, required, retryTimer, upstreamVars, canceled, faults>>

\* No message is queued behind the transaction, or a producer has waited.
MainRelease ==
    /\ ~canceled
    /\ main = "held"
    /\ main' = "idle"
    /\ Release(published)
    /\ routine' = Granted(routine, published)
    /\ UNCHANGED <<pos, managerVars, streamVars, upstreamVars, canceled, faults>>

----------------------------------------------------------------------------
(* onChange for the changes of a replicated transaction. *)

Changing ==
    /\ ~canceled
    /\ main = "tx"
    /\ changes < MaxChanges
    /\ changes' = changes + 1
    /\ UNCHANGED <<mainVars, muxVars, lastStatus, retryTimer, streamVars, canceled, faults>>

\* #backfillRunningFor
RunningFor(t) == running # "none" /\ routine[running].table = t

\* The running backfill is stopped under a condition.
StopIf(condition) ==
    IF condition
    THEN running' = "none" /\ routine' = Stopped
    ELSE UNCHANGED <<running, routine>>

\* create-table, with backfill unless the table is empty
CreateTable(t) ==
    /\ Changing
    /\ schema[t] = {}
    /\ schema' = [schema EXCEPT ![t] = AllColumns]
    /\ required' \in {required, [required EXCEPT ![t] = AllColumns]}
    /\ UNCHANGED <<keyChanged, running, routine>>

DropTable(t) ==
    /\ Changing
    /\ schema[t] # {}
    /\ schema' = [schema EXCEPT ![t] = {}]
    /\ required' = [required EXCEPT ![t] = {}]
    /\ StopIf(required[t] # {} /\ RunningFor(t))
    /\ UNCHANGED keyChanged

RenameTable(t, u) ==
    /\ Changing
    /\ schema[t] # {}
    /\ schema[u] = {}
    /\ schema' = [schema EXCEPT ![t] = {}, ![u] = schema[t]]
    /\ required' = [required EXCEPT ![t] = {}, ![u] = required[t]]
    /\ StopIf(required[t] # {} /\ RunningFor(t))
    /\ UNCHANGED keyChanged

UpdateTableMetadata(t) ==
    /\ Changing
    /\ schema[t] # {}
    /\ StopIf(required[t] # {} /\ RunningFor(t))
    /\ UNCHANGED <<schema, required, keyChanged>>

\* add-column, with backfill: the running backfill goes on.
AddColumn(t, c) ==
    /\ Changing
    /\ schema[t] # {}
    /\ c \notin schema[t]
    /\ schema' = [schema EXCEPT ![t] = @ \cup {c}]
    /\ required' = [required EXCEPT ![t] = @ \cup {c}]
    /\ UNCHANGED <<keyChanged, running, routine>>

\* Mutant: the backfill of a renamed column goes on under the old name.
RenameColumn_GoesOn(t, c, d) ==
    /\ Changing
    /\ c \in schema[t]
    /\ d \notin schema[t]
    /\ schema' = [schema EXCEPT ![t] = (@ \ {c}) \cup {d}]
    /\ required' = IF c \in required[t]
                   THEN [required EXCEPT ![t] = (@ \ {c}) \cup {d}] ELSE required
    /\ UNCHANGED <<keyChanged, running, routine>>

RenameColumn(t, c, d) ==
    /\ Changing
    /\ c \in schema[t]
    /\ d \notin schema[t]
    /\ schema' = [schema EXCEPT ![t] = (@ \ {c}) \cup {d}]
    /\ required' = IF c \in required[t]
                   THEN [required EXCEPT ![t] = (@ \ {c}) \cup {d}] ELSE required
    /\ StopIf(c \in required[t] /\ RunningFor(t) /\ c \in routine[running].columns)
    /\ UNCHANGED keyChanged

DropColumn(t, c) ==
    /\ Changing
    /\ c \in schema[t]
    /\ schema' = [schema EXCEPT ![t] = @ \ {c}]
    /\ required' = [required EXCEPT ![t] = @ \ {c}]
    /\ StopIf(c \in required[t] /\ RunningFor(t) /\ c \in routine[running].columns)
    /\ UNCHANGED keyChanged

\* Mutant: the backfill must not predate the transaction after the update.
UpdateKey_NextTx(t) ==
    /\ Changing
    /\ schema[t] # {}
    /\ keyChanged' = [keyChanged EXCEPT ![t] = At(pos)]
    /\ routine' = IF RunningFor(t)
                  THEN [routine EXCEPT ![running].minWatermark = At(pos + 1)] ELSE routine
    /\ UNCHANGED <<schema, required, running>>

\* update of a row's key: a running backfill must not predate it.
UpdateKey(t) ==
    /\ Changing
    /\ schema[t] # {}
    /\ keyChanged' = [keyChanged EXCEPT ![t] = At(pos)]
    /\ routine' = IF RunningFor(t)
                  THEN [routine EXCEPT ![running].minWatermark = At(pos)] ELSE routine
    /\ UNCHANGED <<schema, required, running>>

----------------------------------------------------------------------------
(* #runBackfill *)

\* External: the upstream takes a snapshot, which may be ahead of what the
\* replication stream has read, and checks the request against its schema.
Open(i) ==
    /\ routine[i].state = "opening"
    /\ \E lsn \in pos .. MaxLSN :
          routine' = [routine EXCEPT ![i].state = "streaming", ![i].watermark = At(lsn)]
    /\ UNCHANGED <<mainVars, muxVars, managerVars, streamVars, upstreamVars, canceled, faults>>

\* commitTx, if a transaction is open and the condition holds: the commit is
\* pushed, which may start the next backfill, and the stream is released.
CommitTxIf(condition, i, new) ==
    IF condition /\ routine[i].tx # Null
    THEN LET tx == routine[i].tx
         IN  /\ published' = tx
             /\ open' = Null
             /\ lastStatus' = LastStatus(tx)
             /\ CheckAndStartBackfill(retryTimer, running, required,
                    Granted([routine EXCEPT ![i] = [new EXCEPT !.tx = Null]], tx))
             /\ Release(tx)
             /\ main' = MainGranted
    ELSE /\ routine' = [routine EXCEPT ![i] = new]
         /\ UNCHANGED <<streamVars, lastStatus, running, muxVars, main>>

\* A batch of rows: yield to whoever waits for the stream first.
NextRows(i) ==
    /\ routine[i].state = "streaming"
    /\ routine[i].rows < MaxRows
    /\ CommitTxIf(Waiting, i,
          [routine[i] EXCEPT !.state = "flush", !.msg = "backfill", !.rows = @ + 1])
    /\ UNCHANGED <<pos, required, retryTimer, upstreamVars, canceled, faults>>

\* #changeStreamReached
ChangeStreamReached(i) == routine[i].watermark <= lastStatus

\* Mutant: the backfill completes before replication has reached it.
NextCompleted_AtOnce(i) ==
    /\ routine[i].state = "streaming"
    /\ CommitTxIf(Waiting, i,
          [routine[i] EXCEPT !.state = "flush", !.msg = "backfill-completed"])
    /\ UNCHANGED <<pos, required, retryTimer, upstreamVars, canceled, faults>>

\* The last message: it waits for the replication stream, and goes into a
\* transaction that is not before the rows.
NextCompleted(i) ==
    /\ routine[i].state = "streaming"
    /\ LET reached == ChangeStreamReached(i)
           mustWait == ~reached \/ routine[i].tx < routine[i].watermark
       IN  CommitTxIf(Waiting \/ mustWait, i,
              [routine[i] EXCEPT !.state = IF reached THEN "flush" ELSE "reaching",
                                 !.msg = "backfill-completed"])
    /\ UNCHANGED <<pos, required, retryTimer, upstreamVars, canceled, faults>>

Reached(i) ==
    /\ routine[i].state = "reaching"
    /\ ChangeStreamReached(i)
    /\ routine' = [routine EXCEPT ![i].state = "flush"]
    /\ UNCHANGED <<mainVars, muxVars, managerVars, streamVars, upstreamVars, canceled, faults>>

\* beginTxFor: the stream is reserved ...
ReserveForTx(i) ==
    /\ routine[i].state = "flush"
    /\ routine[i].tx = Null
    /\ IF Reservable
       THEN /\ routine' = [routine EXCEPT ![i].state = "granted", ![i].granted = lastWatermark]
            /\ lastWatermark' = Null
            /\ UNCHANGED waiters
       ELSE /\ routine' = [routine EXCEPT ![i].state = "waiting"]
            /\ waiters' = Append(waiters, i)
            /\ UNCHANGED lastWatermark
    /\ UNCHANGED <<mainVars, managerVars, streamVars, upstreamVars, canceled, faults>>

\* Mutant: a row key change does not invalidate the backfill.
Invalidated_IgnoringKeys(x) == x.canceled

\* What happened to the backfill while it waited for the reservation.
Invalidated(x) ==
    x.canceled \/ (x.msg = "backfill" /\ x.watermark < x.minWatermark)

\* Mutant: the transaction takes the next major version.
TxWatermark_NextMajor(x) == x.granted + Base

\* The next minor version, or the watermark of the backfill it completes.
TxWatermark(x) ==
    IF x.msg = "backfill-completed" /\ x.granted + 1 < x.watermark
    THEN x.watermark ELSE x.granted + 1

\* A bound: no more minor versions follow an LSN than Base has room for.
MinorLeft(w) == \A lsn \in 1 .. MaxLSN + 1 : w + 1 # At(lsn)

\* ... and the begin is pushed,
BeginTx(i) ==
    /\ routine[i].state = "granted"
    /\ ~Invalidated(routine[i])
    /\ MinorLeft(routine[i].granted)
    /\ open' = TxWatermark(routine[i])
    /\ routine' = [routine EXCEPT ![i].state = "flush", ![i].tx = TxWatermark(routine[i]),
                                  ![i].granted = Null]
    /\ UNCHANGED <<mainVars, muxVars, managerVars, published, upstreamVars, canceled, faults>>

\* Mutant: the reservation is kept when the backfill is given up.
GiveUp_KeepsReservation(i) ==
    /\ routine[i].state = "granted"
    /\ Invalidated(routine[i])
    /\ CheckAndStartBackfill(retryTimer, RunningAfterStop(i), required,
                             [routine EXCEPT ![i] = Off])
    /\ UNCHANGED <<mainVars, muxVars, required, lastStatus, retryTimer, streamVars,
                   upstreamVars, canceled, faults>>

\* or given up, for the next backfill to start.
GiveUp(i) ==
    /\ routine[i].state = "granted"
    /\ Invalidated(routine[i])
    /\ Release(routine[i].granted)
    /\ main' = MainGranted
    /\ CheckAndStartBackfill(retryTimer, RunningAfterStop(i), required,
          Granted([routine EXCEPT ![i] = Off], routine[i].granted))
    /\ UNCHANGED <<pos, required, lastStatus, retryTimer, streamVars,
                   upstreamVars, canceled, faults>>

PushRows(i) ==
    /\ routine[i].state = "flush"
    /\ routine[i].tx # Null
    /\ routine[i].msg = "backfill"
    /\ routine' = [routine EXCEPT ![i].state = "streaming"]
    /\ UNCHANGED <<mainVars, muxVars, managerVars, streamVars, upstreamVars, canceled, faults>>

\* onChange(backfill-completed): columns added meanwhile stay required, and
\* no backfill is running any more.
PushCompleted(i) ==
    /\ routine[i].state = "flush"
    /\ routine[i].tx # Null
    /\ routine[i].msg = "backfill-completed"
    /\ routine' = [routine EXCEPT ![i].state = "ending"]
    /\ required' = [required EXCEPT ![routine[i].table] = @ \ (routine[i].columns \cup {Key})]
    /\ running' = "none"
    /\ UNCHANGED <<mainVars, muxVars, lastStatus, retryTimer, streamVars, upstreamVars,
                   canceled, faults>>

\* The backfill stream has ended: its last transaction is committed.
EndBackfill(i) ==
    /\ routine[i].state = "ending"
    /\ CommitTxIf(TRUE, i, Off)
    /\ UNCHANGED <<pos, required, retryTimer, upstreamVars, canceled, faults>>

\* The catch of #checkAndStartBackfill: retry after a timeout.  Nothing is
\* done about a transaction that the routine had begun.
Fails(i) ==
    /\ running' = RunningAfterStop(i)
    /\ retryTimer' = "set"
    /\ routine' = [routine EXCEPT ![i] = Off]
    /\ UNCHANGED <<mainVars, muxVars, required, lastStatus, streamVars, upstreamVars, canceled>>

\* The snapshot cannot be taken, or does not have the requested schema.
OpenFails(i) ==
    /\ Fault("open")
    /\ routine[i].state = "opening"
    /\ Fails(i)

\* The connection that copies the rows fails.
StreamFails(i) ==
    /\ Fault("stream")
    /\ routine[i].state = "streaming"
    /\ Fails(i)

\* Mutant: the timeout leaves the retry to the next commit.
RetryTimeout_OnCommit ==
    /\ retryTimer = "set"
    /\ retryTimer' = "unset"
    /\ UNCHANGED <<mainVars, muxVars, required, running, lastStatus, streamVars,
                   upstreamVars, routine, canceled, faults>>

RetryTimeout ==
    /\ retryTimer = "set"
    /\ retryTimer' = "unset"
    /\ CheckAndStartBackfill("unset", running, required, routine)
    /\ UNCHANGED <<mainVars, muxVars, required, lastStatus, streamVars, upstreamVars,
                   canceled, faults>>

\* The change stream fails or is cancelled: its producers are cancelled.
\* The timeout is cleared, but #backfillRetryTimer keeps its value.
Cancel ==
    /\ Fault("cancel")
    /\ ~canceled
    /\ canceled' = TRUE
    /\ retryTimer' = IF retryTimer = "set" THEN "cleared" ELSE retryTimer
    /\ running' = "none"
    /\ routine' = Stopped
    /\ UNCHANGED <<mainVars, muxVars, required, lastStatus, streamVars, upstreamVars>>

ReplicationStep ==
    \/ MainKeepalive
    \/ MainReserve
    \/ MainBegin
    \/ MainKeepaliveInTx
    \/ MainCommit
    \/ MainRelease

ChangeStep ==
    \E t \in Tables :
        \/ CreateTable(t)
        \/ DropTable(t)
        \/ \E u \in Tables : RenameTable(t, u)
        \/ UpdateTableMetadata(t)
        \/ UpdateKey(t)
        \/ \E c \in Columns :
              \/ AddColumn(t, c)
              \/ DropColumn(t, c)
              \/ \E d \in Columns : RenameColumn(t, c, d)

BackfillStep(i) ==
    \/ Open(i)
    \/ NextRows(i)
    \/ NextCompleted(i)
    \/ Reached(i)
    \/ ReserveForTx(i)
    \/ BeginTx(i)
    \/ GiveUp(i)
    \/ PushRows(i)
    \/ PushCompleted(i)
    \/ EndBackfill(i)

Next ==
    \/ ReplicationStep
    \/ ChangeStep
    \/ \E i \in Routines : BackfillStep(i) \/ OpenFails(i) \/ StreamFails(i)
    \/ RetryTimeout
    \/ Cancel

Spec == Init /\ [][Next]_vars

\* The upstream keeps sending keepalives and finishes its transactions, the
\* loops take the messages they are given, and a backfill gets its rows.
Fairness ==
    /\ WF_vars(MainKeepalive \/ MainReserve)
    /\ WF_vars(MainBegin)
    /\ WF_vars(MainCommit)
    /\ WF_vars(MainRelease)
    /\ WF_vars(RetryTimeout)
    /\ \A i \in Routines : WF_vars(BackfillStep(i))

FairSpec == Spec /\ Fairness

----------------------------------------------------------------------------
Watermark == 0 .. MaxLSN * Base + Base - 1

Routine ==
    [state : {"off", "opening", "streaming", "reaching", "flush", "waiting", "granted", "ending"},
     table : Tables \cup {"none"},
     columns : SUBSET AllColumns,
     canceled : BOOLEAN,
     minWatermark : Watermark,
     watermark : Watermark,
     msg : {"none", "backfill", "backfill-completed"},
     granted : Watermark,
     tx : Watermark,
     rows : 0 .. MaxRows]

\* Every variable holds a value that the fields of the code can hold; the
\* multiplexer is either free or somebody's.
TypeOK ==
    /\ schema \in [Tables -> SUBSET AllColumns]
    /\ pos \in 1 .. MaxLSN
    /\ main \in {"idle", "waiting", "granted", "tx", "held"}
    /\ lastWatermark \in Watermark
    /\ waiters \in Seq({"main"} \cup Routines)
    /\ required \in [Tables -> SUBSET AllColumns]
    /\ running \in {"none"} \cup Routines
    /\ lastStatus \in Watermark
    /\ retryTimer \in {"unset", "set", "cleared"}
    /\ routine \in [Routines -> Routine]
    /\ published \in Watermark
    /\ open \in Watermark
    /\ keyChanged \in [Tables -> Watermark]
    /\ canceled \in BOOLEAN
    /\ changes \in 0 .. MaxChanges
    /\ faults \in 0 .. MaxFaults

\* Producers that may push to the stream.
Holders ==
    {p \in {"main"} \cup Routines :
        IF p = "main" THEN main \in {"granted", "tx", "held"}
        ELSE routine[p].state = "granted" \/ routine[p].tx # Null}

\* At most one producer holds the reservation of the multiplexer, and nobody
\* holds it while the multiplexer counts it as free.
Exclusive ==
    /\ \A p, q \in Holders : p = q
    /\ lastWatermark # Null => Holders = {}

\* Transactions enter the change stream with strictly increasing watermarks,
\* although backfills invent watermarks between those of the replicated
\* transactions (beginTxFor) and may be ahead of them.
WatermarksAdvance == [][published' # published => published < published']_vars

\* "The backfill request is always also in #requiredBackfills" (comment on
\* BackfillManager.#runningBackfill), for the running backfill and for any
\* routine that pushes: its table is still there, and so are its columns.
\* onChange asserts the first when a backfill completes.
BackfillIsRequired ==
    ~canceled => \A i \in Routines :
        running = i \/ (routine[i].tx # Null /\ routine[i].state # "ending") =>
            /\ required[routine[i].table] # {}
            /\ routine[i].columns \subseteq required[routine[i].table]

\* Rows are never pushed from a snapshot that predates a change of a row key
\* that the stream already contains: the replica could not place them.
NoStaleRows ==
    \A i \in Routines :
        routine[i].tx # Null /\ routine[i].msg = "backfill" =>
            keyChanged[routine[i].table] <= routine[i].watermark

\* A backfill is declared complete only when the replication stream has
\* reached its snapshot, and in a transaction that is not before it: "the
\* final database state version is never earlier than the version of any
\* backfilled rows" (beginTxFor).
CompletedInOrder ==
    \A i \in Routines :
        routine[i].tx # Null /\ routine[i].msg = "backfill-completed" =>
            /\ routine[i].watermark <= At(pos)
            /\ routine[i].watermark <= routine[i].tx

\* The replication stream gets the reservation it waits for: the producer
\* that has it "must then release() the reservation"
\* (ChangeStreamMultiplexer.reserve).
ReplicationProceeds == main = "waiting" ~> (main # "waiting" \/ canceled)

\* A routine failed in the middle of a transaction.
Orphaned == open # Null /\ Holders = {}

\* Replication and backfills are never stuck behind each other: unless a
\* backfill failed in the middle of its transaction, the replication stream
\* gets the reservation it waits for.
NobodyStarves == main = "waiting" ~> (main # "waiting" \/ canceled \/ Orphaned)

\* Every required backfill is done in the end, however often it is
\* invalidated, fails or is retried, unless it failed in a transaction.
EventuallyBackfilled ==
    <>[](canceled \/ Orphaned \/ \A t \in Tables : required[t] = {})

============================================================================
