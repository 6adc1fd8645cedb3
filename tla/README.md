# Zero: a verification project

TLA+ models of the Zero sync engine, checked with TLC, and proofs about them
checked with TLAPS. The models are translated from the source under `src/`;
`PROJECT.json` maps every definition to the lines it stands for.

Paths below are relative to `src/packages/zero-cache/src/services/` unless they
begin with `packages/`.

## 1. The system

Zero replicates a Postgres database into SQLite replicas and keeps client-side
caches in sync with queries over them.

```
 Postgres --pgoutput--> change source --change stream--> change-streamer
    ^                   (Acker, backfills,               |          |
    |                    multiplexer)                 Storer    Forwarder
    +------ confirmed_flush_lsn <---- UpstreamAcker      |          |
                                          ^           change DB  Subscribers
                                          |              |          |
                                       litestream <--- backup   view-syncers'
                                       (backup)        replica    replicas
                                                                    |
 client <-- pokes -- view-syncer (CVR) <-- pipelines (ZQL/IVM) <----+
   |
   +-- mutations --> pusher / mutagen --> Postgres
```

| component | state | operations | hard behaviour |
| --- | --- | --- | --- |
| `change-streamer/upstream-acker.ts`, `Acker` of `change-source/pg/change-source.ts` | watermarks reached by each store; last transaction, status and ack; what the source still waits for | track downstream, track change log, track backup, reset; begin, keepalives, ack | two objects ack the same slot; the stream between them is asynchronous; reconnects and restarts lose the state of one or both |
| `change-streamer/storer.ts` | queue, open transaction, subscribers waiting for it | store, abort, catchup, stop, purge, assume ownership, back-pressure | writes lag behind forwarding; commits of unknown outcome; failures in the middle of the queue |
| `change-streamer/forwarder.ts`, `subscriber.ts`, `broadcast.ts` | queued and active subscribers; backlog of each | add, remove, forward, flow control; send, catch up, drain, close | a history read from the DB must join the live changes without a gap or a repetition |
| `change-streamer/change-streamer-service.ts` | run loop, subscriptions, reservations, purge schedule | run, subscribe, reserve, clean up, stop | resumes behind what was forwarded; purges while subscribers and the backup move |
| `replicator/incremental-sync.ts`, `change-processor.ts` | replica, its watermark, open transaction | apply, roll back, subscribe, restore | crashes between any two messages |
| `change-source/common/backfill-manager.ts`, `change-stream-multiplexer.ts`, `change-source/pg/backfill-stream.ts` | required and running backfills, retry timer; reservation, waiters | start, stop, retry, invalidate, complete; reserve, release | a backfill interleaves with replication and schema changes, and learns of its cancellation late |
| `view-syncer/` (`view-syncer.ts`, `cvr-store.ts`, `client-handler.ts`, `snapshotter.ts`, `pipeline-driver.ts`) | client view record with version and owner; connected clients and their cookies; pipelines over a snapshot | connect, change queries, advance, catch up clients, poke, flush, shut down | a CVR taken over by another process; pokes across reconnects; a shutdown racing a client |
| `mutagen/` (`pusher.ts`, `mutagen.ts`) | queue of pushes; last mutation id of each client | enqueue, combine, push, retry | exactly once, in order, under retries |
| `packages/zero-client` | connection state, poke buffer, mutation tracker | poke start, part, end; merge per frame | partial and interleaved pokes |
| `packages/replicache` | dag, heads, clients, mutation log | mutate, pull, rebase, persist, refresh, gc | tabs share a store; reads of one dag then writes of another |
| ZQL/IVM, schema, query translation, bindings, apps, tools | data | pure or synchronous functions, I/O | little control to explore |

What makes each correct:

* **Acknowledgement**: nothing is acknowledged to Postgres before it is durable;
  everything that asks for an acknowledgement gets one.
* **Change streaming**: every replica applies a gapless history; the change log
  is contiguous; the backup can always resume from it; no subscriber is
  forgotten.
* **Backfill**: one producer writes at a time; watermarks increase; a row of an
  old snapshot never overwrites what replication knows better; every required
  backfill is done in the end; replication is never starved.
* **View syncing**: the flushes of all tasks make one history of CVRs; a client's
  cookie says exactly what it holds, and it moves forward only; rows that are
  flushed later than their CVR are flushed in the end, or loaded by nobody.
* **Mutations**: each takes effect once, in the order of its client; what a tab is
  told of one is true; what a closed tab leaves behind is pushed by another.
* **Replicache**: a rebase never loses a pending mutation; a persisted client
  never goes back.

## 2. Modules

### `UpstreamAcker.tla`: who tells Postgres what it may forget

State: the upstream log (`kind`: a published transaction, a backfill
transaction, an idle position), the slot's `confirmed` position, the source
(`pushed`, `openTx`, `waitingForDownstreamAck` of `Acker`), the asynchronous
`stream`, the change-streamer's `consumed`, the change DB's `lastWatermark`, the
backup's `backedUp`, and the five fields of `UpstreamAcker` under their own names.

| code | actions |
| --- | --- |
| `Acker.onChange`, `#startStream` of the Postgres source | `PushBegin`, `PushCommit`, `PushStatusForAck`, `PushQuietStatus`, `PushQuietStatusInTx` |
| `UpstreamAcker.trackDownstream` | `ConsumeCommit`, `ConsumeStatus` |
| `UpstreamAcker.trackPgChangeLog` (called with the Storer's commit) | `StorerCommit` |
| `UpstreamAcker.trackBackup` | `TrackBackupWatermark` |
| `UpstreamAcker.#maybeAck`, `Acker.ack` | `MaybeAck`, `SourceAck`, part of the actions above |
| `UpstreamAcker.reset` on a new stream; a new process | `Reconnect`, `Restart` |

Abstracted: an LSN is a number. The watermark of a backfill transaction, a minor
version of the last transaction's, has a position of its own. An in-transaction
keepalive carries the commit watermark and does not ask for an answer, as the
comment on `Acker.onChange` (change-source.ts:751-754) describes Postgres's
behaviour: this is an assumption about the upstream. The stream does not repeat
stored transactions: it begins again after the last durable one.

### `ChangeStreamer.tla`, `ReplicaHistory.tla`: from upstream to replicas

State: the change DB (`changeLog`, `lastWatermark`, `resetRequired`), the run
loop (`phase`, `next`, `watermark`, `inTransaction`), the Storer (`running`,
`queue`, `tx`, `catchupQueue`), one `Subscriber` per replica (`state`, `backlog`,
`downstream`, whether the Forwarder has it queued or active, the `rows` its
catchup snapshot holds), the replicas (`replicaWm`, `replicaTx`), the backup and
a running purge.

| code | actions |
| --- | --- |
| `ChangeStreamerImpl.run` | `Connect`, `ReceiveBegin`, `ReceiveCommit`, `FlowControlDone`, `ReceiveRollback`, `Disconnect`, `Interrupt` |
| `Storer.#processQueue` | `StoreBegin`, `StoreCommit`, `StoreRollback`, `StoreAssertFails`, `StoreSubscriber`, `StoreAbort`, `StoreStop`, `StorerError`, `StorerErrorAfterCommit` |
| `Storer.#startCatchup`, `#catchup` | `StartCatchup` (part of the above), `CatchupStarts`, `CatchupTooOld`, `CatchupSends` |
| `Subscriber.setCaughtUp`, `#drainBacklog`, `send` | `SetCaughtUp`, `DrainBacklog`, `Send` (part of forwarding) |
| `#getCleanupFloor`, `#purgePGChangeLog`, `Storer.purgeRecordsBefore` | `StartPurge`, `FinishPurge` |
| `subscribe` | `Subscribe` |
| `IncrementalSyncer.run`, `ChangeProcessor` | `ReplicaBegins`, `ReplicaCommits`, `ReplicaRollsBack`, `ReplicaRestores`, `StreamEnds` |
| process crash, litestream | `Crash`, `BackUp` (external) |

`ReplicaHistory` is the promise in twenty lines: a replica applies the next
transaction, or is restored from the backup. `ImplementsHistory` states that
`ChangeStreamer` implements it with `applied <- replicaWm` and
`backup <- backedUp`.

Abstracted: `begin` stands for the begin and its data changes, since nothing
happens between them that a commit or rollback would not meet as well. What a
subscriber has acked, which bounds the cleanup floor, is the watermark of its
replica. `Forwarder.forwardWithFlowControl` may take any time. Only the change
DB serves catchups (the SQLite path is opt-in).

### `BackfillStream.tla`: backfills beside replication

State: `schema`, `required`, `running`, `lastStatus` and `retryTimer` of
`BackfillManager`; `lastWatermark` and `waiters` of `ChangeStreamMultiplexer`;
the replication loop (`main`, `pos`); the backfill `routine`s, of which several
may exist because a cancelled one ends later than it is cancelled; what the
stream contains (`published`, `open`, `keyChanged`).

| code | actions |
| --- | --- |
| `#startStream` | `MainKeepalive`, `MainReserve`, `MainBegin`, `MainKeepaliveInTx`, `MainCommit`, `MainRelease` |
| `BackfillManager.onChange` | `CreateTable`, `DropTable`, `RenameTable`, `UpdateTableMetadata`, `AddColumn`, `RenameColumn`, `DropColumn`, `UpdateKey`, part of `MainCommit` and `PushCompleted` |
| `#runBackfill` | `Open`, `NextRows`, `NextCompleted`, `Reached`, `ReserveForTx`, `BeginTx`, `GiveUp`, `PushRows`, `PushCompleted`, `EndBackfill` |
| its `catch`, the retry timer, `cancel` | `OpenFails`, `StreamFails`, `RetryTimeout`, `Cancel` |

Each stretch of `#runBackfill` between two awaits is one action. A watermark is
the number `LSN * Base + minor`. `waiterDelay() > MAX_LOW_PRIORITY_DELAY_MS` is
taken to be possible whenever somebody waits.

`MCBackfillStream` gives the initial schema: one table with a column to
backfill, another column and another table still to be created.

### `ClientViewSync.tla`, `ClientView.tla`: view-syncers, their CVR and their clients

One client group, whose view-syncers may run on two tasks at once because a
client is routed to another task before the first one knows. State: the replica
(`log`), every CVR that was ever committed (`cvrs`) and what the CVR database
holds now (`db`: version, owner, `grantedAt`, row records and `rowsVersion`); per
syncer its fields (`syncer`: cached CVR, row cache, pipelines' version and
queries, `#pipelinesSynced`, `#lastConnectTime`), its deferred row flush
(`pending`), its `ClientHandler`s (`handler`) and the operation that holds its
lock (`op`); the clients (`client`) and the queries they want (`wants`).

| code | actions |
| --- | --- |
| replicator; the clients' connections | `Replicate`, `Connect`, `ChangeDesired` |
| `view-syncer.ts` `initConnection`, `#deleteClientDueToDisconnect` | `Connect`, `Notice` |
| shutdown, drain; the death of a process | `Stop`, `Crash` |
| `CVRStore.load`, its retries and the ownership it claims without waiting | `RetryLoad`, `LoadFails`, `Claim` |
| `#runInLockForClient`, `#updateCVRConfig` | `Serve`, `Refuse`, `FlushConfig` |
| `run`, `#advancePipelines`, `#hydrateUnchangedQueries` | `Run` (`Advance`, `Hydrate`) |
| `#syncQueryPipelineSet`, the updaters' `flush` | `Sync` (part of the above), `Flush`, `FlushFails` |
| `RowRecordCache.#flush` | `FlushPending` |
| `#catchupClients` | `Catchup`, `CatchupFails` |
| `startPoke`, the pokers, `zero-poke-handler.ts` | `Pokers`, `Served`, `Ends`, `Apply` (parts of the above) |

`ClientView` is the promise: versions are published in order and never change; a
client takes a later version as a whole, or drops everything.

Abstracted: what happens between two round trips to the CVR database is one
step. A row's content is the version that wrote it. A CVR other than its rows is
written in one transaction, so a cached CVR is named by its version. Pushes to a
live connection arrive at once, the others are lost. Queries expire at any time
once nobody desires them. The constant `Survivors` says whether a syncer goes on
with what it had derived from a CVR it has dropped; see finding 5.

### `MutationFlow.tla`, `MutationLog.tla`: the way of a custom mutation

Several tabs of one client group, the pushers of the group in one zero-cache
process, the API server with the upstream database, and the way back through a
replica, the CVR and pokes. State: what was committed (`log`, and `lmids`, the
`clients` table); the positions of the replica, the CVR and a poke under way
(`replica`, `cvr`, `poke`); what tabs persist (`perdag`), the tabs themselves
(`tab`: state, snapshot, what was loaded, the mutation tracker's and the pusher's
IDs, the poke buffer) and what they told the application (`outcome`); `conn`; the
pushers' `queue`, combined `pushes`, the `request` under way, `alive` pushers and
the one the `ServiceRunner` knows (`current`).

| code | actions |
| --- | --- |
| `zero.ts`, `replicache` (open, mutate, persist, close) | `Open`, `MakeMutation`, `Persist`, `Close` |
| `#runLoop`, `#connect`, `#disconnect`, `MutationTracker.onConnected` | `Connect`, `Drop`, `Resume` |
| `zero.ts` `#pusher`; `PusherService.enqueuePush`, `combinePushes` | `Push` |
| `PushWorker.run`, `#fanOutResponses`, `fetchFromAPIServer` | `NextPush`, `PushFails` (parts of others), `RequestFails` |
| `runner.ts` `getService`, references of connections | `Serving`, `HangUp`, `Ends` |
| the death of the process | `Crash` |
| `process-mutations.ts` | `AlreadyProcessed`, `Execute`, `MutatorFails`, `DatabaseFails`, `RejectedAgain`, `OutOfOrder` |
| view-syncer, `zero-poke-handler.ts`, `MutationTracker.lmidAdvanced` and `processMutationResponses` | `StartPoke`, `EndPoke`, `PokeFails`, `Playback` |

`MutationLog` is the promise: the next mutation of a client, and no other, is
committed, either applied or set aside with an error.

Abstracted: a position is a prefix of the committed mutations, and the cookie of
every snapshot is one. A message that is lost is one that was not sent before
the connection broke. A request whose answer is lost may go on at the API server
as `Orphan`, of which there is one at a time. `SharedReplica` (true in the runs)
says that all view-syncers of the group read one replica; see observation (i).

## 3. Runs

| run | instance | distinct states | result |
| --- | --- | --- | --- |
| `acker` | every log of 4 positions over 3 kinds, backup tracked | 177 thousand | all hold |
| `acker_both_stores` | 3 positions, no backfills | | `AckedByBothStores` is violated |
| `streamer` | 2 replicas (one the backup), 3 transactions, queue of 1, one fault of five kinds | 1.5 million | all hold |
| `streamer_live` | 1 replica, 3 transactions, queue of 1, two faults of four kinds | 225 thousand | all hold |
| `streamer_forgotten` | 1 replica, 2 transactions, one disconnect | | `CaughtUpOrClosed` is violated |
| `streamer_gap` | 1 replica at the replica version, 2 transactions, no fault | | `DeliversInOrder` is violated |
| `backfill` | 2 tables, 2 columns, 3 routines, 1 schema or key change, two faults of three kinds | 178 thousand | all hold |
| `backfill_leaked` | 1 table, no schema change, one failing row stream | | `ReplicationProceeds` is violated |
| `views` | 2 syncers on 2 tasks, 1 client, 1 row, 1 query, 2 versions of the replica, 3 connections and events together | 195 thousand | all hold |
| `stale_view` | the same with 4 connections and events, and syncers that survive a failed operation | | `ViewMatchesCookie` is violated |
| `mutations` | 2 tabs, 2 pushers, two mutations of which the first is rejected, no tab closes, 1 persist, 1 fault | 856 thousand | all hold |
| `confirmed` | the same with one mutation, a tab that may close, and one fault; fair | 49 thousand | all hold |

### What the properties say

* `ConfirmedIsDurable`: no published transaction is confirmed to Postgres
  before it is in the change DB. `AckInvariant` is its inductive strengthening.
  `StatusIsEchoed`: a status that asks for an ack is answered.
* `DeliversInOrder`: the next message of every replica continues what it has,
  whichever mix of catchup, backlog and live changes it is. `LogIsContiguous`:
  the change log is an unbroken run that ends in `lastWatermark`.
  `BackupNeverReset`: purges never take what the backup needs to resume.
  `CaughtUpOrClosed`: no waiting subscriber is forgotten.
* `Exclusive`: one holder of the multiplexer's reservation. `WatermarksAdvance`:
  commits in the stream have increasing watermarks. `BackfillIsRequired`,
  `NoStaleRows`, `CompletedInOrder`: what `beginTxFor` checks after its await is
  enough to keep a backfill from pushing for a table that is gone, rows that
  predate a change of their key, or a completion that comes too early.
  `NobodyStarves`, `EventuallyBackfilled`: liveness of both producers.
* `CvrIsConsistent`: the rows of every committed CVR, with their reference
  counts, are those its queries select at its version, though syncers compute
  them from row caches, deltas and hydrations of different ages.
  `RowsBelongToVersion`: rows flushed apart from their CVR, by a syncer that may
  be deposed by then, belong to the version they are marked with.
  `LaggingRowsHaveAFlusher`: a load that waits for rows waits for somebody.
  `SettledClientsAreCurrent`: when nothing is left to do, clients of the syncer
  that has the CVR have the latest rows of the queries that the CVR says they
  desire, and a client that is alone in its group has all its desires recorded
  there (with several clients one may be lost, observation (l)). `ImplementsClientView`: clients see one
  history. `ViewMatchesCookie` is the part of it that finding 5 refutes.
* `OutcomesAreTrue`: success, application error and "assumed" say what happened
  upstream. `NoGap`: unless a push has failed, the API server never meets a
  mutation ahead of its turn, whichever tab and pusher sends it.
  `LmidNeverRegresses`: the assertion of `lmidAdvanced`. `ImplementsMutationLog`:
  once and in order. `EventuallyConfirmed`: an open tab again and again has all
  its mutations in its snapshot. `LeftBehindIsCommitted`: what an open tab took
  over from another is committed in the end, unless a push has failed
  (observation (h)).

### Why the bounds are enough

*Acker.* Four positions hold every sequence of transaction, backfill, status and
quiet keepalive in which one element is outstanding, one durable and two in
flight. The proof removes the bound for the safety properties.

*Streamer.* Three transactions and two initial ones in the log (0 and `Start`)
leave room for one that is purged, one in a catchup snapshot, one open in the
Storer and one live. With `MaxQueue = 1` the run loop goes on while one entry is
still in the Storer's queue, so that the queue grows to a change and a
subscriber or an abort behind it. `MaxQueue` bounds the run; it is not the
back-pressure of the code. The same properties were found to hold with a bound
of two, over 5.0 million states, and the safety properties of both runs are
proved for every bound (section 5). Crashes, lost connections, rollbacks, failing
Storers and commits of unknown outcome ("late") each occur in some behaviour;
`streamer_live` also combines two of them. All runs but `streamer_gap` begin
with one transaction already replicated, because of the finding that run shows.
For the same reason `streamer_live` has no lost upstream connection, which is
what `streamer_forgotten` is about.

*Backfill.* Two names of tables and columns make every create, drop and rename
possible, also onto a name that was in use before. Three routines are enough for
one that runs and two that have yet to learn that they were cancelled: as long
as the stream is not cancelled, whenever a backfill is to be started a routine
is free (checked over the states of this run). Two faults let a backfill fail
and the stream be cancelled before the retry. One schema change at a time meets
every step of a backfill; with two changes, and one fault, the same properties
were found to hold over 1.6 million states. A watermark is encoded as
`LSN * Base + minor`; `MinorLeft` keeps a backfill from beginning a transaction
where this encoding has no room for one more minor version. The code's minor
versions have no such limit, and the run never meets it.

*Views.* Two tasks, and three connections of a client, let it leave a task,
come back, and find the other's CVR; two versions of the replica and one change
of queries make state versions and minor versions interleave; one of the three
may instead be a stop or a crash while rows are still to be flushed. With three
connections and a further event the same was found over 1.6 million states;
`stale_view` needs four. Syncers are
symmetric; the properties are safety properties. With one row and one query
reference counts stay at one, so the run does not explore sums over several
queries; the proofs of section 5 do, for any sets of rows, queries, clients and
syncers. `SettledClientsAreCurrent` was also checked with two clients and four
connections and events (2.6 million states), and on random behaviours with two
clients, rows and queries and nine of them, before it was proved.

*Mutations.* Two mutations of one tab, the first of them rejected, and another
tab that takes both over make every pair of sender, pusher and request meet: two
tabs that push the same mutation, two pushers of which one was forgotten, and a
request that goes on after its pusher gave up. One fault of any kind is a lost
connection, a lost request, a crash, a failing database or a failing flush. In `mutations`
tabs lose their connections but do not close (a connection that breaks shows the
servers the same); with closing tabs the same properties were found over 2.1
million states, and `confirmed` has one that closes, for a single mutation. Two mutations do not tell in which order a pusher
combines the pushes of different connections.

### Fairness

*Acker:* the loops of the change-streamer and the Storer, the backup and its
poller go on. Upstream and the connection owe nothing. *Streamer:* the upstream
ends transactions it has begun; the run loop, the Storer and the catchups go on;
neither new transactions nor reading replicas are assumed. *Backfill:* the
upstream keeps sending keepalives, as Postgres does, the loops take their
messages, the retry timer fires, and a backfill's routine goes on. *Views:*
none; the run checks safety only. *Mutations* (`confirmed`): tabs connect again
(after an error that stops the run loop, because the application calls
`connect()`), the server notices lost connections (its pings time out), and the
loops of tabs, pushers, the view-syncer and the API server go on; making,
persisting and closing are owed by nobody. Faults are never fair. `CHECK_DEADLOCK FALSE` is set where the system may come to rest: the
log, the transactions and the positions of an instance end.

## 4. Findings

1. **A status after a reconnect is confirmed beyond the backup**
   (`acker_both_stores`). `reset` clears `#lastTx`, so the guard
   `lastAck >= lastTx` in `#maybeAck` holds at once, and the first status of the
   new connection is acked although the backup lacks transactions before it. The
   class comment promises that "only watermarks that have been reached by both
   stores are acked". The transactions are still in the change DB
   (`ConfirmedIsDurable` holds, and is proved).
2. **A waiting subscriber is forgotten** (`streamer_forgotten`). An `abort` in
   the Storer's queue ends the transaction without starting the catchup of the
   subscribers that wait for it, and `stop` drops them. They stay connected and
   silent.
3. **A gap after the replica version** (`streamer_gap`). `watermarkFound` is
   true for every subscriber at the replica version, also when the log has been
   purged beyond it.
4. **A reservation is never released** (`backfill_leaked`). When the row stream
   fails in the middle of a transaction, the transaction stays open and
   replication waits for ever.

5. **Stale rows after an ownership flip** (`stale_view`). An operation that fails
   drops only the cached CVR (view-syncer.ts:533-536); `#pipelinesSynced` stays
   true. When the syncer gets the CVR back it loads one that is ahead of its
   pipelines, and with nothing to add or remove `#catchupClients` sends rows of
   the older snapshot under the newer cookie. Nothing sends them again. The run
   `views` therefore lets such a syncer rest (`Survivors = FALSE`).

Observations that no run is about:

* The Storer does not report `skipAck` commits (storer.ts:743), but they raise
  `lastTx` in the acker (upstream-acker.ts:70). A status that follows a backfill
  transaction is therefore echoed only with the next acked transaction, contrary
  to `protocol/current/status.ts:51-57`. `StatusIsEchoed` excepts this case.
* change-source.ts:598 says reservations need no attention when the stream is
  cancelled. A backfill that waits for the reservation, or for the stream to
  reach its snapshot, then never ends and keeps its snapshot connection. The
  properties of `BackfillStream` except what comes after `Cancel`.
* A syncer whose cached CVR is out of date answers a client with a newer cookie
  with `InvalidConnectionRequestBaseCookie` (view-syncer.ts:1319, 2989), on which
  the client drops its data (zero.ts:1576-1584). The cookie is valid; the cached
  CVR is not.
* An operation that fails after it started pokes leaves them without an end. The
  next `pokeStart` on the same connection is taken for an intermingled one, and
  the client disconnects. No data is lost.
* A failed flush in `addAndRemove` leaves its query hydrated in the pipelines; it
  is not added again and never reported as got, until the pipelines are reset.
* The row cache is cleared only by a failed flush (cvr-store.ts:1287). An
  operation that fails elsewhere keeps it beside a CVR that is loaded anew.
* The row cache is loaded lazily, from rows that may be newer than the CVR in
  memory, and a flush that has nothing to write checks neither version nor owner
  (cvr-store.ts:1108-1117), unlike what row-record-cache.ts:89-91 and
  view-syncer.ts:2486-2489 assume. Clients lag until the next flush that writes.
* (g) `runner.ts:43-45` deletes whichever instance is registered when one ends,
  so a newer one may be forgotten and a third made beside it, contrary to
  pusher.ts:64, "One PusherService exists per client group". `MutationFlow`
  models this; its properties hold all the same.
* (h) When a push fails, the mutations in it of a tab that is closed are reported
  to nobody (pusher.ts:384-387), and the tab that pushed them does not send them
  again on its connection (zero.ts:2026-2029), though pusher.ts:389-390 says that
  "those mutations will be retried". Under the fairness of `confirmed`, TLC finds
  a behaviour in which they are never committed; `LeftBehindIsCommitted` excepts
  failed pushes for this reason.
* (i) The last mutation ID a tab has received may come from a poke that was cut
  off. On reconnecting the tab takes its mutations for done, a failed one among
  them ("assumed" in `outcome`). If another view-syncer of the group reads a
  replica that lags behind, the ID goes back, the assertion of `lmidAdvanced`
  fails, and so does every attempt to connect until the tab is loaded again
  (`SharedReplica = FALSE`).
* (j) A handler that rejects a mutation before its transaction, when an earlier
  attempt has committed it, fails the whole push (process-mutations.ts:387).
* (k) The CRUD mutagen reports success after ten serialization failures.
* (l) A client that changes its queries at one task and changes them back at
  another may not be heard. If the second syncer still has a CVR from before the
  first change, the message changes nothing there and nothing is written, so
  nothing is checked; the operation of *another* client then finds the conflict,
  only that client is disconnected (view-syncer.ts:1327-1344), and the CVR that
  is loaded next has the first change. TLC finds this with two clients, two rows,
  two queries and eight connections and changes. Hence the form of
  `SettledClientsAreCurrent`.

## 5. Proofs

`UpstreamAckerProofs.tla`, for every `MaxLSN`, set of kinds and value of
`TrackBackup`, from the named assumptions in `UpstreamAcker.tla` alone:

* `TypeCorrect`: `Spec => []TypeOK`;
* `AckInductive`: `Spec => []AckInvariant`;
* `ConfirmedDurable`: `Spec => []ConfirmedIsDurable`.

`ConfirmedIsDurable` is not inductive: whether an ack is safe depends on what
both ackers believe and on what is still on its way between them.
`AckInvariant` adds four facts. `StreamOrder`: positions enter the stream in
order (a keepalive may overtake the commit of a backfill transaction), so
consuming one means all before it have been consumed. `StreamComplete`: a
published transaction that was pushed and not consumed is still in the stream.
`AckerKnowledge`: the acker's watermark of the change log does not exceed the
change DB's and its last transaction is the last one consumed, or it knows of none and everything
consumed is durable; hence what `#maybeAck` chooses is durable.
`SourceAwaits`: the source's `waitingForDownstreamAck` covers everything pushed
that is not durable; hence a quiet keepalive is confirmed only when nothing is
outstanding. Each action has a lemma; the arithmetic of positions, the facts
about appending to and taking from the stream, and the safety of an ack are
lemmas of their own.

`ChangeLogProofs.tla` and, on top of it, `DeliveryProofs.tla`, for any set of replicas, any bound on transactions, queue and
faults and any mix of faults, from the assumptions in `ChangeStreamer.tla`:

* `StorerTheorem`, `TypeCorrect`, `LogTheorem`: `Spec => []StorerInvariant`, and
  hence `[]TypeOK` and `[]LogIsContiguous`;
* `CatchupTheorem`, `BackupTheorem`: `Spec => []CatchupInvariant`, and hence
  `[]BackupNeverReset`;
* `DeliversTheorem`, `DeliveryTheorem`, `HistoryTheorem`: if `Start # 0`, then
  `Spec => []DeliveryInvariant`, and hence `[]DeliversInOrder` and
  `ImplementsHistory`.

*The log.* The Storer appends what the run loop queued before, so whether the log
stays unbroken is decided by a queue whose entries were made from states of long
ago, aborts, stops and subscribers among them. `StorerInvariant` says that there
is a ledger: a chain of marks, one after each entry, that tell which transaction
will be open, which was stored last and whether the Storer is still to run when
the entry has been taken. Every commit the Storer gets to continues the log, and
at the end of the chain the Storer is where the run loop is. Each action takes
the first entry, adds one, or forgets a subscriber in the middle, and the chain
loses or gains the mark of that entry (`MarksTail`, `MarksAppend`, `MarksForget`);
a failing Storer and a commit of unknown outcome leave marks that only stop.

*The catchup.* That `#catchup` never asks for a reset relates the log, the purge,
the backup and every subscriber. `Waits`: a subscriber in the Storer's queue or
in its catchup queue is there once, and waits. `Settled`: the commits on their
way to a replica are new to it and ascending, so no replica falls behind where
its subscriber began. `Reaches`: the log reaches back to the backup, also through
a purge whose floor was read earlier.

*Delivery.* A subscriber gets a catchup from the log, a backlog kept meanwhile and
live changes, which overlap, and it drops what it has. `DeliveryInvariant` says
of each subscriber (`Sound`) that what is in `downstream` leads from the replica's
position to the subscriber's, the `rows` left of the catchup from there to where
the backlog begins, and the backlog to the *front*, a position which the changes
forwarded next continue. For one that still waits, the ledger of the Storer tells
where its catchup will end. `Late`, `Aborts`, `Serving` and `Recent` relate the
front to the phases of the run loop: what it has queued, sent and not yet counted
when it is interrupted between two of these steps. A step of the change-streamer
then maps to a stutter of `ReplicaHistory`, a replica's to its `Apply` or `Restore`, and the
backup's to `BackUp`.

The hypothesis `Start # 0` says that a replica's first subscription is not at the
replica version. Without it the theorem is false: `streamer_gap` refutes
`DeliversInOrder` (finding 3). A replica that is restored is at the backup's
watermark, which is at least `Start`.

`MutationFlowProofs.tla`, for any number of tabs, pushers, mutations and faults,
from the assumption in `MutationFlow.tla`:

* `FlowTheorem`: `Spec => []Flow`;
* `MutationLogTheorem`: `Spec => ImplementsMutationLog`.

The abstract specification asks two things of a commit. That it is the client's
next mutation follows from `Logged`: the `clients` table counts each client's
committed mutations and they have no gap, because the API server compares in the
transaction that commits. That the mutation was made at all follows from where
it has been: `Kept` says that what tabs persist and take over is at most what was
made, `UnderWay` that whatever is queued, combined or in a request was made.
`UnderWay` is stated over a set, so that it carries over when a tab makes a
mutation and the set grows (`UnderWayGrows`), and so that each lemma about queues
and requests holds for any set. Each action has a lemma which shows that the
invariant is kept and that the step is a commit, a `Make` or a stutter.

In the same module, on top of these:

* `ConfirmedTheorem`, `OutcomesTheorem`: `Spec => []Confirmed`, and hence
  `[]OutcomesAreTrue`;
* `HeardTheorem`, `LmidTheorem`: if `SharedReplica`, then `Spec => []Heard`, and
  hence `[]LmidNeverRegresses`;
* `InLineTheorem`, `NoGapTheorem`, `TypeTheorem`: `Spec => []InLine`, and hence
  `[]NoGap` and, with the bounds of what tabs make and send, `[]TypeOK`.

*Outcomes.* A tab settles its mutations on the word of a poke, of a connection or of
a failed push, each older than what upstream has committed. `Confirmed` says that
every position is a prefix of the log (`Positions`), in which each client's
mutations are numbered from one (`Numbered`), so that a last mutation ID stands for
exactly the mutations up to it; and that a tab's tracker lies between its snapshot
and the `clients` table and has left nothing pending up to where it is
(`Tracks`). The log only grows, so what was once true stays true.

*The last mutation ID.* That it does not go back compares a tab with what is on its
way to it: `Hears` says that what the tab has received is at least what its
connection began from, what its buffer holds and what the poke for this very
connection will bring, and at most what the replica holds. The last part needs the
hypothesis `SharedReplica`: another replica may be behind, and then the property
is false (observation (i)).

*The order of pushes.* A mutation may be on its way in a queue, in combined
pushes, in a request and in a forgotten request at the same time, sent by several
tabs. `Lined` says of each pusher that every mutation it has is committed, the
next of its client, or has the one before it ahead of it (`Ready`, `Led`) in
what the pusher works on, has taken (`pushes`) or has queued; `Sends` that the last
mutation a connection sent is committed or still on this way, so that the next one
may be appended. Combining moves mutations of one connection ahead of those of
others: `Led` survives because a connection has one group in the queue and carries
its own predecessors (`JoinedAt`, `LinedEnqueued`). A failed push drops part of the
line; then `broken` holds and nothing is claimed. `Serves` (connections have
running pushers, pushers that rest have nothing) does not depend on it.

`BackfillStreamProofs.tla`, for any schema, number of routines and changes and
any mix of faults, from the assumptions in `BackfillStream.tla`:

* `StreamTheorem`: `Spec => []StreamInvariant`;
* `ExclusiveTheorem`: `Spec => []Exclusive`;
* `DatesTheorem`, `WatermarksTheorem`, `CompletedTheorem`: `Spec => []Dates`, and
  hence `WatermarksAdvance` and `[]CompletedInOrder`;
* `DemandsTheorem`, `RowsTheorem`, `RequiredTheorem`: `Spec => []Demands`, and
  hence `[]NoStaleRows` and `[]BackfillIsRequired`;
* `TypeTheorem`: `Spec => []TypeOK`.

*The reservation.* That one producer holds the stream is not inductive: a release hands the
reservation to the first of the queue, who must not hold it yet and must not come
again later in the queue. `Lock` therefore says that whoever is queued is queued
once and is in fact waiting, that a free stream (`lastWatermark` known) has
neither a waiter nor a holder, and `Job` that a routine has no transaction open
while it is off, opening, waiting or just granted. Cancelling a routine leaves
the queue alone, so a cancelled waiter is still granted the stream and gives it
back; after a failure in the middle of a transaction the stream is neither free
nor held (finding 4), which does not harm exclusion. `RoutineMoves`, `ReserveKeeps` and `ReleaseKeeps` say what one routine's step
does to the reservation; the lemma of each action cites them.

*Watermarks.* A backfill makes its watermark from the one it was given with the
reservation, perhaps long before. `Dates` says that this is the watermark of the
last commit (nobody else can have committed since, by `Lock`), that an open
transaction is after it and before the next position of replication, and so is
what a routine must not predate or has seen reached (`minWatermark`,
`lastStatus`). A backfill transaction therefore lies before the next
replicated one. A completion may be moved up to the snapshot's watermark; the
guard `#changeStreamReached`, evaluated before an await, still holds after
it because `lastStatus` only grows.

*Required backfills.* `onChange` looks only at the running backfill, while a
cancelled one may still push. `Charged` says that whoever is under way and has not
been told to stop is the running backfill, and its request is still required;
`Fresh` that whoever has its snapshot, and has not been told, either has one that is as new
as the last key change of its table or knows it (`minWatermark`), and one with a
transaction of rows open has the former. A change of the schema or a key happens in a
replicated transaction, so by `Lock` no backfill has one open at that moment, and
`beginTxFor` checks the rest when it begins.

`ClientViewInvariant.tla` and, on top of it, `ClientViewProofs.tla`, for any number
of clients, syncers, tasks, rows, queries, versions and events, from the assumption
in `ClientViewSync.tla` and the hypothesis `~Survivors`:

* `CvrsAreConsistent`: `Spec => []CvrIsConsistent`;
* `RowsBelong`, `LaggingRowsAreFlushed`: `Spec => []RowsBelongToVersion` and
  `Spec => []LaggingRowsHaveAFlusher`;
* `ViewsMatchCookies`: `Spec => []ViewMatchesCookie`;
* `TypesAreCorrect`: `Spec => []TypeOK`;
* `PromiseKept`: `Spec => ImplementsClientView`.

*The CVR.* None of these is inductive alone: the rows that are flushed come from a
row cache, pipelines and an update begun earlier, and what a client gets comes
from the patches of the update and from what the catchup reads. `IInv` is about
every version that was ever committed, which `cvrs` keeps. `Recording`: its rows
are what its got queries select at its state version, and no row has a patch after
it. `Whole`: a row has not changed between the version of its last patch and the
version it belongs to; this makes the catchup complete, since it sends the
rows whose patch is after a client's base. `Stored` and `Lagging`: the row records
in the database are those of one version, with the tombstones; if it is not the
latest then exactly one syncer has the difference, or a process died.

*The syncers.* A syncer may go by an old CVR for as long as it does not write, so
little is claimed of it (`Working`), until its flush or its catchup compares
versions. If its CVR is the latest one, `Current` holds: its row cache is that
version's rows, its pipelines, when synced, select the same rows at their version of the
replica, and an update that is under way leads from this CVR to the next
(`Flushable`): its records, laid over the cache, are exact for the new version
(`Exact`), its patches turn the old view into the new one (`Shown`), and they
include whatever a hydrated query shows (`Hydrated`). An update that has nothing to
write is one that changes nothing. `Following` says the same of what is left after
the flush. That another syncer may commit at any time is no case of its own: it
makes this syncer's CVR an old one.

*The clients.* `Seeing`: a client has the rows of the version of its cookie.
`Poking`: the connections that an operation is to poke are at a base that the
operation's version allows, or have been replaced since. From these each poke takes
a client from the version it is at to the one the poke names; `PromiseKept` maps
every step to one of `ClientView`, where versions are only added and each client
stays, moves forward or is told to start over, or to a stutter.

The hypothesis says that a syncer whose operation has failed does nothing more with
its pipelines. Without it the CVR it loads next may be ahead of them (finding 5);
TLC then refutes `ViewMatchesCookie`, and with longer runs `RowsBelongToVersion` and
`CvrIsConsistent`, too. `LaggingRowsHaveAFlusher` was found to hold either way. In the
model the proved properties fail in no other way.

`ClientViewSettled.tla`, on top of these and under the same hypothesis:

* `SettlingInvariant`, `SettledClients`: `Spec => [](IInv /\ Settling)`, and hence
  `[]SettledClientsAreCurrent`.

*Who has nothing to do has left nobody behind.* `IInv` says what is true of whatever
is sent, never that anything is; for a while a client may be at any old version, a
query may have no rows and pipelines may be behind. `Settling` says of each of
these what is still going to see to it. `Attending`: a connection whose message was
taken up has made the run loop ready, or the message is that of the operation that
holds the lock; and an operation that has yet to catch clients up has a poker for
every connection it has heard of. `Trailing`: pipelines that are not synced, though
they have seen a version, are behind the CVR, so a replica that catches up wakes the
run loop. `Complete`: what the CVR lists it has got, or the update under way will
have. `Abreast`: if the syncer's CVR is the current one, an idle syncer's clients
are at it. `Linked` ties a client to the handler that knows its base and, if it is
alone in its group, its desired queries to the CVR's. When all is quiet, no message
waits, the run loop is ready and has nothing newer to see, so the pipelines are
synced, at the latest replica and the rows of the CVR's queries are those of that
replica; and the client is at that CVR.

A step of one syncer leaves the others as they were, except that their CVR may
become an old one, of which `Abreast` claims nothing (`ServingGrown`). Of the
syncer's own steps the catchup is the hard one. It pokes those behind the version
`o.to` that the operation was to make, to the CVR that it has made, which is an older
one if there was nothing to write. A client that is left out is at or after `o.to`,
and being at most at the current CVR, it is there.

The hypothesis is used where an operation begins: pipelines that are synced are
those of the CVR the syncer goes by, not of one that it has dropped. `Heeded`
remains a condition if there are several clients (observation (l)).

Only model-checked: `StatusIsEchoed` and every other liveness property (fairness
and `ENABLED` are out of the prover's reach). Every invariant and action property
of a passing run is proved.

## 6. Not modelled, and the plan

In the order in which they should come:

1. **ChangeLogOwnership** (new module; one run): `Storer.assumeOwnership`, the
   owner check at commit (storer.ts:722), `PurgeLock`, snapshot reservations and
   `confirmReservations` across awaits, with two change-streamers on one change
   DB. Abstract specification: one sequence of writers, each writing only while
   it owns. Theorem: a deposed owner never commits.
2. **ReplicachePersist** (one run): memdag and perdag heads under persist,
   refresh and pull of two tabs. `MutationFlow` takes from it only what a tab
   persists and what another takes over when it opens.
3. **Broadcast** and back-pressure: majority release with members that leave;
   bytes in the Storer's queue.
4. **`ClientViewSync`**: several pokes in one frame of a client.

Left out of what is modelled: in the view-syncer, authorization and the
transformation of queries, TTLs as times, deletion of clients and of the CVR,
partial progress within one round trip; in the mutation flow, the CRUD mutagen,
the credentials of a connection, the acknowledgement and clean-up of results,
mutation recovery of other client groups, timers; in the change-streamer,
ownership, reservations, the SQLite change log and back-pressure by bytes.

Not planned: parsing of replication messages and the derivation of schema
changes, initial sync (one Postgres snapshot), the relational operators of
ZQL/IVM and SQLite execution (their correctness is about data, and fuzz tests
compare them with Postgres), query translation, Replicache's B-tree and stores,
authentication, configuration, workers, metrics, the framework bindings, apps
and tools.

## 7. Running

```
tlc -workers 2 -config UpstreamAcker_ack.cfg UpstreamAcker.tla
tlc -workers 2 -config ChangeStreamer_both.cfg ChangeStreamer.tla
tlc -workers 2 -config BackfillStream_backfill.cfg MCBackfillStream.tla
tlc -workers 2 -config ClientViewSync_views.cfg MCClientViewSync.tla
tlc -workers 2 -config MutationFlow_mutations.cfg MCMutationFlow.tla
tlapm UpstreamAckerProofs.tla
tlapm ChangeLogProofs.tla
tlapm DeliveryProofs.tla
tlapm MutationFlowProofs.tla
tlapm BackfillStreamProofs.tla
tlapm ClientViewInvariant.tla
tlapm ClientViewProofs.tla
tlapm ClientViewSettled.tla
```

Each mutant named in `PROJECT.json` is an operator beside the definition it
replaces, introduced by a comment that begins with "Mutant".
