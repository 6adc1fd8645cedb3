--------------------------- MODULE ClientViewSync ---------------------------
(***************************************************************************)
(* One client group, kept in sync by view-syncers that may run on two      *)
(* tasks at once: the client view record (CVR) in Postgres, the syncers    *)
(* that load it, advance it with their replica and flush it, and the       *)
(* clients they poke.                                                      *)
(*                                                                         *)
(* A version is a pair <<stateVersion, configVersion>>.  The content of a  *)
(* row is the replica version that wrote it, 0 if there is no such row.    *)
(* The tables of a CVR other than its rows are written in one transaction, *)
(* so a cached CVR is named by its version and looked up in cvrs; the row  *)
(* records may be flushed later than the rest and are kept explicitly.     *)
(***************************************************************************)
EXTENDS Integers, Sequences

CONSTANTS
    Syncers,      \* view-syncer instances of the client group
    TaskOf,       \* the task an instance runs on
    Clients, Rows, Queries,
    Selects,      \* the rows a query selects
    NoOne,        \* no task, no syncer
    Survivors,    \* whether a syncer that lost its CVR goes on with its pipelines
    MaxVersion,   \* replica versions
    MaxEvents     \* connections, changes of desired queries, syncers stopped and
                  \* processes that die, together

ASSUME ViewSyncAssumption ==
    /\ NoOne \notin Syncers \cup Queries
    /\ \A s \in Syncers : TaskOf[s] # NoOne
    /\ Selects \in [Queries -> SUBSET Rows]
    /\ Survivors \in BOOLEAN
    /\ {MaxVersion, MaxEvents} \subseteq Nat /\ MaxVersion > 0

VARIABLES
    log,      \* log[v]: the rows of the replica at version v
    cvrs,     \* every CVR ever committed, by its version
    db,       \* what the CVR database says now
    syncer,   \* the in-memory state of each syncer
    pending,  \* row records a syncer has yet to flush
    handler,  \* the ClientHandler of each client at each syncer
    op,       \* the operation that holds a syncer's lock
    client,   \* the clients
    wants,    \* the queries each client desires
    used      \* connections and events so far

vars == <<log, cvrs, db, syncer, pending, handler, op, client, wants, used>>

-----------------------------------------------------------------------------
\* What f says, and what g says where f says nothing.
f ++ g == [x \in DOMAIN f \cup DOMAIN g |-> IF x \in DOMAIN f THEN f[x] ELSE g[x]]

(* Versions. *)

NoVersion == <<-1, 0>>
EmptyVersion == <<0, 0>>

Less(a, b) == a[1] < b[1] \/ (a[1] = b[1] /\ a[2] < b[2])
AtMost(a, b) == a = b \/ Less(a, b)

\* _ensureNewVersion, if the state version stays the same.
OneAfter(v) == <<v[1], v[2] + 1>>

\* The version of an update made at a version of the replica.
Later(v, state) == IF state > v[1] THEN <<state, 0>> ELSE v

(* Row records. *)

NoRefs == [q \in Queries |-> 0]
Absent == [refs |-> NoRefs, at |-> 0, patch |-> EmptyVersion]
NoRows == [r \in Rows |-> Absent]
Referenced(rec) == \E q \in Queries : rec.refs[q] > 0

\* The row cache leaves the tombstones in the database.
Cached(rows) == [r \in Rows |-> IF Referenced(rows[r]) THEN rows[r] ELSE Absent]
View(rows) == [r \in Rows |-> IF Referenced(rows[r]) THEN rows[r].at ELSE 0]

\* Mutant: a row whose content changed keeps the version of its last patch.
Updated_KeepsPatch(old, refs, version, new) ==
    IF \A q \in Queries : refs[q] <= 0
    THEN [refs |-> NoRefs, at |-> old.at, patch |-> new]
    ELSE [refs |-> refs, at |-> IF version = 0 THEN old.at ELSE version,
          patch |-> IF Referenced(old) THEN old.patch ELSE new]

\* The record of a row after an update to version new that received the row
\* at a version, 0 if it is gone, and leaves it with these references.
Updated(old, refs, version, new) ==
    IF \A q \in Queries : refs[q] <= 0
    THEN [refs |-> NoRefs, at |-> old.at, patch |-> new]
    ELSE [refs |-> refs, at |-> IF version = 0 THEN old.at ELSE version,
          patch |-> IF Referenced(old) /\ old.at = version THEN old.patch ELSE new]

(* Patches: the content a row gets, 0 to delete it, and its version. *)

None == [r \in {} |-> Absent]
Newer(patches, base) ==
    [r \in {x \in DOMAIN patches : Less(base, patches[x].to)} |-> patches[r]]

-----------------------------------------------------------------------------
(* State. *)

\* An operation: the client that asked for it and its connection, or the run
\* loop; the version it starts from and the one it is to make.
Idle == [pc |-> "idle", run |-> FALSE, c |-> NoOne, ws |-> 0, from |-> NoVersion,
         to |-> NoVersion, advance |-> FALSE, noted |-> FALSE, writes |-> FALSE,
         bad |-> FALSE, queries |-> {}, got |-> {}, adds |-> {}, rows |-> None,
         patches |-> None, pokers |-> [c \in {} |-> 0]]
NoHandler == [ws |-> 0, base |-> NoVersion, poked |-> FALSE, msg |-> "none"]
NoHandlers == [c \in Clients |-> NoHandler]
NotPending == [rows |-> None, version |-> NoVersion]
Fresh == [state |-> "none", lct |-> 0, claim |-> 0, cvr |-> NoVersion, cache |-> None,
          pv |-> 0, hydrated |-> {}, synced |-> FALSE, ready |-> FALSE]

Unknown == {NoOne}
Desired(cv) == Queries \cap UNION {cv.desired[c] : c \in Clients}

Tip == Len(log)
Flushing(s) == pending[s].version # NoVersion
Connected(s, c) == client[c].on /\ client[c].at = s /\ client[c].ws = handler[s][c].ws

\* An operation failed: the CVR is gone, what was derived from it is not.
Stranded(s) ==
    /\ syncer[s].cvr = NoVersion
    /\ syncer[s].synced \/ syncer[s].cache # None

Init ==
    /\ log = <<[r \in Rows |-> 1]>>
    /\ cvrs = [v \in {EmptyVersion} |->
                  [queries |-> {}, got |-> {}, rows |-> NoRows,
                   desired |-> [c \in Clients |-> Unknown]]]
    /\ db = [version |-> EmptyVersion, owner |-> NoOne, grantedAt |-> 0,
             rows |-> NoRows, rowsVersion |-> EmptyVersion]
    /\ syncer = [s \in Syncers |-> Fresh]
    /\ pending = [s \in Syncers |-> NotPending]
    /\ handler = [s \in Syncers |-> NoHandlers]
    /\ op = [s \in Syncers |-> Idle]
    /\ client = [c \in Clients |-> [on |-> FALSE, at |-> NoOne, ws |-> 0, cookie |-> NoVersion,
                                    rows |-> [r \in Rows |-> 0], receiving |-> FALSE,
                                    lost |-> FALSE]]
    /\ wants = [c \in Clients |-> Queries]
    /\ used = [connects |-> 0, events |-> 0]

-----------------------------------------------------------------------------
(* The replica, the network and the tasks. *)

\* The replicator commits a version that writes or deletes one row.
Replicate ==
    /\ Tip < MaxVersion
    /\ \E r \in Rows, content \in {0, Tip + 1} :
          /\ content # log[Tip][r]
          /\ log' = Append(log, [log[Tip] EXCEPT ![r] = content])
    /\ UNCHANGED <<cvrs, db, syncer, pending, handler, op, client, wants, used>>

Bounded == used.connects + used.events < MaxEvents

\* A client connects, or gives up a connection for a new one: initConnection
\* replaces the handler at once and queues its message on the lock; the syncer
\* notes the time, which is the number of the connection.
Connect(c, s) ==
    /\ ~client[c].lost
    /\ Bounded
    /\ syncer[s].state \in {"none", "up"}
    /\ Survivors \/ ~Stranded(s)
    /\ LET now == used.connects + 1 IN
         /\ used' = [used EXCEPT !.connects = now]
         /\ syncer' = [syncer EXCEPT ![s].state = "up", ![s].lct = now]
         /\ handler' = [handler EXCEPT ![s][c] =
               [ws |-> now, base |-> client[c].cookie, poked |-> FALSE, msg |-> "init"]]
         /\ client' = [client EXCEPT ![c].on = TRUE, ![c].at = s, ![c].ws = now,
                                     ![c].receiving = FALSE]
    /\ UNCHANGED <<log, cvrs, db, pending, op, wants>>

\* The client changes its desired queries and says so if it is connected; the
\* queue is short of messages that one operation answers together.
ChangeDesired(c) ==
    /\ Bounded
    /\ used' = [used EXCEPT !.events = @ + 1]
    /\ \E q \in Queries :
          wants' = [wants EXCEPT ![c] = IF q \in @ THEN @ \ {q} ELSE @ \cup {q}]
    /\ handler' = [s \in Syncers |->
          IF Connected(s, c) /\ handler[s][c].msg = "none"
          THEN [handler[s] EXCEPT ![c].msg = "change"] ELSE handler[s]]
    /\ UNCHANGED <<log, cvrs, db, syncer, pending, op, client>>

Off(cl) == [cl EXCEPT !.on = FALSE, !.receiving = FALSE]

\* #deleteClientDueToDisconnect, some time after the connection is gone.
Notice(s, c) ==
    /\ handler[s][c].ws # 0 /\ ~Connected(s, c)
    /\ handler' = [handler EXCEPT ![s][c] = NoHandler]
    /\ UNCHANGED <<log, cvrs, db, syncer, pending, op, client, wants, used>>

HungUp(s) == [c \in Clients |-> IF Connected(s, c) THEN Off(client[c]) ELSE client[c]]

\* Mutant: a syncer that stops gives up what it has yet to flush.
Stop_Abandons(s) ==
    /\ Bounded /\ syncer[s].state = "up"
    /\ used' = [used EXCEPT !.events = @ + 1]
    /\ syncer' = [syncer EXCEPT ![s].state = "stopped"]
    /\ client' = HungUp(s)
    /\ handler' = [handler EXCEPT ![s] = NoHandlers]
    /\ pending' = [pending EXCEPT ![s] = NotPending]
    /\ UNCHANGED <<log, cvrs, db, op, wants>>

\* Shut down when idle, or drained: no operation starts any more; the one that
\* holds the lock and the pending flush go on.
Stop(s) ==
    /\ Bounded /\ syncer[s].state = "up"
    /\ used' = [used EXCEPT !.events = @ + 1]
    /\ syncer' = [syncer EXCEPT ![s].state = "stopped"]
    /\ client' = HungUp(s)
    /\ handler' = [handler EXCEPT ![s] = NoHandlers]
    /\ UNCHANGED <<log, cvrs, db, pending, op, wants>>

\* The process dies, and with it what was only in memory.
Crash(s) ==
    /\ Bounded /\ syncer[s].state \in {"up", "stopped"}
    /\ used' = [used EXCEPT !.events = @ + 1]
    /\ syncer' = [syncer EXCEPT ![s] = [Fresh EXCEPT !.state = "crashed"]]
    /\ client' = HungUp(s)
    /\ handler' = [handler EXCEPT ![s] = NoHandlers]
    /\ pending' = [pending EXCEPT ![s] = NotPending]
    /\ op' = [op EXCEPT ![s] = Idle]
    /\ UNCHANGED <<log, cvrs, db, wants>>

-----------------------------------------------------------------------------
(* Pokes.  A poke is made of its start, row patches and an end; pushes to a *)
(* live connection arrive at once, the others are lost.                     *)

\* The clients startPoke makes pokers for: those behind its version, and those
\* at it that have not had a poke yet.
Pokers(s, v) ==
    {c \in Clients : LET h == handler[s][c] IN
        h.ws # 0 /\ (Less(h.base, v) \/ (h.base = v /\ ~h.poked))}

\* A poker writes to the connection it was made for.
Sockets(s, cs) == [c \in cs |-> handler[s][c].ws]

Served(s, o) == {c \in DOMAIN o.pokers : handler[s][c].ws = o.pokers[c]}

\* Whether the start of a poke went out with its first patch.
Started(h, o) == Newer(o.patches, h.base) # None \/ (o.noted /\ Less(h.base, o.to))

\* The client takes a whole poke, or drops the connection if it starts within
\* another one, from another base, or ends below the client's cookie.
Apply(cl, base, patches, cookie) ==
    IF cl.receiving \/ base # cl.cookie \/ Less(cookie, cl.cookie) THEN Off(cl)
    ELSE IF cookie = cl.cookie THEN cl
    ELSE [cl EXCEPT !.cookie = cookie,
            !.rows = [r \in Rows |-> IF r \in DOMAIN patches THEN patches[r].row ELSE @[r]]]

\* Nothing was sent and nothing has to be.
Quiet(h, o, final) == ~Started(h, o) /\ h.base = final /\ h.poked

\* end: a poke that was started may not end at or below its base.
Ends(h, o, final) == ~Quiet(h, o, final) /\ ~(Started(h, o) /\ AtMost(final, h.base))

\* A poke left without its end.
Dangling(s, c) == [client[c] EXCEPT !.receiving = Connected(s, c) \/ @]

ClientsAfter(s, o, final) ==
    [c \in Clients |->
        LET h == handler[s][c] IN
        IF c \notin Served(s, o) \/ ~Connected(s, c) \/ Quiet(h, o, final) THEN client[c]
        ELSE IF ~Ends(h, o, final) THEN Dangling(s, c)
        ELSE Apply(client[c], h.base, Newer(o.patches, h.base), final)]

HandlersAfter(s, o, final) ==
    [handler EXCEPT ![s] = [c \in Clients |->
        LET h == handler[s][c] IN
        IF c \in Served(s, o) /\ Ends(h, o, final)
        THEN [h EXCEPT !.base = final, !.poked = TRUE] ELSE h]]

-----------------------------------------------------------------------------
(* Loading the CVR, and an operation that fails. *)

\* Another task has taken the CVR over since the syncer's last connection.
Deposed(s) == db.owner \notin {NoOne, TaskOf[s]} /\ db.grantedAt > syncer[s].lct

HasCvr(s) == syncer[s].cvr # NoVersion

\* Mutant: rows that are behind the rest of the CVR are loaded as they are.
Loads_AnyRows(s) == HasCvr(s) \/ ~Deposed(s)

\* A load succeeds unless the CVR was taken over or its rows are behind it.
Loads(s) == HasCvr(s) \/ (~Deposed(s) /\ db.rowsVersion = db.version)

\* The syncer once its CVR is loaded, or just claimed for the next attempt.
Claiming(s) ==
    IF HasCvr(s) \/ db.owner \in {NoOne, TaskOf[s]} \/ Deposed(s) THEN syncer[s]
    ELSE [syncer[s] EXCEPT !.claim = syncer[s].lct]
Loaded(s) == IF HasCvr(s) THEN syncer[s] ELSE [Claiming(s) EXCEPT !.cvr = db.version]

\* The ownership change load() fires and forgets.
Claim(s) ==
    /\ syncer[s].claim # 0
    /\ syncer' = [syncer EXCEPT ![s].claim = 0]
    /\ db' = IF db.grantedAt <= syncer[s].claim
             THEN [db EXCEPT !.owner = TaskOf[s], !.grantedAt = syncer[s].claim] ELSE db
    /\ UNCHANGED <<log, cvrs, pending, handler, op, client, wants, used>>

Free(s) == syncer[s].state = "up" /\ op[s] = Idle /\ (Survivors \/ ~Stranded(s))
Called(s, c) == Free(s) /\ handler[s][c].msg # "none"
Woken(s) == Free(s) /\ syncer[s].ready /\ syncer[s].pv < Tip
Asked(s) == Woken(s) \/ \E c \in Clients : Called(s, c)

\* The rows are behind the rest of the CVR: claim it and try again.
RetryLoad(s) ==
    /\ Asked(s) /\ ~Loads(s) /\ ~Deposed(s)
    /\ Claiming(s) # syncer[s]
    /\ syncer' = [syncer EXCEPT ![s] = Claiming(s)]
    /\ UNCHANGED <<log, cvrs, db, pending, handler, op, client, wants, used>>

\* client.fail: the connection is closed; with "lost" the client drops its data.
ClientFails(s, c, lost) ==
    /\ handler' = [handler EXCEPT ![s][c] = NoHandler]
    /\ client' = IF ~Connected(s, c) THEN client
                 ELSE [client EXCEPT ![c] = [Off(@) EXCEPT !.lost = lost]]

\* The run loop ends: the syncer stops.
RunFails(s, lost) ==
    /\ handler' = [handler EXCEPT ![s] = NoHandlers]
    /\ client' = [c \in Clients |-> [HungUp(s)[c] EXCEPT !.lost = @ \/ (lost /\ Connected(s, c))]]

\* The CVR belongs to another task, or its rows never came: ClientNotFoundError.
LoadFails(s) ==
    /\ ~Loads(s)
    /\ \/ \E c \in Clients : Called(s, c) /\ ClientFails(s, c, ~Deposed(s)) /\ UNCHANGED syncer
       \/ Woken(s) /\ RunFails(s, ~Deposed(s))
          /\ syncer' = [syncer EXCEPT ![s].state = "stopped"]
    /\ UNCHANGED <<log, cvrs, db, pending, op, wants, used>>

\* An operation throws: the CVR is dropped, a client's operation costs that
\* client its connection and leaves the others' pokes without an end, the run
\* loop's ends the syncer.
OperationFails(s, cache) ==
    LET o == op[s]
        me == [syncer[s] EXCEPT !.cvr = NoVersion, !.cache = cache]
        mine == handler[s][o.c].ws = o.ws
    IN  /\ op' = [op EXCEPT ![s] = Idle]
        /\ IF o.run
           THEN RunFails(s, FALSE) /\ syncer' = [syncer EXCEPT ![s] = [me EXCEPT !.state =
                                          IF @ = "up" THEN "stopped" ELSE @]]
           ELSE /\ syncer' = [syncer EXCEPT ![s] = me]
                /\ handler' = IF mine THEN [handler EXCEPT ![s][o.c] = NoHandler] ELSE handler
                /\ client' = [c \in Clients |->
                      IF c = o.c /\ mine /\ Connected(s, c) THEN Off(client[c])
                      ELSE IF c \in Served(s, o) /\ Started(handler[s][c], o)
                      THEN Dangling(s, c) ELSE client[c]]

-----------------------------------------------------------------------------
(* Operations.  Each holds the syncer's lock from its start to its end; what *)
(* happens between two round trips to the database is one step.             *)

ClientOp(c, ws) == [Idle EXCEPT !.c = c, !.ws = ws]
RunOp == [Idle EXCEPT !.run = TRUE]

CacheOf(s) == IF syncer[s].cache = None THEN Cached(db.rows) ELSE syncer[s].cache

\* The rows of these queries.
Hits(queries, content) == {r \in Rows : content[r] # 0 /\ \E q \in queries : r \in Selects[q]}

\* The records of the rows that are touched when queries are hydrated and others
\* removed: those received and those that counted for one of these queries.
Resynced(cache, adds, expired, content, to) ==
    LET received == Hits(adds, content)
        touched == received \cup
                     {r \in Rows : \E q \in adds \cup expired : cache[r].refs[q] # 0}
        refs(r) == [q \in Queries |->
                      IF q \in adds /\ r \in Selects[q] /\ content[r] # 0 THEN 1
                      ELSE IF q \in adds \cup expired THEN 0 ELSE cache[r].refs[q]]
        version(r) == IF r \in received THEN content[r] ELSE cache[r].at
    IN  [r \in touched |-> Updated(cache[r], refs(r), version(r), to)]

\* The records of the rows that change when the queries' pipelines go from one
\* version of the replica to another.
Advanced(cache, queries, old, new, to) ==
    LET changed == {r \in Rows : old[r] # new[r] /\ \E q \in queries : r \in Selects[q]}
        delta(r) == IF old[r] = 0 THEN 1 ELSE IF new[r] = 0 THEN -1 ELSE 0
        refs(r) == [q \in Queries |-> cache[r].refs[q]
                      + IF q \in queries /\ r \in Selects[q] THEN delta(r) ELSE 0]
    IN  [r \in changed |-> Updated(cache[r], refs(r), new[r], to)]

\* Of the new records, those to be written.
Changes(old, new) ==
    LET differs == {r \in DOMAIN new :
                       new[r] # old[r] /\ (Referenced(old[r]) \/ Referenced(new[r]))}
    IN  [r \in differs |-> new[r]]

\* The patches sent for the new records of rows that were received.
Patches(old, new, received, to) ==
    LET gone == {r \in DOMAIN new : Referenced(old[r]) /\ ~Referenced(new[r])}
        put == {r \in DOMAIN new : Referenced(new[r]) /\ received[r] # 0}
    IN  [r \in gone \cup put |->
            IF r \in gone THEN [row |-> 0, to |-> to]
            ELSE [row |-> received[r], to |-> new[r].patch]]

\* #syncQueryPipelineSet with the syncer, the CVR and the handlers as they are
\* when it starts: queries that expired are removed, those without a pipeline
\* are hydrated, and all clients are poked; if there are none, clients that are
\* behind are caught up.
Sync(s, me, v, cv, cache, hs, who) ==
    \E expired \in SUBSET (cv.queries \ Desired(cv)) :
       LET adds == (cv.queries \ expired) \ me.hydrated
           to == IF me.pv > v[1] THEN <<me.pv, 0>> ELSE OneAfter(v)
           received == [r \in Rows |-> IF r \in Hits(adds, log[me.pv]) THEN log[me.pv][r] ELSE 0]
           new == Resynced(cache, adds, expired, log[me.pv], to)
           rows == Changes(cache, new)
           requeried == expired # {} \/ ~(adds \subseteq cv.got)
           sockets == [c \in {d \in Clients : hs[s][d].ws # 0} |-> hs[s][c].ws]
           next == [me EXCEPT !.cvr = v]
       IN IF adds \cup expired = {}
          THEN /\ op' = [op EXCEPT ![s] = [who EXCEPT !.pc = "catchup", !.from = v, !.to = v,
                                                      !.pokers = sockets]]
               /\ syncer' = [syncer EXCEPT ![s] = next]
          ELSE /\ op' = [op EXCEPT ![s] = [who EXCEPT !.pc = "flush", !.from = v, !.to = to,
                            !.bad = me.pv < v[1], !.noted = requeried,
                            !.writes = requeried \/ rows # None,
                            !.queries = cv.queries \ expired, !.got = (cv.got \ expired) \cup adds,
                            !.adds = adds, !.rows = rows, !.pokers = sockets,
                            !.patches = Patches(cache, new, received, to)]]
               /\ syncer' = [syncer EXCEPT ![s] =
                                [next EXCEPT !.cache = cache,
                                             !.hydrated = (@ \ expired) \cup adds]]

\* checkClientAndCVRVersions
Refused(s, c) == handler[s][c].msg = "init" /\ Less(Loaded(s).cvr, handler[s][c].base)

\* #runInLockForClient up to the first flush: the desired queries that changed
\* have to be recorded, or else there is only the pipelines to see to.
Serve(s, c) ==
    /\ Called(s, c) /\ Loads(s) /\ ~Refused(s, c)
    /\ LET me == Loaded(s)
           cv == cvrs[me.cvr]
           who == ClientOp(c, handler[s][c].ws)
       IN  /\ handler' = [handler EXCEPT ![s][c].msg = "none"]
           /\ IF cv.desired[c] # wants[c]
              THEN /\ op' = [op EXCEPT ![s] = [who EXCEPT !.pc = "config", !.from = me.cvr,
                                                          !.to = OneAfter(me.cvr)]]
                   /\ syncer' = [syncer EXCEPT ![s] = me]
              ELSE IF me.synced
              THEN Sync(s, me, me.cvr, cv, CacheOf(s), handler', who)
              ELSE op' = op /\ syncer' = [syncer EXCEPT ![s] = [me EXCEPT !.ready = TRUE]]
    /\ UNCHANGED <<log, cvrs, db, pending, client, wants, used>>

\* The client is ahead of the CVR the syncer goes by, and drops its data.
Refuse(s, c) ==
    /\ Called(s, c) /\ Loads(s) /\ Refused(s, c)
    /\ ClientFails(s, c, TRUE)
    /\ syncer' = [syncer EXCEPT ![s] = [Loaded(s) EXCEPT !.cvr = NoVersion]]
    /\ UNCHANGED <<log, cvrs, db, pending, op, wants, used>>

\* #advancePipelines to a version of the replica.
Advance(s, me, now) ==
    LET v == me.cvr
        cache == CacheOf(s)
        to == Later(v, now)
        new == Advanced(cache, me.hydrated, log[me.pv], log[now], to)
        rows == Changes(cache, new)
        current == {c \in Clients : LET h == handler[s][c] IN
                      h.ws # 0 /\ (h.base = v \/ (h.base = NoVersion /\ v = EmptyVersion))}
    IN  /\ op' = [op EXCEPT ![s] = [RunOp EXCEPT !.pc = "flush", !.advance = TRUE,
                     !.from = v, !.to = to, !.bad = now < v[1], !.writes = rows # None,
                     !.queries = cvrs[v].queries, !.got = cvrs[v].got, !.rows = rows,
                     !.patches = Patches(cache, new, log[now], to),
                     !.pokers = Sockets(s, current \cap Pokers(s, to))]]
        /\ syncer' = [syncer EXCEPT ![s] = [me EXCEPT !.pv = now,
                         !.cache = IF DOMAIN new = {} THEN @ ELSE cache]]

\* The run loop without pipelines: it waits until the replica has reached the
\* CVR, then hydrates what the CVR has got at that very version and syncs.
Hydrate(s, me, now) ==
    LET v == me.cvr
        at == [me EXCEPT !.pv = now, !.synced = FALSE]
        unchanged == IF v[1] = at.pv THEN cvrs[v].got \cap Desired(cvrs[v]) ELSE {}
    IN  IF at.pv < v[1] THEN syncer' = [syncer EXCEPT ![s] = at] /\ op' = op
        ELSE Sync(s, [at EXCEPT !.hydrated = unchanged], v, cvrs[v], CacheOf(s), handler,
                  RunOp)

\* A turn of the run loop, at some version its replica has reached by now;
\* pipelines may be reset instead of advanced.
Run(s) ==
    /\ Woken(s) /\ Loads(s)
    /\ \E now \in (syncer[s].pv + 1)..Tip :
          \/ syncer[s].synced /\ Advance(s, Loaded(s), now)
          \/ Hydrate(s, Loaded(s), now)
    /\ UNCHANGED <<log, cvrs, db, pending, handler, client, wants, used>>

\* Mutant: only the owner is checked.
Conflict_AnyVersion(s, o) == Deposed(s)

\* #checkVersionAndOwnership inside the transaction of a flush.
Conflict(s, o) == Deposed(s) \/ db.version # o.from

\* The transaction of a flush; the row records may be left for later.
Commit(s, o, cv, rows, defer) ==
    /\ cvrs' = cvrs ++ [v \in {o.to} |-> cv]
    /\ db' = [version |-> o.to, owner |-> TaskOf[s], grantedAt |-> syncer[s].lct,
              rows |-> IF defer THEN db.rows ELSE rows ++ db.rows,
              rowsVersion |-> IF defer THEN db.rowsVersion ELSE o.to]
    /\ pending' = IF defer THEN [pending EXCEPT ![s] =
                                   [rows |-> rows ++ @.rows, version |-> o.to]]
                  ELSE pending

\* #updateCVRConfig: flushed, and poked to the clients that are up to date.
FlushConfig(s) ==
    LET o == op[s]
        old == cvrs[o.from]
        cv == [old EXCEPT !.desired[o.c] = wants[o.c], !.queries = @ \cup wants[o.c]]
        current == {c \in Pokers(s, o.to) :
                       handler[s][c].base = o.from
                       \/ (handler[s][c].base = NoVersion /\ o.from = EmptyVersion)}
        poke == [o EXCEPT !.noted = TRUE, !.pokers = Sockets(s, current)]
        me == [syncer[s] EXCEPT !.cvr = o.to, !.cache = CacheOf(s)]
    IN  /\ o.pc = "config" /\ ~Conflict(s, o)
        /\ Commit(s, o, cv, None, Flushing(s))
        /\ client' = ClientsAfter(s, poke, o.to)
        /\ handler' = HandlersAfter(s, poke, o.to)
        /\ IF me.synced THEN Sync(s, me, o.to, cv, CacheOf(s), handler', ClientOp(o.c, o.ws))
           ELSE /\ op' = [op EXCEPT ![s] = Idle]
                /\ syncer' = [syncer EXCEPT ![s] = [me EXCEPT !.ready = TRUE]]
        /\ UNCHANGED <<log, wants, used>>

\* The operation is over: a client's makes the run loop ready, the run loop's
\* leaves the pipelines synced.
Done(s, me, o) ==
    /\ op' = [op EXCEPT ![s] = Idle]
    /\ syncer' = [syncer EXCEPT ![s] = [me EXCEPT !.ready = TRUE, !.synced = @ \/ o.run]]

\* Mutant: the new version is taken on though nothing was written.
Final_Unwritten(o) == o.to

\* The version after a flush: the old one if there was nothing to write.
Final(o) == IF o.writes THEN o.to ELSE o.from

\* The updater's flush: nothing to write, nothing checked; otherwise the rows
\* may be left for later, and have to be if a flush of others is pending.
Flush(s) ==
    LET o == op[s]
        final == Final(o)
        cache == Cached(o.rows ++ CacheOf(s))
        me == [syncer[s] EXCEPT !.cvr = final, !.cache = IF o.writes THEN cache ELSE @]
        cv == [cvrs[o.from] EXCEPT !.queries = o.queries, !.got = o.got, !.rows = cache]
    IN  /\ o.pc = "flush" /\ ~o.bad
        /\ IF ~o.writes THEN UNCHANGED <<cvrs, db, pending>>
           ELSE /\ ~Conflict(s, o)
                /\ \E defer \in BOOLEAN :
                      /\ Flushing(s) => defer
                      /\ defer => Flushing(s) \/ o.rows # None
                      /\ Commit(s, o, cv, o.rows, defer)
        /\ IF o.advance
           THEN /\ Done(s, me, o)
                /\ client' = ClientsAfter(s, o, final)
                /\ handler' = HandlersAfter(s, o, final)
           ELSE /\ op' = [op EXCEPT ![s].pc = "catchup"]
                /\ syncer' = [syncer EXCEPT ![s] = me]
                /\ UNCHANGED <<client, handler>>
        /\ UNCHANGED <<log, wants, used>>

\* A flush that fails empties the row cache; what is pending stays.
FlushFails(s) ==
    LET o == op[s] IN
    /\ \/ o.pc = "config" /\ Conflict(s, o)
       \/ o.pc = "flush" /\ (o.bad \/ (o.writes /\ Conflict(s, o)))
    /\ OperationFails(s, None)
    /\ UNCHANGED <<log, cvrs, db, pending, wants, used>>

\* #flush of the row cache, conditioned neither on the version nor on the owner.
FlushPending(s) ==
    /\ Flushing(s)
    /\ db' = [db EXCEPT !.rows = pending[s].rows ++ @, !.rowsVersion = pending[s].version]
    /\ pending' = [pending EXCEPT ![s] = NotPending]
    /\ UNCHANGED <<log, cvrs, syncer, handler, op, client, wants, used>>

Oldest(s, v) ==
    LET bases == {v} \cup {handler[s][c].base : c \in {d \in Clients : handler[s][d].ws # 0}}
    IN  CHOOSE b \in bases : \A x \in bases : AtMost(b, x)

\* The rows whose last patch is after the oldest base and not after the CVR
\* the operation started from, save those of the queries it hydrated.
CaughtUp(s, o) ==
    {r \in Rows : LET rec == db.rows[r] IN
        /\ Less(Oldest(s, o.from), rec.patch) /\ AtMost(rec.patch, o.from)
        /\ \A q \in o.adds : rec.refs[q] = 0}

Behind(s, o) == Less(Oldest(s, o.from), o.from)
Content(s, r) == IF Referenced(db.rows[r]) THEN log[syncer[s].pv][r] ELSE 0

\* The CVR has been modified since, or a row it lists is not in the replica.
CatchupConflict(s, o) ==
    /\ Behind(s, o)
    /\ \/ db.version # syncer[s].cvr
       \/ \E r \in CaughtUp(s, o) : Referenced(db.rows[r]) /\ Content(s, r) = 0

\* #catchupClients reads the rows once they are flushed, their content comes
\* from the pipelines' snapshot; then the pokes end.
Catchup(s) ==
    LET o == op[s]
        missed == [r \in IF Behind(s, o) THEN CaughtUp(s, o) ELSE {} |->
                      [row |-> Content(s, r), to |-> db.rows[r].patch]]
        live == {c \in Served(s, o) : c \in Pokers(s, o.to)}
        full == [o EXCEPT !.patches = missed ++ @, !.pokers = [c \in live |-> o.pokers[c]]]
    IN  /\ o.pc = "catchup" /\ (Behind(s, o) => ~Flushing(s)) /\ ~CatchupConflict(s, o)
        /\ client' = ClientsAfter(s, full, syncer[s].cvr)
        /\ handler' = HandlersAfter(s, full, syncer[s].cvr)
        /\ Done(s, syncer[s], o)
        /\ UNCHANGED <<log, cvrs, db, pending, wants, used>>

CatchupFails(s) ==
    /\ op[s].pc = "catchup" /\ ~Flushing(s) /\ CatchupConflict(s, op[s])
    /\ OperationFails(s, syncer[s].cache)
    /\ UNCHANGED <<log, cvrs, db, pending, wants, used>>

-----------------------------------------------------------------------------

Environment ==
    \/ Replicate
    \/ \E s \in Syncers : Stop(s) \/ Crash(s)
    \/ \E c \in Clients : ChangeDesired(c)
    \/ \E c \in Clients, s \in Syncers : Connect(c, s)

Step(s) ==
    \/ RetryLoad(s) \/ LoadFails(s) \/ Run(s) \/ FlushConfig(s) \/ Flush(s) \/ FlushFails(s)
    \/ Catchup(s) \/ CatchupFails(s)
    \/ \E c \in Clients : Serve(s, c) \/ Refuse(s, c)

Internal ==
    \E s \in Syncers :
       \/ Step(s) \/ Claim(s) \/ FlushPending(s)
       \/ \E c \in Clients : Notice(s, c)

Next == Environment \/ Internal

Spec == Init /\ [][Next]_vars

-----------------------------------------------------------------------------

Versions == {NoVersion} \cup DOMAIN cvrs

Records == [refs : [Queries -> Nat], at : 0..MaxVersion, patch : DOMAIN cvrs]

\* The types; every version a handler, a client, a syncer or the database goes
\* by has been committed.
TypeOK ==
    /\ \A v \in DOMAIN log : log[v] \in [Rows -> 0..v]
    /\ \A v \in DOMAIN cvrs :
          /\ v[1] \in 0..MaxVersion /\ v[2] \in Nat
          /\ cvrs[v].queries \subseteq Queries /\ cvrs[v].got \subseteq cvrs[v].queries
          /\ cvrs[v].rows \in [Rows -> Records]
          /\ \A c \in Clients : cvrs[v].desired[c] = Unknown \/ cvrs[v].desired[c] \subseteq Queries
    /\ {db.version, db.rowsVersion} \subseteq DOMAIN cvrs /\ db.rows \in [Rows -> Records]
    /\ \A s \in Syncers :
          /\ syncer[s].state \in {"none", "up", "stopped", "crashed"}
          /\ syncer[s].cvr \in Versions
          /\ syncer[s].pv \in 0..Tip /\ syncer[s].hydrated \subseteq Queries
          /\ op[s].pc \in {"idle", "config", "flush", "catchup"}
          /\ pending[s].version \in Versions
          /\ \A c \in Clients : /\ handler[s][c].base \in Versions
                               /\ handler[s][c].msg \in {"none", "init", "change"}
    /\ \A c \in Clients : /\ client[c].cookie \in Versions
                         /\ client[c].rows \in [Rows -> 0..Tip]

\* Every client has exactly the rows of the CVR its cookie names.  It does not
\* hold once a syncer goes on after an operation of it has failed:
\* #runInLockWithCVR (view-syncer.ts:533) drops the CVR and keeps the pipelines,
\* the CVR it loads next may be ahead of them, and #catchupClients then sends
\* rows of the older snapshot under the newer cookie.
ViewMatchesCookie ==
    \A c \in Clients :
        client[c].cookie # NoVersion =>
            client[c].rows = View(cvrs[client[c].cookie].rows)

Promise == INSTANCE ClientView WITH
    views <- [v \in DOMAIN cvrs |-> View(cvrs[v].rows)],
    seen <- [c \in Clients |-> [cookie |-> client[c].cookie, rows |-> client[c].rows,
                                lost |-> client[c].lost]]

\* The flushes of all syncers make one history of versions, none of which is
\* written twice, and whatever pokes a client gets, from whichever syncer, over
\* connections that come and go, it only ever moves forward in that history and
\* has all rows of the version it is at (cvr-store.ts #checkVersionAndOwnership,
\* client-handler.ts startPoke, zero-poke-handler.ts, pull.ts).
ImplementsClientView == Promise!Spec

\* The rows of a committed CVR, and their reference counts, are those its got
\* queries select in the replica at its state version: rows, patches and
\* queries that are received, advanced and removed by different operations of
\* different syncers add up (cvr.ts received, deleteUnreferencedRows).
CvrIsConsistent ==
    \A v \in DOMAIN cvrs \ {EmptyVersion} :
        \A r \in Rows :
            LET rec == cvrs[v].rows[r]
                Selected(q) == q \in cvrs[v].got /\ r \in Selects[q]
                               /\ v[1] > 0 /\ log[v[1]][r] # 0
            IN  /\ \A q \in Queries : rec.refs[q] = IF Selected(q) THEN 1 ELSE 0
                /\ Referenced(rec) => rec.at = log[v[1]][r] /\ AtMost(rec.patch, v)

\* The row records in the database, though flushed apart from the rest, by a
\* syncer that may have been deposed or stopped, are those of the version they
\* are marked with (row-record-cache.ts #flush, "rowsVersion").
RowsBelongToVersion == Cached(db.rows) = cvrs[db.rowsVersion].rows

\* If the rows are behind the CVR, somebody has them and is going to flush
\* them, or a process died: a load that waits for them does not wait in vain
\* (cvr-store.ts #load, row-record-cache.ts #flush).
LaggingRowsHaveAFlusher ==
    db.rowsVersion # db.version =>
        \/ \E s \in Syncers : pending[s].version = db.version
        \/ \E s \in Syncers : syncer[s].state = "crashed"

\* No syncer has anything to do.
Settled == \A s \in Syncers : op[s] = Idle /\ ~Asked(s)

\* The CVR says what the client desires.
Heeded(c) == cvrs[db.version].desired[c] = wants[c]

\* Once there is nothing left to do, no client of a syncer that has the current
\* CVR waits for anything: it has the rows its queries select in the latest
\* replica, whatever was flushed, poked, cut off or taken over on the way
\* (view-syncer.ts run, #runInLockForClient, #catchupClients).
SettledClientsAreCurrent ==
    Settled =>
        \A c \in Clients :
            client[c].on /\ syncer[client[c].at].cvr = db.version =>
                /\ Clients = {c} => Heeded(c)
                /\ Heeded(c) =>
                      \A q \in wants[c] : \A r \in Selects[q] : client[c].rows[r] = log[Tip][r]

=============================================================================
