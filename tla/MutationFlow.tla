---------------------------- MODULE MutationFlow ----------------------------
(***************************************************************************)
(* The way of a custom mutation: made in a tab, pushed over its web        *)
(* socket, queued and combined by a pusher, executed by the API server     *)
(* next to the client's last mutation ID, replicated, and confirmed to the *)
(* tab by a poke.  The tabs of a client group share what they persist, and *)
(* a tab pushes what other tabs left there.                                *)
(*                                                                         *)
(* A position is a prefix of the committed mutations: a snapshot of the    *)
(* database, of a replica, of the CVR or of a tab, and its cookie.  A      *)
(* message that is lost on its way is one that was not sent before the     *)
(* connection broke.                                                       *)
(***************************************************************************)
EXTENDS Naturals, Sequences, FiniteSets

CONSTANTS
    Clients,        \* the tabs of one client group
    Pushers,        \* PusherServices of the group in a zero-cache process
    Orphan,         \* a request to the API server that nobody waits for
    None,           \* no pusher
    Limit,          \* mutations each tab may make
    Rejected,       \* the mutations that the application rejects
    Closing,        \* the tabs that may be closed
    MaxPersists,    \* times a tab may persist
    MaxFaults,      \* lost connections and requests, crashes, failing databases
    SharedReplica   \* whether all view-syncers of the group read one replica

ASSUME FlowAssumption ==
    /\ None \notin Pushers /\ Orphan \notin Pushers
    /\ Limit \in [Clients -> Nat]
    /\ Rejected \subseteq [client : Clients, id : Nat]
    /\ Closing \subseteq Clients
    /\ {MaxPersists, MaxFaults} \subseteq Nat
    /\ SharedReplica \in BOOLEAN

VARIABLES
    log,      \* what was committed upstream, in order
    lmids,    \* lastMutationID in the clients table
    replica,  \* the last position a view-syncer has read
    cvr,      \* the position of the CVR
    poke,     \* the poke that waits for the CVR to be flushed
    perdag,   \* what the tabs have persisted
    tab,      \* Zero and Replicache in each tab
    outcome,  \* what each tab was told of each mutation it made
    conn,     \* the connection of each tab
    queue,    \* the pushes that wait for a pusher, by connection
    pushes,   \* the combined pushes it has taken, still to be sent
    request,  \* the requests the API server works on
    alive,    \* pushers whose run() goes on
    current,  \* the pusher the ServiceRunner knows
    broken,   \* whether a push has failed
    used      \* times the tabs have persisted, and faults, so far

db == <<log, lmids>>
views == <<replica, cvr, poke>>
tabs == <<perdag, tab, outcome>>
server == <<queue, pushes, request, alive, current>>
vars == <<db, views, tabs, conn, server, broken, used>>

-----------------------------------------------------------------------------

\* lastMutationID of a client at a position: every commit adds one.
Lmid(p, c) == Cardinality({i \in 1..p : log[i].client = c})

Larger(m, n) == IF m >= n THEN m ELSE n

NoMutations == [c \in Clients |-> 0]
Made(c) == Len(outcome[c])

NoPoke == [to |-> 0, ws |-> NoMutations]
NoConnection == [pusher |-> None, ws |-> 0, live |-> FALSE, base |-> 0]
Blank == [state |-> "new", snap |-> 0, loaded |-> NoMutations, received |-> 0,
          tracked |-> 0, sent |-> NoMutations, buffer |-> 0]

Handlers == Pushers \cup {Orphan}
Resting == [muts |-> << >>, done |-> 0, failed |-> FALSE]
Start(muts) == [muts |-> muts, done |-> 0, failed |-> FALSE]

Init ==
    /\ log = << >> /\ lmids = NoMutations
    /\ replica = 0 /\ cvr = 0 /\ poke = NoPoke
    /\ perdag = [snap |-> 0, made |-> NoMutations]
    /\ tab = [c \in Clients |-> Blank]
    /\ outcome = [c \in Clients |-> << >>]
    /\ conn = [c \in Clients |-> NoConnection]
    /\ queue = [p \in Pushers |-> << >>]
    /\ pushes = [p \in Pushers |-> << >>]
    /\ request = [h \in Handlers |-> Resting]
    /\ alive = {} /\ current = None
    /\ broken = FALSE /\ used = [persists |-> 0, faults |-> 0]

Fault == used.faults < MaxFaults /\ used' = [used EXCEPT !.faults = @ + 1]

-----------------------------------------------------------------------------
(* Outcomes. *)

\* Of some mutations of a tab, those that are not settled yet are.
Settle(results, ids, as) ==
    [i \in DOMAIN results |-> IF results[i] = "pending" /\ i \in ids THEN as ELSE results[i]]

\* rejectAllOutstandingMutations
AllSettled(results) == Settle(results, DOMAIN results, "zero")

\* lmidAdvanced, once its assertion holds.
UpTo(results, lmid, as) == Settle(results, 1..lmid, as)

\* #processMutationResponses: results between two positions.
WithResults(c, results, from, to) ==
    LET failed == {i \in DOMAIN results : \E k \in (from + 1)..to :
                      log[k].client = c /\ log[k].id = i /\ log[k].res = "failed"}
    IN  Settle(results, failed, "app")

-----------------------------------------------------------------------------
(* A tab. *)

Open(c) ==
    /\ tab[c].state = "new"
    /\ tab' = [tab EXCEPT ![c] = [Blank EXCEPT !.state = "open", !.snap = perdag.snap,
                                               !.loaded = perdag.made]]
    /\ UNCHANGED <<db, views, perdag, outcome, conn, server, broken, used>>

\* A custom mutator is called; one that is not connected yet will be pushed.
MakeMutation(c) ==
    /\ tab[c].state = "open" /\ Made(c) < Limit[c]
    /\ outcome' = [outcome EXCEPT ![c] = Append(@, "pending")]
    /\ UNCHANGED <<db, views, perdag, tab, conn, server, broken, used>>

\* persistDD31: its own mutations, and the base snapshot if it is newer.
Persist(c) ==
    /\ tab[c].state \in {"open", "paused"}
    /\ used.persists < MaxPersists /\ used' = [used EXCEPT !.persists = @ + 1]
    /\ perdag' = [snap |-> Larger(perdag.snap, tab[c].snap),
                  made |-> [perdag.made EXCEPT ![c] = Made(c)]]
    /\ perdag' # perdag
    /\ UNCHANGED <<db, views, tab, outcome, conn, server, broken>>

\* Mutant: the poke buffer outlives the connection.
Disconnected_KeepsBuffer(t) == [t EXCEPT !.sent = NoMutations]

\* #disconnect
Disconnected(t) == [t EXCEPT !.sent = NoMutations, !.buffer = 0]
Paused(t) == [Disconnected(t) EXCEPT !.state = "paused"]

\* The tab's end of a connection is gone; the server has yet to notice.
Cut(cn) == [cn EXCEPT !.live = FALSE]

Close(c) ==
    /\ c \in Closing /\ tab[c].state \in {"open", "paused"}
    /\ tab' = [tab EXCEPT ![c] = [Blank EXCEPT !.state = "closed"]]
    /\ outcome' = [outcome EXCEPT ![c] = AllSettled(@)]
    /\ conn' = [conn EXCEPT ![c] = Cut(@)]
    /\ UNCHANGED <<db, views, perdag, server, broken, used>>

\* A connection breaks; if the tab is hidden or offline it stays disconnected
\* and rejects its mutations, else it connects again.
Drop(c) ==
    /\ Fault /\ conn[c].live
    /\ conn' = [conn EXCEPT ![c] = Cut(@)]
    /\ \/ tab' = [tab EXCEPT ![c] = Disconnected(@)] /\ UNCHANGED outcome
       \/ tab' = [tab EXCEPT ![c] = Paused(@)]
          /\ outcome' = [outcome EXCEPT ![c] = AllSettled(@)]
    /\ UNCHANGED <<db, views, perdag, server, broken>>

\* connect(), or the tab becomes visible again.
Resume(c) ==
    /\ tab[c].state = "paused"
    /\ tab' = [tab EXCEPT ![c].state = "open"]
    /\ UNCHANGED <<db, views, perdag, outcome, conn, server, broken, used>>

-----------------------------------------------------------------------------
(* Connections and the pushers behind them. *)

\* The tabs whose connection holds a reference to a pusher, but for one.
Refs(p, c) == {d \in Clients \ {c} : conn[d].pusher = p}
Holders(p) == {d \in Clients : conn[d].pusher = p}

\* getService: the registered pusher while it has references, or a new one.
Serving(c) ==
    IF current # None /\ Refs(current, c) # {} THEN {current}
    ELSE {p \in Pushers \ alive : p = CHOOSE q \in Pushers \ alive : TRUE}

\* A tab connects: the server closes its old connection, the tab settles what
\* it has been told of and starts to push from its snapshot again.  If the last
\* mutation ID it has received went back, the attempt fails after all.
Connect(c) ==
    LET t == tab[c]
        accepted == t.received >= t.tracked
    IN  /\ t.state = "open" /\ ~conn[c].live
        /\ \E p \in Serving(c) :
              /\ alive' = alive \cup {p} /\ current' = p
              /\ conn' = [conn EXCEPT ![c] = [pusher |-> p, ws |-> @.ws + 1,
                                              live |-> accepted, base |-> t.snap]]
        /\ IF accepted
           THEN /\ tab' = [tab EXCEPT ![c].tracked = t.received, ![c].sent = NoMutations]
                /\ outcome' = [outcome EXCEPT ![c] =
                      IF t.received = t.tracked THEN @ ELSE UpTo(@, t.received, "assumed")]
           ELSE /\ tab' = [tab EXCEPT ![c] = Paused(@)]
                /\ outcome' = [outcome EXCEPT ![c] = AllSettled(@)]
        /\ UNCHANGED <<db, views, perdag, queue, pushes, request, broken, used>>

\* The server notices that a connection is gone, and gives up its pusher.
HangUp(c) ==
    /\ ~conn[c].live /\ conn[c].pusher # None
    /\ conn' = [conn EXCEPT ![c].pusher = None]
    /\ UNCHANGED <<db, views, tabs, server, broken, used>>

\* The ID after which the mutations of a client are still to be sent.
Sent(c, d) == Larger(tab[c].sent[d], Lmid(tab[c].snap, d))

\* Mutant: a tab pushes no mutations but its own.
Unsent_OwnOnly(c, d) == d = c /\ Sent(c, d) < Made(c)

Unsent(c, d) == Sent(c, d) < IF d = c THEN Made(c) ELSE tab[c].loaded[d]

\* A push is combined with those of the same connection that wait as well.
Enqueued(q, c, m) ==
    IF \E i \in DOMAIN q : q[i].client = c /\ q[i].ws = conn[c].ws
    THEN [i \in DOMAIN q |-> IF q[i].client = c /\ q[i].ws = conn[c].ws
                             THEN [q[i] EXCEPT !.muts = Append(@, m)] ELSE q[i]]
    ELSE Append(q, [client |-> c, ws |-> conn[c].ws, muts |-> <<m>>])

\* run(): a pusher that has nothing to do drains its queue, and the first of
\* the pushes goes to the API server.
Combined(q) == [i \in DOMAIN q |-> q[i].muts]
Go(p, todo, q, requests) ==
    LET next == IF todo = << >> THEN Combined(q) ELSE todo IN
    /\ queue' = [queue EXCEPT ![p] = IF todo = << >> THEN << >> ELSE q]
    /\ IF next = << >>
       THEN pushes' = [pushes EXCEPT ![p] = << >>] /\ request' = [requests EXCEPT ![p] = Resting]
       ELSE /\ pushes' = [pushes EXCEPT ![p] = Tail(next)]
            /\ request' = [requests EXCEPT ![p] = Start(Head(next))]

\* A mutation of a tab's main head is pushed: first those other tabs have left
\* there, then its own.  It waits if the pusher is busy.
Push(c) ==
    /\ conn[c].live
    /\ \E d \in Clients :
          /\ Unsent(c, d)
          /\ d = c => \A e \in Clients \ {c} : ~Unsent(c, e)
          /\ LET m == [client |-> d, id |-> Sent(c, d) + 1]
                 p == conn[c].pusher
             IN  /\ tab' = [tab EXCEPT ![c].sent[d] = m.id]
                 /\ IF request[p] = Resting
                    THEN Go(p, << >>, Enqueued(queue[p], c, m), request)
                    ELSE /\ queue' = [queue EXCEPT ![p] = Enqueued(@, c, m)]
                         /\ UNCHANGED <<pushes, request>>
    /\ UNCHANGED <<db, views, perdag, outcome, conn, alive, current, broken, used>>

-----------------------------------------------------------------------------
(* A pusher's requests. *)

\* Mutant: the other pushes are forgotten when one is done.
NextPush_Rests(p, requests) ==
    request' = [requests EXCEPT ![p] = Resting] /\ UNCHANGED <<queue, pushes>>

\* On to the next push.
NextPush(p, requests) == Go(p, pushes[p], queue[p], requests)

\* Mutant: nobody is told that a push has failed.
Failing_Nobody(p, muts) == {c \in Clients : conn[c].live /\ conn[c].pusher = p /\ muts = << >>}

\* #fanOutResponses: the connections of the clients whose mutations failed, as
\* far as this pusher has them, are closed, and their tabs stop.
Failing(p, muts) ==
    {c \in Clients : conn[c].live /\ conn[c].pusher = p /\ \E i \in DOMAIN muts : muts[i].client = c}

FanOut(p, muts) ==
    LET told == Failing(p, muts) IN
    /\ tab' = [c \in Clients |-> IF c \in told THEN Paused(tab[c]) ELSE tab[c]]
    /\ outcome' = [c \in Clients |-> IF c \in told THEN AllSettled(outcome[c]) ELSE outcome[c]]
    /\ conn' = [c \in Clients |->
          IF c \in told THEN [Cut(conn[c]) EXCEPT !.pusher = None] ELSE conn[c]]

Working(h) == request[h] # Resting

\* The API server gives up a push, and says which mutations it did not process.
PushFails(h) ==
    IF h = Orphan
    THEN request' = [request EXCEPT ![h] = Resting]
         /\ UNCHANGED <<tab, outcome, conn, queue, pushes, broken>>
    ELSE LET r == request[h] IN
         /\ FanOut(h, SubSeq(r.muts, r.done + 1, Len(r.muts)))
         /\ NextPush(h, request)
         /\ broken' = TRUE

\* The request or its answer is lost; the API server may go on with it while
\* the pusher tries again, or has given up.
RequestFails(p) ==
    /\ Fault /\ Working(p)
    /\ \E goesOn \in BOOLEAN :
          LET left == IF goesOn THEN [request EXCEPT ![Orphan] = request[p]] ELSE request IN
          /\ goesOn => ~Working(Orphan)
          /\ \/ /\ request' = [left EXCEPT ![p] = Start(@.muts)]
                /\ UNCHANGED <<tab, outcome, conn, queue, pushes, broken>>
             \/ /\ FanOut(p, request[p].muts)
                /\ NextPush(p, left)
                /\ broken' = TRUE
    /\ UNCHANGED <<db, views, perdag, alive, current>>

\* A stopped pusher has done what was queued before; the runner forgets
\* whichever pusher it knows.
Ends(p) ==
    /\ p \in alive /\ Holders(p) = {} /\ ~Working(p)
    /\ alive' = alive \ {p} /\ current' = None
    /\ UNCHANGED <<db, views, tabs, conn, queue, pushes, request, broken, used>>

\* The process dies; the API server may go on with one of its requests.
Crash ==
    /\ Fault
    /\ \E h \in Handlers :
          request' = [g \in Handlers |-> IF g = Orphan THEN request[h] ELSE Resting]
    /\ queue' = [p \in Pushers |-> << >>] /\ pushes' = [p \in Pushers |-> << >>]
    /\ alive' = {} /\ current' = None /\ poke' = NoPoke
    /\ conn' = [c \in Clients |-> [Cut(conn[c]) EXCEPT !.pusher = None]]
    /\ tab' = [c \in Clients |-> IF conn[c].live THEN Disconnected(tab[c]) ELSE tab[c]]
    /\ UNCHANGED <<db, replica, cvr, perdag, outcome, broken>>

-----------------------------------------------------------------------------
(* The API server.  Every transaction first takes the next last mutation ID *)
(* of the client and compares it with that of the mutation.                 *)

Current(h) == request[h].muts[request[h].done + 1]
Expected(m) == lmids[m.client] + 1

\* On to the next mutation; after the last one the pusher has its answer.
OneDone(r) == [muts |-> r.muts, done |-> r.done + 1, failed |-> FALSE]
Processed(h) ==
    IF request[h].done + 1 < Len(request[h].muts)
    THEN /\ request' = [request EXCEPT ![h] = OneDone(@)]
         /\ UNCHANGED <<queue, pushes>>
    ELSE IF h = Orphan THEN request' = [request EXCEPT ![h] = Resting] /\ UNCHANGED <<queue, pushes>>
    ELSE NextPush(h, request)

Commit(m, res) ==
    /\ log' = Append(log, [client |-> m.client, id |-> m.id, res |-> res])
    /\ lmids' = [lmids EXCEPT ![m.client] = @ + 1]

Elsewhere == UNCHANGED <<views, perdag, alive, current>>

\* MutationAlreadyProcessedError: on to the next mutation.
AlreadyProcessed(h) ==
    /\ Working(h) /\ Current(h).id < Expected(Current(h))
    /\ Processed(h)
    /\ Elsewhere /\ UNCHANGED <<db, tab, outcome, conn, broken, used>>

\* Mutant: a mutation ahead of its turn is executed as well.
InTurn_Early(h) == Working(h) /\ Current(h).id >= Expected(Current(h))

InTurn(h) == Working(h) /\ Current(h).id = Expected(Current(h))

\* The mutator is executed, or was rejected before and only its error and its
\* ID are written.
Execute(h) ==
    /\ InTurn(h) /\ (request[h].failed \/ Current(h) \notin Rejected)
    /\ Commit(Current(h), IF request[h].failed THEN "failed" ELSE "applied")
    /\ Processed(h)
    /\ Elsewhere /\ UNCHANGED <<tab, outcome, conn, broken, used>>

\* Mutant: the error of a mutation is not persisted with its ID.
MutatorFails_Skips(h) ==
    /\ InTurn(h) /\ ~request[h].failed /\ Current(h) \in Rejected
    /\ Processed(h)
    /\ Elsewhere /\ UNCHANGED <<db, tab, outcome, conn, broken, used>>

\* The mutator or its transaction fails, and is rolled back.
MutatorFails(h) ==
    /\ InTurn(h) /\ ~request[h].failed /\ Current(h) \in Rejected
    /\ request' = [request EXCEPT ![h].failed = TRUE]
    /\ Elsewhere /\ UNCHANGED <<db, tab, outcome, conn, queue, pushes, broken, used>>

\* The database fails: after a commit or before, and in the second attempt, or
\* while it persists the error of a handler, the whole push fails.
DatabaseFails(h) ==
    /\ Fault /\ Working(h)
    /\ \/ InTurn(h) /\ Commit(Current(h), IF request[h].failed THEN "failed" ELSE "applied")
       \/ UNCHANGED db
    /\ IF request[h].failed THEN PushFails(h)
       ELSE /\ request' = [request EXCEPT ![h].failed = TRUE]
            /\ UNCHANGED <<tab, outcome, conn, queue, pushes, broken>>
    /\ Elsewhere

\* A handler rejects a mutation before it begins the transaction: its error is
\* written, and if it has been processed already the whole push fails.
RejectedAgain(h) ==
    /\ Fault /\ Working(h) /\ ~request[h].failed /\ Current(h).id < Expected(Current(h))
    /\ PushFails(h)
    /\ Elsewhere /\ UNCHANGED db

\* OutOfOrderMutation: the whole push fails.
Gap(h) == Working(h) /\ Current(h).id > Expected(Current(h))
OutOfOrder(h) ==
    /\ Gap(h)
    /\ PushFails(h)
    /\ Elsewhere /\ UNCHANGED <<db, used>>

-----------------------------------------------------------------------------
(* View-syncers and pokes. *)

\* A view-syncer has a replica at this position.
Reachable(v) == v <= Len(log) /\ v >= cvr /\ (SharedReplica => v >= replica)

\* What the tabs learn from the parts of a poke.
Informed(c, v) ==
    IF Lmid(v, c) = Lmid(conn[c].base, c) THEN tab[c]
    ELSE [tab[c] EXCEPT !.received = Lmid(v, c)]

\* A poke is started for everybody who is behind; its parts may go out before
\* the CVR is flushed.
StartPoke(v) ==
    LET behind == {c \in Clients : conn[c].live /\ conn[c].base < v} IN
    /\ poke = NoPoke /\ Reachable(v) /\ behind # {}
    /\ poke' = [to |-> v, ws |-> [c \in Clients |-> IF c \in behind THEN conn[c].ws ELSE 0]]
    /\ replica' = Larger(replica, v)
    /\ tab' = [c \in Clients |-> IF c \in behind THEN Informed(c, v) ELSE tab[c]]
    /\ UNCHANGED <<db, cvr, perdag, outcome, conn, server, broken, used>>

Served(c) == conn[c].live /\ conn[c].ws = poke.ws[c]

\* The CVR is flushed and the poke ends; it waits in the tab for the next frame.
EndPoke ==
    /\ poke # NoPoke
    /\ cvr' = poke.to /\ poke' = NoPoke
    /\ tab' = [c \in Clients |->
          IF Served(c) THEN [tab[c] EXCEPT !.buffer = poke.to] ELSE tab[c]]
    /\ conn' = [c \in Clients |->
          IF Served(c) THEN [conn[c] EXCEPT !.base = poke.to] ELSE conn[c]]
    /\ UNCHANGED <<db, replica, perdag, outcome, server, broken, used>>

\* The flush fails, another view-syncer has the CVR: the clients go there.
PokeFails ==
    /\ Fault /\ poke # NoPoke
    /\ poke' = NoPoke
    /\ tab' = [c \in Clients |-> IF Served(c) THEN Disconnected(tab[c]) ELSE tab[c]]
    /\ conn' = [c \in Clients |-> IF Served(c) THEN Cut(conn[c]) ELSE conn[c]]
    /\ UNCHANGED <<db, replica, cvr, perdag, outcome, server, broken>>

\* Mutant: mutations are confirmed before their results are looked at.
Told_ConfirmsFirst(c, t, lmid) ==
    WithResults(c, UpTo(outcome[c], lmid, "success"), t.snap, t.buffer)

\* The results that came with a poke, and then the mutations it confirms.
Told(c, t, lmid) ==
    UpTo(WithResults(c, outcome[c], t.snap, t.buffer), lmid, "success")

\* #processPokesForFrame
Playback(c) ==
    LET t == tab[c]
        lmid == Lmid(t.buffer, c)
        moved == [t EXCEPT !.snap = t.buffer, !.buffer = 0]
    IN  /\ t.state = "open" /\ t.buffer # 0
        /\ IF lmid = Lmid(t.snap, c)
           THEN tab' = [tab EXCEPT ![c] = moved] /\ UNCHANGED <<outcome, conn>>
           ELSE IF lmid < t.tracked
           THEN /\ tab' = [tab EXCEPT ![c] = Paused(moved)]
                /\ outcome' = [outcome EXCEPT ![c] =
                      AllSettled(WithResults(c, @, t.snap, t.buffer))]
                /\ conn' = [conn EXCEPT ![c] = Cut(@)]
           ELSE /\ tab' = [tab EXCEPT ![c] = [moved EXCEPT !.tracked = lmid]]
                /\ outcome' = [outcome EXCEPT ![c] =
                      IF lmid = t.tracked THEN WithResults(c, @, t.snap, t.buffer)
                      ELSE Told(c, t, lmid)]
                /\ UNCHANGED conn
        /\ UNCHANGED <<db, views, perdag, server, broken, used>>

-----------------------------------------------------------------------------

Serve(h) == AlreadyProcessed(h) \/ Execute(h) \/ MutatorFails(h) \/ OutOfOrder(h)

Next ==
    \/ \E c \in Clients :
          \/ Open(c) \/ MakeMutation(c) \/ Persist(c) \/ Close(c) \/ Drop(c) \/ Resume(c)
          \/ Connect(c) \/ HangUp(c) \/ Push(c) \/ Playback(c)
    \/ \E p \in Pushers : RequestFails(p) \/ Ends(p)
    \/ \E h \in Handlers : Serve(h) \/ DatabaseFails(h) \/ RejectedAgain(h)
    \/ \E v \in 1..Len(log) : StartPoke(v)
    \/ EndPoke \/ PokeFails \/ Crash

Spec == Init /\ [][Next]_vars

\* The loops of tabs, pushers, view-syncers and the API server go on: tabs
\* connect again, also after their connection was stopped (the application calls
\* connect()), and the server notices lost connections.
Fairness ==
    /\ \A c \in Clients :
          /\ WF_vars(Connect(c) \/ Resume(c)) /\ WF_vars(HangUp(c))
          /\ WF_vars(Push(c)) /\ WF_vars(Playback(c))
    /\ \A p \in Pushers : WF_vars(Ends(p))
    /\ \A h \in Handlers : WF_vars(Serve(h))
    /\ WF_vars((\E v \in 1..Len(log) : StartPoke(v)) \/ EndPoke)

FairSpec == Spec /\ Fairness

-----------------------------------------------------------------------------

\* The types.
TypeOK ==
    /\ \A i \in DOMAIN log : log[i].client \in Clients /\ log[i].id \in 1..Made(log[i].client)
                             /\ log[i].res \in {"applied", "failed"}
    /\ \A c \in Clients : lmids[c] \in 0..Made(c)
    /\ {replica, cvr, poke.to, perdag.snap} \subseteq 0..Len(log)
    /\ \A c \in Clients :
          /\ tab[c].state \in {"new", "open", "paused", "closed"}
          /\ {tab[c].snap, tab[c].buffer, conn[c].base} \subseteq 0..Len(log)
          /\ {tab[c].received, tab[c].tracked} \subseteq 0..lmids[c]
          /\ \A d \in Clients : {tab[c].loaded[d], tab[c].sent[d]} \subseteq 0..Made(d)
          /\ perdag.made[c] \in 0..Made(c)
          /\ outcome[c] \in Seq({"pending", "success", "assumed", "app", "zero"})
          /\ Made(c) <= Limit[c]
          /\ conn[c].pusher \in Pushers \cup {None}
          /\ conn[c].live => tab[c].state = "open" /\ conn[c].pusher \in alive
    /\ current \in alive \cup {None}
    /\ \A p \in Pushers :
          /\ ~Working(p) => queue[p] = << >> /\ pushes[p] = << >>
          /\ p \notin alive => ~Working(p) /\ Holders(p) = {}
    /\ broken \in BOOLEAN /\ used.faults <= MaxFaults

Promise == INSTANCE MutationLog WITH made <- [c \in Clients |-> Made(c)]

\* Whatever is sent again after lost connections, lost answers and crashes, by
\* its own tab or by others, through two pushers at once or by a request nobody
\* waits for any more, every mutation is committed at most once and each
\* client's in their order (process-mutations.ts #checkAndIncrementLastMutationID).
ImplementsMutationLog == Promise!Spec

\* What a tab is told of a mutation is true: a success was applied, an
\* application error was not, and one that is taken for done after a
\* reconnect was committed (mutation-tracker.ts lmidAdvanced, onConnected,
\* #processMutationResponses).
OutcomesAreTrue ==
    \A c \in Clients : \A i \in DOMAIN outcome[c] :
        LET Is(results) == \E k \in DOMAIN log :
                log[k].client = c /\ log[k].id = i /\ log[k].res \in results
        IN  /\ outcome[c][i] = "success" => Is({"applied"})
            /\ outcome[c][i] = "app" => Is({"failed"})
            /\ outcome[c][i] = "assumed" => Is({"applied", "failed"})

\* As long as no push fails the API server never meets a mutation ahead of its
\* turn: every connection starts at or below the client's last mutation ID and
\* leaves none out, whichever pusher and whichever tab pushes it
\* (zero.ts #pusher, pusher.ts combinePushes).
NoGap == ~broken => \A h \in Handlers : ~Gap(h)

\* The assertion of lmidAdvanced: the last mutation ID a tab is told of does not
\* go back, though it learns of it from pokes that end, that are cut off and that
\* are started again (mutation-tracker.ts lmidAdvanced).
LmidNeverRegresses ==
    \A c \in Clients :
        /\ tab[c].received >= tab[c].tracked
        /\ tab[c].buffer # 0 /\ Lmid(tab[c].buffer, c) # Lmid(tab[c].snap, c) =>
              Lmid(tab[c].buffer, c) >= tab[c].tracked

\* Whatever breaks on the way, an open tab again and again has all the
\* mutations it made in its own snapshot (zero.ts #pusher, #runLoop).
EventuallyConfirmed ==
    \A c \in Clients : []<>(tab[c].state = "open" => Lmid(tab[c].snap, c) = Made(c))

\* As long as no push fails, what an open tab has on its main head for a tab
\* that may be gone is committed in the end: an open tab pushes it, and does so
\* again on a new connection (zero.ts #pusher, replicache persist.ts).
LeftBehindIsCommitted ==
    \A c, d \in Clients :
        []<>(broken \/ tab[c].state # "open" \/ lmids[d] >= tab[c].loaded[d])

=============================================================================
