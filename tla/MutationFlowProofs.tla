------------------------- MODULE MutationFlowProofs -------------------------
(***************************************************************************)
(* That MutationFlow implements MutationLog, for any number of tabs,       *)
(* pushers, mutations and faults.  What is committed is in turn because    *)
(* the API server compares every mutation with the client's last mutation  *)
(* ID in the transaction that commits it; that it was made at all follows  *)
(* from where it has been: on a tab's main head, in the queue of a pusher, *)
(* in a combined push, in a request.  The second part is about what a tab  *)
(* is told of its mutations and about the order in which they are pushed.  *)
(***************************************************************************)
EXTENDS MutationFlow, FiniteSetTheorems, SequenceTheorems, TLAPS

-----------------------------------------------------------------------------
(* The inductive invariant. *)

Results == {"pending", "success", "assumed", "app", "zero"}
Entry == [client : Clients, id : Nat, res : {"applied", "failed"}]

\* Mutations that were made, and how far one may have got with them.
MadeOnly == {m \in [client : Clients, id : Nat] : m.id <= Made(m.client)}
Progress == {f \in [Clients -> Nat] : \A d \in Clients : f[d] <= Made(d)}

\* Every client's committed mutations are the first ones, without a gap.
Logged ==
    /\ log \in Seq(Entry) /\ lmids \in [Clients -> Nat]
    /\ \A c \in Clients : {log[i].id : i \in Promise!Committed(c)} = 1..lmids[c]

Tab == [state : {"new", "open", "paused", "closed"}, snap : Nat, loaded : [Clients -> Nat],
        received : Nat, tracked : Nat, sent : [Clients -> Nat], buffer : Nat]
Connection ==
    {cn \in [pusher : Pushers \cup {None}, ws : Nat, live : BOOLEAN, base : Nat] :
        cn.live => cn.pusher \in Pushers}

\* What tabs persist and take over was made.
Kept ==
    /\ outcome \in [Clients -> Seq(Results)]
    /\ perdag \in [snap : Nat, made : Progress]
    /\ tab \in [Clients -> Tab]
    /\ \A c \in Clients : tab[c].loaded \in Progress
    /\ conn \in [Clients -> Connection]
    /\ poke \in [to : Nat, ws : [Clients -> Nat]]

\* What waits for a pusher, in it and at the API server comes from a set M.
Batch(M) == Seq(M) \ {<< >>}
Group(M) == [client : Clients, ws : Nat, muts : Batch(M)]
Request(M) ==
    {r \in [muts : Seq(M), done : Nat, failed : BOOLEAN] : r = Resting \/ r.done < Len(r.muts)}

UnderWayIn(M, queued, taken, requests) ==
    /\ queued \in [Pushers -> Seq(Group(M))]
    /\ taken \in [Pushers -> Seq(Batch(M))]
    /\ requests \in [Handlers -> Request(M)]

UnderWay == UnderWayIn(MadeOnly, queue, pushes, request)

Flow == Logged /\ Kept /\ UnderWay

-----------------------------------------------------------------------------
(* Facts about the operators of the model. *)

\* Settling mutations forgets none of them.
LEMMA SettleKeeps ==
    ASSUME NEW results \in Seq(Results), NEW ids, NEW as \in Results
    PROVE  /\ Settle(results, ids, as) \in Seq(Results)
           /\ Len(Settle(results, ids, as)) = Len(results)
<1> DEFINE S == Settle(results, ids, as)
<1>1. Len(results) \in Nat /\ DOMAIN results = 1..Len(results)
  BY LenProperties
<1>2. DOMAIN S = 1..Len(results)
  BY <1>1 DEF Settle
<1>3. ASSUME NEW i \in 1..Len(results)
      PROVE  S[i] \in Results
  <2>1. S[i] = results[i] \/ S[i] = as
    BY <1>1 DEF Settle
  <2> QED
    BY <2>1, ElementOfSeq
<1>4. S = [i \in 1..Len(results) |-> S[i]]
  BY <1>1 DEF Settle
<1> HIDE DEF S
<1>5. S \in Seq(Results)
  BY <1>1, <1>3, <1>4, IsASeq
<1>6. Len(S) = Len(results)
  BY <1>1, <1>2, <1>5, LenProperties
<1> QED
  BY <1>5, <1>6 DEF S

\* The last mutation ID at a position is a number.
LEMMA LmidType ==
    ASSUME NEW p \in Nat, NEW c
    PROVE  Lmid(p, c) \in Nat
<1>1. IsFiniteSet(1..p)
  BY FS_Interval
<1>2. IsFiniteSet({i \in 1..p : log[i].client = c})
  BY <1>1, FS_Subset
<1> QED
  BY <1>2, FS_CardinalityType DEF Lmid

\* Sequences over a larger set.
LEMMA SeqGrows ==
    ASSUME NEW S, NEW T, S \subseteq T
    PROVE  Seq(S) \subseteq Seq(T)
BY SeqMonotonic

\* As tabs make mutations, what is under way may stay where it is.
LEMMA UnderWayGrows ==
    ASSUME NEW M, NEW N, M \subseteq N,
           NEW q, NEW t, NEW r, UnderWayIn(M, q, t, r)
    PROVE  UnderWayIn(N, q, t, r)
<1>1. Seq(M) \subseteq Seq(N)
  BY SeqGrows
<1>2. Batch(M) \subseteq Batch(N)
  BY <1>1 DEF Batch
<1>3. Group(M) \subseteq Group(N)
  BY <1>2 DEF Group
<1>4. Request(M) \subseteq Request(N)
  BY <1>1 DEF Request
<1>5. Seq(Batch(M)) \subseteq Seq(Batch(N)) /\ Seq(Group(M)) \subseteq Seq(Group(N))
  BY <1>2, <1>3, SeqGrows
<1> QED
  BY <1>4, <1>5 DEF UnderWayIn

\* A mutation joins those that wait.
LEMMA EnqueuedKeeps ==
    ASSUME NEW M, NEW q \in Seq(Group(M)), NEW c \in Clients, NEW m \in M,
           conn[c].ws \in Nat
    PROVE  Enqueued(q, c, m) \in Seq(Group(M))
<1> DEFINE Joins(i) == q[i].client = c /\ q[i].ws = conn[c].ws
           e(i) == IF Joins(i) THEN [q[i] EXCEPT !.muts = Append(@, m)] ELSE q[i]
<1>1. Len(q) \in Nat /\ DOMAIN q = 1..Len(q)
  BY LenProperties
<1>2. CASE \E i \in DOMAIN q : Joins(i)
  <2>1. ASSUME NEW i \in 1..Len(q)
        PROVE  e(i) \in Group(M)
    <3>1. q[i] \in [client : Clients, ws : Nat, muts : Batch(M)]
      BY ElementOfSeq DEF Group
    <3>2. Append(q[i].muts, m) \in Batch(M)
      BY <3>1, AppendProperties DEF Batch
    <3> QED
      BY <3>1, <3>2 DEF Group
  <2> HIDE DEF e
  <2>2. [i \in 1..Len(q) |-> e(i)] \in Seq(Group(M))
    BY <1>1, <2>1, IsASeq
  <2>3. Enqueued(q, c, m) = [i \in 1..Len(q) |-> e(i)]
    BY <1>1, <1>2 DEF Enqueued, e
  <2> QED
    BY <2>2, <2>3
<1>3. CASE ~\E i \in DOMAIN q : Joins(i)
  <2>1. <<m>> \in Batch(M)
    BY DEF Batch
  <2>2. [client |-> c, ws |-> conn[c].ws, muts |-> <<m>>] \in Group(M)
    BY <2>1 DEF Group
  <2>3. Enqueued(q, c, m) = Append(q, [client |-> c, ws |-> conn[c].ws, muts |-> <<m>>])
    BY <1>3 DEF Enqueued
  <2> QED
    BY <2>2, <2>3, AppendProperties
<1> QED
  BY <1>2, <1>3

\* The pushes of a queue are made of what waits there.
LEMMA CombinedKeeps ==
    ASSUME NEW M, NEW q \in Seq(Group(M))
    PROVE  Combined(q) \in Seq(Batch(M))
<1> DEFINE e(i) == q[i].muts
<1>1. Len(q) \in Nat /\ DOMAIN q = 1..Len(q)
  BY LenProperties
<1>2. ASSUME NEW i \in 1..Len(q)
      PROVE  e(i) \in Batch(M)
  <2>1. q[i] \in Group(M)
    BY ElementOfSeq
  <2> QED
    BY <2>1 DEF Group
<1>3. Combined(q) = [i \in 1..Len(q) |-> e(i)]
  BY <1>1 DEF Combined
<1> HIDE DEF e
<1> QED
  BY <1>1, <1>2, <1>3, IsASeq

\* Requests that are idle, and that begin.
LEMMA RequestKeeps ==
    ASSUME NEW M
    PROVE  /\ Resting \in Request(M)
           /\ \A b \in Batch(M) : Start(b) \in Request(M)
<1>1. Resting \in Request(M)
  BY DEF Resting, Request
<1>2. ASSUME NEW b \in Batch(M)
      PROVE  Start(b) \in Request(M)
  <2>1. b \in Seq(M) /\ Len(b) \in Nat /\ Len(b) # 0
    BY EmptySeq DEF Batch
  <2> QED
    BY <2>1 DEF Start, Request
<1> QED
  BY <1>1, <1>2

\* A pusher that goes on sends what waited for it.
LEMMA GoKeeps ==
    ASSUME NEW M, NEW requests, UnderWayIn(M, queue, pushes, requests),
           NEW p \in Pushers, NEW todo \in Seq(Batch(M)), NEW q \in Seq(Group(M)),
           Go(p, todo, q, requests)
    PROVE  UnderWayIn(M, queue', pushes', request')
<1> DEFINE next == IF todo = << >> THEN Combined(q) ELSE todo
<1>1. next \in Seq(Batch(M))
  BY CombinedKeeps
<1>2. queue' \in [Pushers -> Seq(Group(M))]
  <2>1. queue' = [queue EXCEPT ![p] = IF todo = << >> THEN << >> ELSE q]
    BY DEF Go
  <2>2. (IF todo = << >> THEN << >> ELSE q) \in Seq(Group(M))
    BY EmptySeq
  <2> QED
    BY <2>1, <2>2 DEF UnderWayIn
<1>3. CASE next = << >>
  <2>1. pushes' = [pushes EXCEPT ![p] = << >>] /\ request' = [requests EXCEPT ![p] = Resting]
    BY <1>3 DEF Go
  <2>2. pushes' \in [Pushers -> Seq(Batch(M))]
    BY <2>1, EmptySeq DEF UnderWayIn
  <2>3. request' \in [Handlers -> Request(M)]
    BY <2>1, RequestKeeps DEF UnderWayIn
  <2> QED
    BY <1>2, <2>2, <2>3 DEF UnderWayIn
<1>4. CASE next # << >>
  <2>1. pushes' = [pushes EXCEPT ![p] = Tail(next)] /\ request' = [requests EXCEPT ![p] = Start(Head(next))]
    BY <1>4 DEF Go
  <2>2. Head(next) \in Batch(M) /\ Tail(next) \in Seq(Batch(M))
    BY <1>1, <1>4, HeadTailProperties
  <2> HIDE DEF next
  <2>3. pushes' \in [Pushers -> Seq(Batch(M))]
    BY <2>1, <2>2 DEF UnderWayIn
  <2>4. request' \in [Handlers -> Request(M)]
    BY <2>1, <2>2, RequestKeeps DEF UnderWayIn
  <2> QED
    BY <1>2, <2>3, <2>4 DEF UnderWayIn
<1> QED
  BY <1>3, <1>4

-----------------------------------------------------------------------------
(* What the steps of tabs have in common. *)

\* No tab makes a mutation: some are settled at most.
SameMade ==
    /\ outcome' \in [Clients -> Seq(Results)]
    /\ \A c \in Clients : Len(outcome'[c]) = Len(outcome[c])

\* Tabs keep their types and what they loaded.
SameLoaded ==
    /\ tab' \in [Clients -> Tab]
    /\ \A c \in Clients : tab'[c].loaded = tab[c].loaded

LEMMA SameOnly ==
    ASSUME SameMade
    PROVE  MadeOnly' = MadeOnly /\ Progress' = Progress
BY DEF SameMade, MadeOnly, Progress, Made

\* Everything but the log, if no mutation is made.
LEMMA SameKept ==
    ASSUME Kept, SameMade, perdag' = perdag, SameLoaded,
           conn' \in [Clients -> Connection], poke' \in [to : Nat, ws : [Clients -> Nat]]
    PROVE  Kept'
BY SameOnly DEF Kept, SameMade, SameLoaded, Connection, Tab, Results

\* A step that commits nothing is none of the abstract specification.
LEMMA Quiet ==
    ASSUME Logged, SameMade, UNCHANGED db
    PROVE  Logged' /\ UNCHANGED Promise!vars
<1>1. log' = log /\ lmids' = lmids
  BY DEF db
<1>2. Logged'
  BY <1>1 DEF Logged, Entry, Promise!Committed
<1>3. [c \in Clients |-> Made(c)]' = [c \in Clients |-> Made(c)]
  BY DEF SameMade, Made
<1> QED
  BY <1>1, <1>2, <1>3 DEF Promise!vars

LEMMA TabTypes ==
    ASSUME NEW t \in Tab
    PROVE  /\ Disconnected(t) \in Tab /\ Disconnected(t).loaded = t.loaded
           /\ Paused(t) \in Tab /\ Paused(t).loaded = t.loaded
<1>1. NoMutations \in [Clients -> Nat]
  BY DEF NoMutations
<1>2. Disconnected(t) \in Tab /\ Disconnected(t).loaded = t.loaded
  BY <1>1 DEF Disconnected, Tab
<1>3. Paused(t) = [Disconnected(t) EXCEPT !.state = "paused"]
  BY DEF Paused
<1> HIDE DEF NoMutations
<1> QED
  BY <1>2, <1>3 DEF Tab

\* One tab changes, but for what it has loaded.
LEMMA OneTab ==
    ASSUME Kept, NEW c \in Clients, NEW t \in Tab, t.loaded = tab[c].loaded,
           tab' = [tab EXCEPT ![c] = t]
    PROVE  SameLoaded
BY DEF Kept, SameLoaded

LEMMA ConnectionTypes ==
    ASSUME NEW cn \in Connection
    PROVE  Cut(cn) \in Connection /\ [Cut(cn) EXCEPT !.pusher = None] \in Connection
BY DEF Cut, Connection

\* The tabs that are told of a failure keep what they made and loaded.
LEMMA FanOutKeeps ==
    ASSUME Kept, NEW p, NEW muts, FanOut(p, muts)
    PROVE  SameMade /\ SameLoaded /\ conn' \in [Clients -> Connection]
<1> DEFINE told == Failing(p, muts)
<1>1. /\ tab' = [c \in Clients |-> IF c \in told THEN Paused(tab[c]) ELSE tab[c]]
      /\ outcome' = [c \in Clients |-> IF c \in told THEN AllSettled(outcome[c]) ELSE outcome[c]]
      /\ conn' = [c \in Clients |->
            IF c \in told THEN [Cut(conn[c]) EXCEPT !.pusher = None] ELSE conn[c]]
  BY DEF FanOut
<1> HIDE DEF told
<1>2. SameLoaded
  BY <1>1, TabTypes DEF Kept, SameLoaded
<1>3. \A c \in Clients : /\ AllSettled(outcome[c]) \in Seq(Results)
                         /\ Len(AllSettled(outcome[c])) = Len(outcome[c])
  <2>1. \A c \in Clients : outcome[c] \in Seq(Results)
    BY DEF Kept
  <2>2. "zero" \in Results
    BY DEF Results
  <2> QED
    BY <2>1, <2>2, SettleKeeps DEF AllSettled
<1>4. SameMade
  BY <1>1, <1>3 DEF Kept, SameMade
<1>5. conn' \in [Clients -> Connection]
  BY <1>1, ConnectionTypes DEF Kept
<1> QED
  BY <1>2, <1>4, <1>5

-----------------------------------------------------------------------------
(* What the steps of pushers and of the API server have in common. *)

\* What is under way may be handed on, within what was made.
LEMMA NextKeeps ==
    ASSUME NEW M, NEW requests, UnderWayIn(M, queue, pushes, requests),
           NEW p \in Pushers, NextPush(p, requests)
    PROVE  UnderWayIn(M, queue', pushes', request')
<1>1. pushes[p] \in Seq(Batch(M)) /\ queue[p] \in Seq(Group(M))
  BY DEF UnderWayIn
<1> QED
  BY <1>1, GoKeeps DEF NextPush

\* A handler that works has a mutation to process.
LEMMA CurrentType ==
    ASSUME NEW M, NEW h \in Handlers, request[h] \in Request(M), Working(h)
    PROVE  /\ request[h].muts \in Seq(M) /\ request[h].done \in Nat
           /\ request[h].failed \in BOOLEAN
           /\ request[h].done < Len(request[h].muts)
           /\ Current(h) \in M
<1>1. /\ request[h].muts \in Seq(M) /\ request[h].done \in Nat
      /\ request[h].failed \in BOOLEAN
      /\ request[h].done < Len(request[h].muts)
  BY DEF Request, Working
<1>2. request[h].done + 1 \in 1..Len(request[h].muts)
  BY <1>1, LenProperties
<1> QED
  BY <1>1, <1>2, ElementOfSeq DEF Current

\* A request of which one more mutation is processed.
LEMMA OneDoneKeeps ==
    ASSUME NEW M, NEW r \in Request(M), r.done + 1 < Len(r.muts)
    PROVE  OneDone(r) \in Request(M)
<1>1. r \in [muts : Seq(M), done : Nat, failed : BOOLEAN]
  BY DEF Request
<1>2. r.muts \in Seq(M) /\ r.done + 1 \in Nat
  BY <1>1
<1> QED
  BY <1>2 DEF Request, OneDone

LEMMA ProcessedKeeps ==
    ASSUME NEW M, UnderWayIn(M, queue, pushes, request),
           NEW h \in Handlers, Working(h), Processed(h)
    PROVE  UnderWayIn(M, queue', pushes', request')
<1> DEFINE r == request[h]
<1>1. r \in Request(M)
  BY DEF UnderWayIn
<1>2. CASE r.done + 1 < Len(r.muts)
  <2>1. request' = [request EXCEPT ![h] = OneDone(r)] /\ UNCHANGED <<queue, pushes>>
    BY <1>2 DEF Processed
  <2>2. OneDone(r) \in Request(M)
    BY <1>1, <1>2, OneDoneKeeps
  <2> QED
    BY <2>1, <2>2 DEF UnderWayIn
<1>3. CASE ~(r.done + 1 < Len(r.muts)) /\ h = Orphan
  <2>1. request' = [request EXCEPT ![h] = Resting] /\ UNCHANGED <<queue, pushes>>
    BY <1>3 DEF Processed
  <2> QED
    BY <2>1, RequestKeeps DEF UnderWayIn
<1>4. CASE ~(r.done + 1 < Len(r.muts)) /\ h # Orphan
  <2>1. NextPush(h, request)
    BY <1>4 DEF Processed
  <2>2. h \in Pushers
    BY <1>4 DEF Handlers
  <2> QED
    BY <2>1, <2>2, NextKeeps
<1> QED
  BY <1>2, <1>3, <1>4

LEMMA PushFailsKeeps ==
    ASSUME Kept, NEW M, UnderWayIn(M, queue, pushes, request),
           NEW h \in Handlers, PushFails(h)
    PROVE  /\ UnderWayIn(M, queue', pushes', request')
           /\ SameMade /\ SameLoaded /\ conn' \in [Clients -> Connection]
<1>1. CASE h = Orphan
  <2>1. request' = [request EXCEPT ![h] = Resting]
        /\ UNCHANGED <<tab, outcome, conn, queue, pushes, broken>>
    BY <1>1 DEF PushFails
  <2>2. UnderWayIn(M, queue', pushes', request')
    BY <2>1, RequestKeeps DEF UnderWayIn
  <2> QED
    BY <2>1, <2>2 DEF SameMade, SameLoaded, Kept
<1>2. CASE h # Orphan
  <2>1. FanOut(h, SubSeq(request[h].muts, request[h].done + 1, Len(request[h].muts)))
        /\ NextPush(h, request)
    BY <1>2 DEF PushFails
  <2>2. h \in Pushers
    BY <1>2 DEF Handlers
  <2> QED
    BY <2>1, <2>2, FanOutKeeps, NextKeeps
<1> QED
  BY <1>1, <1>2

\* A mutation in its turn is the next commit of its client.
LEMMA CommitIsNext ==
    ASSUME Logged, SameMade, NEW m \in MadeOnly, m.id = Expected(m),
           NEW res \in {"applied", "failed"}, Commit(m, res)
    PROVE  Logged' /\ Promise!Next
<1> DEFINE e == [client |-> m.client, id |-> m.id, res |-> res]
           Ids(c) == {log[i].id : i \in Promise!Committed(c)}
<1>1. /\ m.client \in Clients /\ m.id \in Nat /\ m.id <= Made(m.client)
      /\ lmids[m.client] \in Nat /\ m.id = lmids[m.client] + 1
  BY DEF MadeOnly, Logged, Expected
<1>2. e \in Entry
  BY <1>1 DEF Entry
<1>3. log' = Append(log, e) /\ lmids' = [lmids EXCEPT ![m.client] = @ + 1]
  BY DEF Commit
<1>4. /\ log' \in Seq(Entry) /\ Len(log) \in Nat /\ DOMAIN log = 1..Len(log)
      /\ DOMAIN log' = 1..(Len(log) + 1)
      /\ \A i \in 1..Len(log) : log'[i] = log[i]
      /\ log'[Len(log) + 1] = e
  BY <1>2, <1>3, AppendProperties, LenProperties DEF Logged
<1>5. lmids' \in [Clients -> Nat]
  BY <1>1, <1>3 DEF Logged
<1>6. ASSUME NEW c \in Clients
      PROVE  Ids(c)' = 1..lmids'[c]
  <2>1. Ids(c) = 1..lmids[c] /\ lmids[c] \in Nat
    BY DEF Logged
  <2>2. CASE c = m.client
    <3>1. Promise!Committed(c)' = Promise!Committed(c) \cup {Len(log) + 1}
      BY <1>4, <2>2 DEF Promise!Committed
    <3>2. Promise!Committed(c) \subseteq 1..Len(log)
      BY <1>4 DEF Promise!Committed
    <3>3. Ids(c)' = Ids(c) \cup {m.id}
      BY <1>4, <3>1, <3>2
    <3>4. lmids'[c] = lmids[c] + 1
      BY <1>3, <2>2 DEF Logged
    <3> HIDE DEF Ids
    <3> QED
      BY <1>1, <2>1, <2>2, <3>3, <3>4
  <2>3. CASE c # m.client
    <3>1. Promise!Committed(c)' = Promise!Committed(c)
      BY <1>4, <2>3 DEF Promise!Committed
    <3>2. Promise!Committed(c) \subseteq 1..Len(log)
      BY <1>4 DEF Promise!Committed
    <3>3. Ids(c)' = Ids(c)
      BY <1>4, <3>1, <3>2
    <3>4. lmids'[c] = lmids[c]
      BY <1>3, <2>3 DEF Logged
    <3> QED
      BY <2>1, <3>3, <3>4
  <2> QED
    BY <2>2, <2>3
<1>7. Logged'
  BY <1>4, <1>5, <1>6 DEF Logged, Entry
<1>8. Promise!Commit(m.client)
  <2>1. [c \in Clients |-> Made(c)]' = [c \in Clients |-> Made(c)]
    BY DEF SameMade, Made
  <2>2. Ids(m.client) = 1..(m.id - 1)
    BY <1>1 DEF Logged
  <2>3. m.id \in 1..([c \in Clients |-> Made(c)][m.client])
    <3>1. Made(m.client) = [c \in Clients |-> Made(c)][m.client]
      BY <1>1
    <3>2. outcome'[m.client] \in Seq(Results) /\ Made(m.client) = Len(outcome'[m.client])
      BY <1>1 DEF SameMade, Made
    <3>3. Made(m.client) \in Nat
      BY <3>2, LenProperties
    <3> QED
      BY <1>1, <3>1, <3>3
  <2> QED
    BY <1>3, <2>1, <2>2, <2>3 DEF Promise!Commit
<1> QED
  BY <1>1, <1>7, <1>8 DEF Promise!Next

-----------------------------------------------------------------------------
(* The steps. *)

\* A step of the model keeps the invariant and is one of MutationLog, or none.
Steps == Flow' /\ [Promise!Next]_(Promise!vars)

LEMMA QuietSteps ==
    ASSUME Flow, SameMade, UNCHANGED db, Kept',
           UnderWayIn(MadeOnly, queue', pushes', request')
    PROVE  Steps
<1>1. UnderWay'
  BY SameOnly DEF UnderWay
<1>2. Logged' /\ UNCHANGED Promise!vars
  BY Quiet DEF Flow
<1> QED
  BY <1>1, <1>2 DEF Flow, Steps

LEMMA SameUnderWay ==
    ASSUME Flow, queue' = queue, pushes' = pushes, request' = request
    PROVE  UnderWayIn(MadeOnly, queue', pushes', request')
BY DEF Flow, UnderWay

\* A tab opens: what it takes over was made.
LEMMA OpenSteps ==
    ASSUME Flow, NEW c \in Clients, Open(c)
    PROVE  Steps
<1> DEFINE t == [Blank EXCEPT !.state = "open", !.snap = perdag.snap, !.loaded = perdag.made]
<1>1. /\ tab' = [tab EXCEPT ![c] = t]
      /\ UNCHANGED db /\ poke' = poke /\ perdag' = perdag /\ outcome' = outcome /\ conn' = conn
      /\ queue' = queue /\ pushes' = pushes /\ request' = request
  BY DEF Open, views, server
<1>2. perdag.snap \in Nat /\ perdag.made \in Progress /\ Progress \subseteq [Clients -> Nat]
  BY DEF Flow, Kept, Progress
<1>3. t \in Tab /\ t.loaded \in Progress
  BY <1>2 DEF Blank, NoMutations, Tab
<1> HIDE DEF t
<1>4. SameMade
  BY <1>1 DEF Flow, Kept, SameMade
<1>5. Kept'
  <2>1. tab' \in [Clients -> Tab] /\ \A d \in Clients : tab'[d].loaded \in Progress
    BY <1>1, <1>3 DEF Flow, Kept
  <2> QED
    BY <1>1, <1>4, <2>1, SameOnly DEF Flow, Kept, Connection, Tab, Results
<1> QED
  BY <1>1, <1>4, <1>5, SameUnderWay, QuietSteps

\* A tab makes a mutation: everything that was made before still was.
LEMMA MakeMutationSteps ==
    ASSUME Flow, NEW c \in Clients, MakeMutation(c)
    PROVE  Steps
<1>1. /\ outcome' = [outcome EXCEPT ![c] = Append(@, "pending")]
      /\ log' = log /\ lmids' = lmids /\ poke' = poke /\ perdag' = perdag /\ tab' = tab
      /\ conn' = conn /\ queue' = queue /\ pushes' = pushes /\ request' = request
  BY DEF MakeMutation, db, views, server
<1>2. outcome \in [Clients -> Seq(Results)] /\ "pending" \in Results
  BY DEF Flow, Kept, Results
<1>3. /\ outcome' \in [Clients -> Seq(Results)]
      /\ \A d \in Clients : Made(d) \in Nat /\ Made(d)' = IF d = c THEN Made(d) + 1 ELSE Made(d)
  <2>1. outcome[c] \in Seq(Results)
    BY <1>2
  <2>2. /\ Append(outcome[c], "pending") \in Seq(Results)
        /\ Len(Append(outcome[c], "pending")) = Len(outcome[c]) + 1
    BY <1>2, <2>1, AppendProperties
  <2>3. outcome' \in [Clients -> Seq(Results)]
    BY <1>1, <1>2, <2>2
  <2>4. \A d \in Clients : Len(outcome[d]) \in Nat
    BY <1>2, LenProperties
  <2>5. \A d \in Clients : outcome'[d] = IF d = c THEN Append(outcome[c], "pending") ELSE outcome[d]
    BY <1>1, <1>2
  <2> QED
    BY <2>2, <2>3, <2>4, <2>5 DEF Made
<1>4. MadeOnly \subseteq MadeOnly' /\ Progress \subseteq Progress'
  <2>1. \A d \in Clients : Made(d) \in Nat /\ Made(d)' \in Nat /\ Made(d) <= Made(d)'
    BY <1>3
  <2>2. ASSUME NEW m \in MadeOnly
        PROVE  m \in MadeOnly'
    <3>1. m \in [client : Clients, id : Nat] /\ m.id <= Made(m.client)
      BY DEF MadeOnly
    <3>2. m.client \in Clients /\ m.id \in Nat
      BY <3>1
    <3>3. m.id <= Made(m.client)'
      BY <2>1, <3>1, <3>2
    <3> QED
      BY <3>1, <3>3 DEF MadeOnly
  <2>3. ASSUME NEW f \in Progress
        PROVE  f \in Progress'
    <3>1. f \in [Clients -> Nat] /\ \A d \in Clients : f[d] \in Nat /\ f[d] <= Made(d)
      BY DEF Progress
    <3>2. \A d \in Clients : f[d] <= Made(d)'
      BY <2>1, <3>1
    <3> QED
      BY <3>1, <3>2 DEF Progress
  <2> QED
    BY <2>2, <2>3
<1>5. Logged'
  BY <1>1 DEF Flow, Logged, Entry, Promise!Committed
<1>6. Kept'
  <2>1. perdag.snap \in Nat /\ perdag.made \in Progress /\ perdag = [snap |-> perdag.snap, made |-> perdag.made]
    BY DEF Flow, Kept
  <2>2. perdag' \in [snap : Nat, made : Progress']
    BY <1>1, <1>4, <2>1
  <2> QED
    BY <1>1, <1>3, <1>4, <2>2 DEF Flow, Kept, Connection, Tab, Results
<1>7. UnderWay'
  <2>1. UnderWayIn(MadeOnly', queue, pushes, request)
    BY <1>4, UnderWayGrows DEF Flow, UnderWay
  <2> QED
    BY <1>1, <2>1 DEF UnderWay, UnderWayIn
<1>8. Promise!Make(c)
  <2>1. [d \in Clients |-> Made(d)]' = [[d \in Clients |-> Made(d)] EXCEPT ![c] = @ + 1]
    BY <1>3
  <2> QED
    BY <1>1, <2>1 DEF Promise!Make
<1> QED
  BY <1>5, <1>6, <1>7, <1>8 DEF Flow, Steps, Promise!Next

\* A tab persists no more than it made.
LEMMA PersistSteps ==
    ASSUME Flow, NEW c \in Clients, Persist(c)
    PROVE  Steps
<1>1. /\ perdag' = [snap |-> Larger(perdag.snap, tab[c].snap),
                     made |-> [perdag.made EXCEPT ![c] = Made(c)]]
      /\ UNCHANGED db /\ poke' = poke /\ tab' = tab /\ outcome' = outcome /\ conn' = conn
      /\ queue' = queue /\ pushes' = pushes /\ request' = request
  BY DEF Persist, views, server
<1>2. perdag.snap \in Nat /\ tab[c].snap \in Nat /\ perdag.made \in Progress
  BY DEF Flow, Kept, Tab
<1>3. \A d \in Clients : Made(d) \in Nat
  <2>1. \A d \in Clients : outcome[d] \in Seq(Results)
    BY DEF Flow, Kept
  <2> QED
    BY <2>1, LenProperties DEF Made
<1>4. [perdag.made EXCEPT ![c] = Made(c)] \in Progress
  BY <1>2, <1>3 DEF Progress
<1>5. SameMade
  BY <1>1 DEF Flow, Kept, SameMade
<1>6. Kept'
  <2>1. perdag' \in [snap : Nat, made : Progress]
    BY <1>1, <1>2, <1>4 DEF Larger
  <2> QED
    BY <1>1, <1>5, <2>1, SameOnly DEF Flow, Kept, Connection, Tab, Results
<1> QED
  BY <1>1, <1>5, <1>6, SameUnderWay, QuietSteps

\* Other steps persist and load nothing.
LEMMA OtherSteps ==
    ASSUME Flow, SameMade, SameLoaded, perdag' = perdag, UNCHANGED db,
           conn' \in [Clients -> Connection], poke' \in [to : Nat, ws : [Clients -> Nat]],
           UnderWayIn(MadeOnly, queue', pushes', request')
    PROVE  Steps
BY SameKept, QuietSteps DEF Flow

\* Settling everything, or some of it, for one tab.
LEMMA OneSettled ==
    ASSUME Kept, NEW c \in Clients, NEW results \in Seq(Results),
           Len(results) = Len(outcome[c]), outcome' = [outcome EXCEPT ![c] = results]
    PROVE  SameMade
BY DEF Kept, SameMade

LEMMA AllSettledKeeps ==
    ASSUME NEW results \in Seq(Results)
    PROVE  AllSettled(results) \in Seq(Results) /\ Len(AllSettled(results)) = Len(results)
<1>1. "zero" \in Results
  BY DEF Results
<1> QED
  BY <1>1, SettleKeeps DEF AllSettled

\* A tab closes: nothing is loaded any more.
LEMMA CloseSteps ==
    ASSUME Flow, NEW c \in Clients, Close(c)
    PROVE  Steps
<1> DEFINE t == [Blank EXCEPT !.state = "closed"]
<1>1. /\ tab' = [tab EXCEPT ![c] = t]
      /\ outcome' = [outcome EXCEPT ![c] = AllSettled(outcome[c])]
      /\ conn' = [conn EXCEPT ![c] = Cut(conn[c])]
      /\ UNCHANGED db /\ poke' = poke /\ perdag' = perdag
      /\ queue' = queue /\ pushes' = pushes /\ request' = request
  BY DEF Close, views, server
<1>2. outcome[c] \in Seq(Results) /\ conn[c] \in Connection
  BY DEF Flow, Kept
<1>3. SameMade
  BY <1>1, <1>2, AllSettledKeeps, OneSettled DEF Flow
<1>4. t \in Tab /\ t.loaded \in Progress
  <2>1. NoMutations \in Progress
    <3>1. \A d \in Clients : Made(d) \in Nat
      <4>1. \A d \in Clients : outcome[d] \in Seq(Results)
        BY DEF Flow, Kept
      <4> QED
        BY <4>1, LenProperties DEF Made
    <3> QED
      BY <3>1 DEF NoMutations, Progress
  <2>2. NoMutations \in [Clients -> Nat]
    BY DEF NoMutations
  <2>3. t = [state |-> "closed", snap |-> 0, loaded |-> NoMutations, received |-> 0,
             tracked |-> 0, sent |-> NoMutations, buffer |-> 0]
    BY DEF Blank
  <2> HIDE DEF t
  <2> QED
    BY <2>1, <2>2, <2>3 DEF Tab
<1> HIDE DEF t
<1>5. Kept'
  <2>1. tab' \in [Clients -> Tab] /\ \A d \in Clients : tab'[d].loaded \in Progress
    BY <1>1, <1>4 DEF Flow, Kept
  <2>2. conn' \in [Clients -> Connection]
    BY <1>1, <1>2, ConnectionTypes DEF Flow, Kept
  <2>3. outcome' \in [Clients -> Seq(Results)]
    BY <1>3 DEF SameMade
  <2> QED
    BY <1>1, <1>3, <2>1, <2>2, <2>3, SameOnly DEF Flow, Kept, Connection, Tab, Results
<1> QED
  BY <1>1, <1>3, <1>5, SameUnderWay, QuietSteps

\* A connection breaks, and the tab connects again or not.
LEMMA DropSteps ==
    ASSUME Flow, NEW c \in Clients, Drop(c)
    PROVE  Steps
<1>1. /\ conn' = [conn EXCEPT ![c] = Cut(conn[c])]
      /\ \/ tab' = [tab EXCEPT ![c] = Disconnected(tab[c])] /\ outcome' = outcome
         \/ /\ tab' = [tab EXCEPT ![c] = Paused(tab[c])]
            /\ outcome' = [outcome EXCEPT ![c] = AllSettled(outcome[c])]
      /\ UNCHANGED db /\ poke' = poke /\ perdag' = perdag
      /\ queue' = queue /\ pushes' = pushes /\ request' = request
  BY DEF Drop, views, server
<1>2. outcome[c] \in Seq(Results) /\ conn[c] \in Connection /\ tab[c] \in Tab
  BY DEF Flow, Kept
<1>3. SameMade
  <2>1. CASE outcome' = outcome
    BY <2>1 DEF Flow, Kept, SameMade
  <2>2. CASE outcome' = [outcome EXCEPT ![c] = AllSettled(outcome[c])]
    BY <1>2, <2>2, AllSettledKeeps, OneSettled DEF Flow
  <2> QED
    BY <1>1, <2>1, <2>2
<1>4. SameLoaded
  BY <1>1, <1>2, TabTypes, OneTab DEF Flow
<1>5. conn' \in [Clients -> Connection] /\ poke' \in [to : Nat, ws : [Clients -> Nat]]
  BY <1>1, <1>2, ConnectionTypes DEF Flow, Kept
<1> QED
  BY <1>1, <1>3, <1>4, <1>5, SameUnderWay, OtherSteps

LEMMA ResumeSteps ==
    ASSUME Flow, NEW c \in Clients, Resume(c)
    PROVE  Steps
<1> DEFINE t == [tab[c] EXCEPT !.state = "open"]
<1>1. /\ tab' = [tab EXCEPT ![c] = t]
      /\ UNCHANGED db /\ poke' = poke /\ perdag' = perdag /\ outcome' = outcome /\ conn' = conn
      /\ queue' = queue /\ pushes' = pushes /\ request' = request
  BY DEF Resume, views, server
<1>2. SameMade /\ SameLoaded
  <2>1. t \in Tab /\ t.loaded = tab[c].loaded
    BY DEF Flow, Kept, Tab
  <2> HIDE DEF t
  <2>2. SameLoaded
    BY <1>1, <2>1, OneTab DEF Flow
  <2>3. SameMade
    BY <1>1 DEF Flow, Kept, SameMade
  <2> QED
    BY <2>2, <2>3
<1>3. conn' \in [Clients -> Connection] /\ poke' \in [to : Nat, ws : [Clients -> Nat]]
  BY <1>1 DEF Flow, Kept
<1> QED
  BY <1>1, <1>2, <1>3, SameUnderWay, OtherSteps

LEMMA HangUpSteps ==
    ASSUME Flow, NEW c \in Clients, HangUp(c)
    PROVE  Steps
<1>1. /\ conn' = [conn EXCEPT ![c].pusher = None]
      /\ UNCHANGED db /\ poke' = poke /\ perdag' = perdag /\ outcome' = outcome /\ tab' = tab
      /\ queue' = queue /\ pushes' = pushes /\ request' = request
  BY DEF HangUp, views, tabs, server
<1>2. SameMade /\ SameLoaded
  BY <1>1 DEF Flow, Kept, SameMade, SameLoaded
<1>3. conn' \in [Clients -> Connection] /\ poke' \in [to : Nat, ws : [Clients -> Nat]]
  <2>1. ~conn[c].live /\ conn[c] \in Connection
    BY DEF HangUp, Flow, Kept
  <2>2. [conn[c] EXCEPT !.pusher = None] \in Connection
    BY <2>1 DEF Connection
  <2> QED
    BY <1>1, <2>2 DEF Flow, Kept
<1> QED
  BY <1>1, <1>2, <1>3, SameUnderWay, OtherSteps

\* A tab connects, and settles what it has been told of.
LEMMA ConnectSteps ==
    ASSUME Flow, NEW c \in Clients, Connect(c)
    PROVE  Steps
<1> DEFINE t == tab[c]
           fresh == [t EXCEPT !.tracked = t.received, !.sent = NoMutations]
<1>1. PICK p \in Serving(c) :
         /\ conn' = [conn EXCEPT ![c] = [pusher |-> p, ws |-> conn[c].ws + 1,
                                         live |-> t.received >= t.tracked, base |-> t.snap]]
         /\ UNCHANGED db /\ poke' = poke /\ perdag' = perdag
         /\ queue' = queue /\ pushes' = pushes /\ request' = request
  BY DEF Connect, views
<1>2. \/ /\ tab' = [tab EXCEPT ![c].tracked = t.received, ![c].sent = NoMutations]
         /\ \/ outcome' = [outcome EXCEPT ![c] = outcome[c]]
            \/ outcome' = [outcome EXCEPT ![c] = UpTo(outcome[c], t.received, "assumed")]
      \/ /\ tab' = [tab EXCEPT ![c] = Paused(t)]
         /\ outcome' = [outcome EXCEPT ![c] = AllSettled(outcome[c])]
  BY DEF Connect
<1>3. outcome[c] \in Seq(Results) /\ conn[c] \in Connection /\ t \in Tab
  BY DEF Flow, Kept
<1>4. SameMade
  <2>1. /\ UpTo(outcome[c], t.received, "assumed") \in Seq(Results)
        /\ Len(UpTo(outcome[c], t.received, "assumed")) = Len(outcome[c])
    <3>1. "assumed" \in Results
      BY DEF Results
    <3> QED
      BY <1>3, <3>1, SettleKeeps DEF UpTo
  <2> QED
    BY <1>2, <1>3, <2>1, AllSettledKeeps, OneSettled DEF Flow
<1>5. SameLoaded
  <2>1. CASE tab' = [tab EXCEPT ![c].tracked = t.received, ![c].sent = NoMutations]
    <3>1. NoMutations \in [Clients -> Nat]
      BY DEF NoMutations
    <3> QED
      BY <1>3, <2>1, <3>1 DEF Flow, Kept, SameLoaded, Tab
  <2>2. CASE tab' = [tab EXCEPT ![c] = Paused(t)]
    BY <1>3, <2>2, TabTypes, OneTab DEF Flow
  <2> QED
    BY <1>2, <2>1, <2>2
<1>6. conn' \in [Clients -> Connection]
  <2>1. p \in Pushers
    <3>1. CASE p = current /\ current # None /\ Refs(current, c) # {}
      <4>1. PICK d \in Clients : conn[d].pusher = p
        BY <3>1 DEF Refs
      <4>2. conn[d].pusher \in Pushers \cup {None}
        BY <4>1 DEF Flow, Kept, Connection
      <4> QED
        BY <3>1, <4>1, <4>2
    <3>2. CASE p \in Pushers
      BY <3>2
    <3> QED
      BY <1>1, <3>1, <3>2 DEF Serving
  <2> QED
    BY <1>1, <1>3, <2>1 DEF Flow, Kept, Connection, Tab
<1>7. poke' \in [to : Nat, ws : [Clients -> Nat]]
  BY <1>1 DEF Flow, Kept
<1> QED
  BY <1>1, <1>4, <1>5, <1>6, <1>7, SameUnderWay, OtherSteps

\* What a tab pushes was made: by itself, or before it persisted what it has
\* taken over.
LEMMA PushSteps ==
    ASSUME Flow, NEW c \in Clients, Push(c)
    PROVE  Steps
<1> DEFINE p == conn[c].pusher
           m(d) == [client |-> d, id |-> Sent(c, d) + 1]
<1>1. PICK d \in Clients :
         /\ Unsent(c, d)
         /\ tab' = [tab EXCEPT ![c].sent[d] = m(d).id]
         /\ IF request[p] = Resting
            THEN Go(p, << >>, Enqueued(queue[p], c, m(d)), request)
            ELSE /\ queue' = [queue EXCEPT ![p] = Enqueued(queue[p], c, m(d))]
                 /\ pushes' = pushes /\ request' = request
  BY DEF Push
<1>2. /\ UNCHANGED db /\ poke' = poke /\ perdag' = perdag /\ outcome' = outcome /\ conn' = conn
  BY DEF Push, views
<1>3. /\ tab[c] \in Tab /\ conn[c] \in Connection
      /\ \A e \in Clients : tab[c].loaded[e] \in Nat /\ tab[c].loaded[e] <= Made(e)
  BY DEF Flow, Kept, Progress
<1>4. Sent(c, d) \in Nat
  BY <1>3, LmidType DEF Sent, Larger, Tab
<1>5. m(d) \in MadeOnly
  <2>1. Made(d) \in Nat
    <3>1. outcome[d] \in Seq(Results)
      BY DEF Flow, Kept
    <3> QED
      BY <3>1, LenProperties DEF Made
  <2>2. Sent(c, d) < Made(d)
    BY <1>1, <1>3, <1>4, <2>1 DEF Unsent
  <2> QED
    BY <1>4, <2>1, <2>2 DEF MadeOnly
<1>6. SameMade /\ SameLoaded
  <2>1. SameMade
    BY <1>2 DEF Flow, Kept, SameMade
  <2>2. m(d).id \in Nat
    BY <1>4
  <2> HIDE DEF m
  <2>3. SameLoaded
    BY <1>1, <1>3, <2>2 DEF Flow, Kept, SameLoaded, Tab
  <2> QED
    BY <2>1, <2>3
<1>7. conn' \in [Clients -> Connection] /\ poke' \in [to : Nat, ws : [Clients -> Nat]]
  BY <1>2 DEF Flow, Kept
<1>8. UnderWayIn(MadeOnly, queue', pushes', request')
  <2> HIDE DEF m
  <2>1. UnderWayIn(MadeOnly, queue, pushes, request)
    BY DEF Flow, UnderWay
  <2>2. CASE p \in Pushers
    <3>1. queue[p] \in Seq(Group(MadeOnly))
      BY <2>1, <2>2 DEF UnderWayIn
    <3>2. Enqueued(queue[p], c, m(d)) \in Seq(Group(MadeOnly))
      BY <1>3, <1>5, <3>1, EnqueuedKeeps DEF Connection
    <3>3. CASE request[p] = Resting
      <4>1. << >> \in Seq(Batch(MadeOnly))
        BY EmptySeq
      <4>2. Go(p, << >>, Enqueued(queue[p], c, m(d)), request)
        BY <1>1, <3>3
      <4> QED
        BY <2>1, <2>2, <3>2, <4>1, <4>2, GoKeeps
    <3>4. CASE request[p] # Resting
      <4>1. /\ queue' = [queue EXCEPT ![p] = Enqueued(queue[p], c, m(d))]
            /\ pushes' = pushes /\ request' = request
        BY <1>1, <3>4
      <4> QED
        BY <2>1, <3>2, <4>1 DEF UnderWayIn
    <3> QED
      BY <3>3, <3>4
  <2>3. p \in Pushers
    BY <1>3 DEF Push, Connection
  <2> QED
    BY <2>2, <2>3
<1> QED
  BY <1>2, <1>6, <1>7, <1>8, OtherSteps

LEMMA StartPokeSteps ==
    ASSUME Flow, NEW v \in 1..Len(log), StartPoke(v)
    PROVE  Steps
<1> DEFINE behind == {c \in Clients : conn[c].live /\ conn[c].base < v}
<1>1. /\ poke' = [to |-> v, ws |-> [c \in Clients |-> IF c \in behind THEN conn[c].ws ELSE 0]]
      /\ tab' = [c \in Clients |-> IF c \in behind THEN Informed(c, v) ELSE tab[c]]
      /\ UNCHANGED db /\ perdag' = perdag /\ outcome' = outcome /\ conn' = conn
      /\ queue' = queue /\ pushes' = pushes /\ request' = request
  BY DEF StartPoke, server
<1> HIDE DEF behind
<1>2. \A c \in Clients : conn[c] \in Connection /\ tab[c] \in Tab
  BY DEF Flow, Kept
<1>3. v \in Nat
  OBVIOUS
<1>4. \A c \in Clients : Informed(c, v) \in Tab /\ Informed(c, v).loaded = tab[c].loaded
  <2>1. ASSUME NEW c \in Clients
        PROVE  [tab[c] EXCEPT !.received = Lmid(v, c)] \in Tab
    BY <1>2, <1>3, LmidType DEF Tab
  <2> QED
    BY <1>2, <2>1 DEF Informed, Tab
<1>5. SameMade /\ SameLoaded
  BY <1>1, <1>2, <1>4 DEF Flow, Kept, SameMade, SameLoaded
<1>6. conn' \in [Clients -> Connection]
  BY <1>1 DEF Flow, Kept
<1>7. poke' \in [to : Nat, ws : [Clients -> Nat]]
  BY <1>1, <1>2, <1>3 DEF Connection
<1> QED
  BY <1>1, <1>5, <1>6, <1>7, SameUnderWay, OtherSteps

LEMMA EndPokeSteps ==
    ASSUME Flow, EndPoke
    PROVE  Steps
<1>1. /\ poke' = NoPoke
      /\ tab' = [c \in Clients |->
            IF Served(c) THEN [tab[c] EXCEPT !.buffer = poke.to] ELSE tab[c]]
      /\ conn' = [c \in Clients |->
            IF Served(c) THEN [conn[c] EXCEPT !.base = poke.to] ELSE conn[c]]
      /\ UNCHANGED db /\ perdag' = perdag /\ outcome' = outcome
      /\ queue' = queue /\ pushes' = pushes /\ request' = request
  BY DEF EndPoke, server
<1>2. poke.to \in Nat /\ \A c \in Clients : conn[c] \in Connection /\ tab[c] \in Tab
  BY DEF Flow, Kept
<1>3. SameMade
  BY <1>1 DEF Flow, Kept, SameMade
<1>4. SameLoaded
  <2>1. \A c \in Clients : LET t == [tab[c] EXCEPT !.buffer = poke.to] IN
                            t \in Tab /\ t.loaded = tab[c].loaded
    BY <1>2 DEF Tab
  <2> QED
    BY <1>1, <1>2, <2>1 DEF SameLoaded
<1>5. conn' \in [Clients -> Connection]
  <2>1. \A c \in Clients : [conn[c] EXCEPT !.base = poke.to] \in Connection
    BY <1>2 DEF Connection
  <2> QED
    BY <1>1, <1>2, <2>1
<1>6. poke' \in [to : Nat, ws : [Clients -> Nat]]
  BY <1>1 DEF NoPoke, NoMutations
<1> QED
  BY <1>1, <1>3, <1>4, <1>5, <1>6, SameUnderWay, OtherSteps

LEMMA PokeFailsSteps ==
    ASSUME Flow, PokeFails
    PROVE  Steps
<1>1. /\ poke' = NoPoke
      /\ tab' = [c \in Clients |-> IF Served(c) THEN Disconnected(tab[c]) ELSE tab[c]]
      /\ conn' = [c \in Clients |-> IF Served(c) THEN Cut(conn[c]) ELSE conn[c]]
      /\ UNCHANGED db /\ perdag' = perdag /\ outcome' = outcome
      /\ queue' = queue /\ pushes' = pushes /\ request' = request
  BY DEF PokeFails, server
<1>2. SameMade
  BY <1>1 DEF Flow, Kept, SameMade
<1>3. SameLoaded
  BY <1>1, TabTypes DEF Flow, Kept, SameLoaded
<1>4. conn' \in [Clients -> Connection]
  BY <1>1, ConnectionTypes DEF Flow, Kept
<1>5. poke' \in [to : Nat, ws : [Clients -> Nat]]
  BY <1>1 DEF NoPoke, NoMutations
<1> QED
  BY <1>1, <1>2, <1>3, <1>4, <1>5, SameUnderWay, OtherSteps

\* A tab takes a poke over, and settles what it says of its mutations.
LEMMA PlaybackSteps ==
    ASSUME Flow, NEW c \in Clients, Playback(c)
    PROVE  Steps
<1> DEFINE t == tab[c]
           lmid == Lmid(t.buffer, c)
           moved == [t EXCEPT !.snap = t.buffer, !.buffer = 0]
           known == WithResults(c, outcome[c], t.snap, t.buffer)
<1>1. /\ UNCHANGED db /\ poke' = poke /\ perdag' = perdag
      /\ queue' = queue /\ pushes' = pushes /\ request' = request
  BY DEF Playback, views, server
<1>2. /\ \/ tab' = [tab EXCEPT ![c] = moved]
         \/ tab' = [tab EXCEPT ![c] = Paused(moved)]
         \/ tab' = [tab EXCEPT ![c] = [moved EXCEPT !.tracked = lmid]]
      /\ \/ outcome' = outcome
         \/ outcome' = [outcome EXCEPT ![c] = AllSettled(known)]
         \/ outcome' = [outcome EXCEPT ![c] = known]
         \/ outcome' = [outcome EXCEPT ![c] = Told(c, t, lmid)]
      /\ conn' = conn \/ conn' = [conn EXCEPT ![c] = Cut(conn[c])]
  BY DEF Playback
<1>3. outcome[c] \in Seq(Results) /\ conn[c] \in Connection /\ t \in Tab /\ t.buffer \in Nat
  BY DEF Flow, Kept, Tab
<1>4. known \in Seq(Results) /\ Len(known) = Len(outcome[c])
  <2>1. "app" \in Results
    BY DEF Results
  <2> QED
    BY <1>3, <2>1, SettleKeeps DEF WithResults
<1>5. Told(c, t, lmid) \in Seq(Results) /\ Len(Told(c, t, lmid)) = Len(outcome[c])
  <2>1. "success" \in Results
    BY DEF Results
  <2> QED
    BY <1>4, <2>1, SettleKeeps DEF Told, UpTo
<1>6. lmid \in Nat
  BY <1>3, LmidType
<1>7. moved \in Tab /\ moved.loaded = t.loaded
  BY <1>3 DEF Tab
<1>8. [moved EXCEPT !.tracked = lmid] \in Tab /\ [moved EXCEPT !.tracked = lmid].loaded = t.loaded
  <2> HIDE DEF moved, lmid
  <2> QED
    BY <1>6, <1>7 DEF Tab
<1> HIDE DEF known, moved, lmid
<1>9. SameMade
  <2>1. CASE outcome' = outcome
    BY <2>1 DEF Flow, Kept, SameMade
  <2>2. CASE outcome' # outcome
    BY <1>2, <1>4, <1>5, <2>2, AllSettledKeeps, OneSettled DEF Flow
  <2> QED
    BY <2>1, <2>2
<1>10. SameLoaded
  <2>1. PICK u \in Tab : u.loaded = t.loaded /\ tab' = [tab EXCEPT ![c] = u]
    BY <1>2, <1>7, <1>8, TabTypes
  <2> QED
    BY <2>1, OneTab DEF Flow
<1>11. conn' \in [Clients -> Connection] /\ poke' \in [to : Nat, ws : [Clients -> Nat]]
  <2>1. conn \in [Clients -> Connection] /\ poke \in [to : Nat, ws : [Clients -> Nat]]
    BY DEF Flow, Kept
  <2>2. PICK cut : cut = Cut(conn[c])
    OBVIOUS
  <2>3. cut \in Connection
    BY <1>3, <2>2, ConnectionTypes
  <2>4. conn' = conn \/ conn' = [conn EXCEPT ![c] = cut]
    BY <1>2, <2>2
  <2>5. conn' \in [Clients -> Connection]
    BY <2>1, <2>3, <2>4
  <2> QED
    BY <1>1, <2>1, <2>5
<1> QED
  BY <1>1, <1>9, <1>10, <1>11, SameUnderWay, OtherSteps

\* A request or its answer is lost.
LEMMA RequestFailsSteps ==
    ASSUME Flow, NEW p \in Pushers, RequestFails(p)
    PROVE  Steps
<1> DEFINE left(goesOn) == IF goesOn THEN [request EXCEPT ![Orphan] = request[p]] ELSE request
<1>1. PICK goesOn \in BOOLEAN :
         \/ /\ request' = [left(goesOn) EXCEPT ![p] = Start(left(goesOn)[p].muts)]
            /\ tab' = tab /\ outcome' = outcome /\ conn' = conn /\ queue' = queue /\ pushes' = pushes
         \/ /\ FanOut(p, request[p].muts)
            /\ NextPush(p, left(goesOn))
  BY DEF RequestFails
<1>2. UNCHANGED db /\ poke' = poke /\ perdag' = perdag /\ Working(p)
  BY DEF RequestFails, views
<1>3. /\ UnderWayIn(MadeOnly, queue, pushes, request)
      /\ p \in Handlers /\ p # Orphan /\ request[p] \in Request(MadeOnly)
  BY FlowAssumption DEF Flow, UnderWay, UnderWayIn, Handlers
<1>4. UnderWayIn(MadeOnly, queue, pushes, left(goesOn)) /\ left(goesOn)[p] = request[p]
  BY <1>3 DEF UnderWayIn
<1>5. Start(request[p].muts) \in Request(MadeOnly)
  <2>1. request[p].muts \in Seq(MadeOnly) /\ request[p].done < Len(request[p].muts)
        /\ request[p].done \in Nat
    BY <1>2, <1>3, CurrentType
  <2>2. request[p].muts # << >>
    BY <2>1, EmptySeq
  <2> QED
    BY <2>1, <2>2, RequestKeeps DEF Batch
<1> HIDE DEF left
<1>6. CASE /\ request' = [left(goesOn) EXCEPT ![p] = Start(left(goesOn)[p].muts)]
           /\ tab' = tab /\ outcome' = outcome /\ conn' = conn /\ queue' = queue /\ pushes' = pushes
  <2>1. UnderWayIn(MadeOnly, queue', pushes', request')
    BY <1>4, <1>5, <1>6 DEF UnderWayIn
  <2>2. SameMade /\ SameLoaded
    BY <1>6 DEF Flow, Kept, SameMade, SameLoaded
  <2>3. conn' \in [Clients -> Connection] /\ poke' \in [to : Nat, ws : [Clients -> Nat]]
    BY <1>2, <1>6 DEF Flow, Kept
  <2> QED
    BY <1>2, <2>1, <2>2, <2>3, OtherSteps
<1>7. CASE FanOut(p, request[p].muts) /\ NextPush(p, left(goesOn))
  <2>1. UnderWayIn(MadeOnly, queue', pushes', request')
    BY <1>4, <1>7, NextKeeps
  <2>2. SameMade /\ SameLoaded /\ conn' \in [Clients -> Connection]
    BY <1>7, FanOutKeeps DEF Flow
  <2>3. poke' \in [to : Nat, ws : [Clients -> Nat]]
    BY <1>2 DEF Flow, Kept
  <2> QED
    BY <1>2, <2>1, <2>2, <2>3, OtherSteps
<1> QED
  BY <1>1, <1>6, <1>7

LEMMA EndsSteps ==
    ASSUME Flow, NEW p \in Pushers, Ends(p)
    PROVE  Steps
<1>1. /\ UNCHANGED db /\ poke' = poke /\ perdag' = perdag /\ tab' = tab /\ outcome' = outcome
      /\ conn' = conn /\ queue' = queue /\ pushes' = pushes /\ request' = request
  BY DEF Ends, views, tabs
<1>2. SameMade /\ SameLoaded
  BY <1>1 DEF Flow, Kept, SameMade, SameLoaded
<1>3. conn' \in [Clients -> Connection] /\ poke' \in [to : Nat, ws : [Clients -> Nat]]
  BY <1>1 DEF Flow, Kept
<1> QED
  BY <1>1, <1>2, <1>3, SameUnderWay, OtherSteps

\* The process dies, and leaves at most one request behind.
LEMMA CrashSteps ==
    ASSUME Flow, Crash
    PROVE  Steps
<1>1. PICK h \in Handlers :
         request' = [g \in Handlers |-> IF g = Orphan THEN request[h] ELSE Resting]
  BY DEF Crash
<1>2. /\ queue' = [p \in Pushers |-> << >>] /\ pushes' = [p \in Pushers |-> << >>]
      /\ poke' = NoPoke
      /\ conn' = [c \in Clients |-> [Cut(conn[c]) EXCEPT !.pusher = None]]
      /\ tab' = [c \in Clients |-> IF conn[c].live THEN Disconnected(tab[c]) ELSE tab[c]]
      /\ UNCHANGED db /\ perdag' = perdag /\ outcome' = outcome
  BY DEF Crash
<1>3. UnderWayIn(MadeOnly, queue', pushes', request')
  <2>1. request[h] \in Request(MadeOnly) /\ Resting \in Request(MadeOnly)
    BY RequestKeeps DEF Flow, UnderWay, UnderWayIn
  <2>2. request' \in [Handlers -> Request(MadeOnly)]
    BY <1>1, <2>1
  <2>3. << >> \in Seq(Group(MadeOnly)) /\ << >> \in Seq(Batch(MadeOnly))
    BY EmptySeq
  <2> QED
    BY <1>2, <2>2, <2>3 DEF UnderWayIn
<1>4. SameMade
  BY <1>2 DEF Flow, Kept, SameMade
<1>5. SameLoaded
  BY <1>2, TabTypes DEF Flow, Kept, SameLoaded
<1>6. conn' \in [Clients -> Connection]
  BY <1>2, ConnectionTypes DEF Flow, Kept
<1>7. poke' \in [to : Nat, ws : [Clients -> Nat]]
  BY <1>2 DEF NoPoke, NoMutations
<1> QED
  BY <1>2, <1>3, <1>4, <1>5, <1>6, <1>7, OtherSteps

\* A mutation that was processed before.
LEMMA AlreadyProcessedSteps ==
    ASSUME Flow, NEW h \in Handlers, AlreadyProcessed(h)
    PROVE  Steps
<1>1. /\ Working(h) /\ Processed(h)
      /\ UNCHANGED db /\ poke' = poke /\ perdag' = perdag /\ tab' = tab /\ outcome' = outcome
      /\ conn' = conn
  BY DEF AlreadyProcessed, Elsewhere, views
<1>2. UnderWayIn(MadeOnly, queue', pushes', request')
  BY <1>1, ProcessedKeeps DEF Flow, UnderWay
<1>3. SameMade /\ SameLoaded
  BY <1>1 DEF Flow, Kept, SameMade, SameLoaded
<1>4. conn' \in [Clients -> Connection] /\ poke' \in [to : Nat, ws : [Clients -> Nat]]
  BY <1>1 DEF Flow, Kept
<1> QED
  BY <1>1, <1>2, <1>3, <1>4, OtherSteps

\* A push that fails, after whatever its mutations did before.
LEMMA FailedPushSteps ==
    ASSUME Flow, NEW h \in Handlers, PushFails(h), UNCHANGED db, Elsewhere
    PROVE  Steps
<1>1. poke' = poke /\ perdag' = perdag
  BY DEF Elsewhere, views
<1>2. /\ UnderWayIn(MadeOnly, queue', pushes', request')
      /\ SameMade /\ SameLoaded /\ conn' \in [Clients -> Connection]
  BY PushFailsKeeps DEF Flow, UnderWay
<1>3. poke' \in [to : Nat, ws : [Clients -> Nat]]
  BY <1>1 DEF Flow, Kept
<1> QED
  BY <1>1, <1>2, <1>3, OtherSteps

\* A handler notes that a mutation has failed.
LEMMA FailedOnceKeeps ==
    ASSUME NEW M, UnderWayIn(M, queue, pushes, request), NEW h \in Handlers, Working(h),
           request' = [request EXCEPT ![h].failed = TRUE], queue' = queue, pushes' = pushes
    PROVE  UnderWayIn(M, queue', pushes', request')
<1> DEFINE r == [request[h] EXCEPT !.failed = TRUE]
<1>1. /\ request[h] \in [muts : Seq(M), done : Nat, failed : BOOLEAN]
      /\ request[h].done < Len(request[h].muts)
  BY DEF UnderWayIn, Request, Working
<1>2. r \in Request(M)
  BY <1>1 DEF Request
<1>3. request' = [request EXCEPT ![h] = r]
  OBVIOUS
<1> HIDE DEF r
<1> QED
  BY <1>2, <1>3 DEF UnderWayIn

LEMMA MutatorFailsSteps ==
    ASSUME Flow, NEW h \in Handlers, MutatorFails(h)
    PROVE  Steps
<1>1. /\ Working(h) /\ request' = [request EXCEPT ![h].failed = TRUE]
      /\ UNCHANGED db /\ poke' = poke /\ perdag' = perdag /\ tab' = tab /\ outcome' = outcome
      /\ conn' = conn /\ queue' = queue /\ pushes' = pushes
  BY DEF MutatorFails, InTurn, Elsewhere, views
<1>2. UnderWayIn(MadeOnly, queue', pushes', request')
  BY <1>1, FailedOnceKeeps DEF Flow, UnderWay
<1>3. SameMade /\ SameLoaded
  BY <1>1 DEF Flow, Kept, SameMade, SameLoaded
<1>4. conn' \in [Clients -> Connection] /\ poke' \in [to : Nat, ws : [Clients -> Nat]]
  BY <1>1 DEF Flow, Kept
<1> QED
  BY <1>1, <1>2, <1>3, <1>4, OtherSteps

\* A step that commits: whatever becomes of the request, it was its turn.
LEMMA CommitSteps ==
    ASSUME Flow, SameMade, SameLoaded, NEW h \in Handlers, InTurn(h),
           NEW res \in {"applied", "failed"}, Commit(Current(h), res), Elsewhere,
           conn' \in [Clients -> Connection],
           UnderWayIn(MadeOnly, queue', pushes', request')
    PROVE  Steps
<1>1. Current(h) \in MadeOnly
  BY CurrentType DEF Flow, UnderWay, UnderWayIn, InTurn
<1>2. Logged' /\ Promise!Next
  BY <1>1, CommitIsNext DEF Flow, InTurn
<1>3. perdag' = perdag /\ poke' \in [to : Nat, ws : [Clients -> Nat]]
  BY DEF Elsewhere, views, Flow, Kept
<1>4. Kept'
  BY <1>3, SameKept DEF Flow
<1>5. UnderWay'
  BY SameOnly DEF UnderWay
<1> QED
  BY <1>2, <1>4, <1>5 DEF Flow, Steps

LEMMA ExecuteSteps ==
    ASSUME Flow, NEW h \in Handlers, Execute(h)
    PROVE  Steps
<1> DEFINE res == IF request[h].failed THEN "failed" ELSE "applied"
<1>1. /\ InTurn(h) /\ Working(h) /\ Commit(Current(h), res) /\ Processed(h) /\ Elsewhere
      /\ tab' = tab /\ outcome' = outcome /\ conn' = conn
  BY DEF Execute, InTurn
<1>2. res \in {"applied", "failed"}
  OBVIOUS
<1> HIDE DEF res
<1>3. UnderWayIn(MadeOnly, queue', pushes', request')
  BY <1>1, ProcessedKeeps DEF Flow, UnderWay
<1>4. SameMade /\ SameLoaded /\ conn' \in [Clients -> Connection]
  BY <1>1 DEF Flow, Kept, SameMade, SameLoaded
<1> QED
  BY <1>1, <1>2, <1>3, <1>4, CommitSteps

\* A failing database may have committed before.
LEMMA DatabaseFailsSteps ==
    ASSUME Flow, NEW h \in Handlers, DatabaseFails(h)
    PROVE  Steps
<1> DEFINE res == IF request[h].failed THEN "failed" ELSE "applied"
<1>1. /\ Working(h) /\ Elsewhere
      /\ \/ InTurn(h) /\ Commit(Current(h), res)
         \/ UNCHANGED db
      /\ \/ PushFails(h)
         \/ /\ request' = [request EXCEPT ![h].failed = TRUE]
            /\ tab' = tab /\ outcome' = outcome /\ conn' = conn /\ queue' = queue /\ pushes' = pushes
  BY DEF DatabaseFails
<1>2. res \in {"applied", "failed"}
  OBVIOUS
<1> HIDE DEF res
<1>3. /\ UnderWayIn(MadeOnly, queue', pushes', request')
      /\ SameMade /\ SameLoaded /\ conn' \in [Clients -> Connection]
  <2>1. UnderWayIn(MadeOnly, queue, pushes, request) /\ Kept
    BY DEF Flow, UnderWay
  <2>2. CASE PushFails(h)
    BY <2>1, <2>2, PushFailsKeeps
  <2>3. CASE /\ request' = [request EXCEPT ![h].failed = TRUE]
             /\ tab' = tab /\ outcome' = outcome /\ conn' = conn /\ queue' = queue /\ pushes' = pushes
    <3>1. UnderWayIn(MadeOnly, queue', pushes', request')
      BY <1>1, <2>1, <2>3, FailedOnceKeeps
    <3> QED
      BY <2>1, <2>3, <3>1 DEF Kept, SameMade, SameLoaded
  <2> QED
    BY <1>1, <2>2, <2>3
<1>4. CASE InTurn(h) /\ Commit(Current(h), res)
  BY <1>1, <1>2, <1>3, <1>4, CommitSteps
<1>5. CASE UNCHANGED db
  <2>1. perdag' = perdag /\ poke' \in [to : Nat, ws : [Clients -> Nat]]
    BY <1>1 DEF Elsewhere, views, Flow, Kept
  <2> QED
    BY <1>3, <1>5, <2>1, OtherSteps
<1> QED
  BY <1>1, <1>4, <1>5

-----------------------------------------------------------------------------
(* The theorems. *)

LEMMA InitFlow ==
    ASSUME Init
    PROVE  Flow /\ Promise!Init
<1>1. NoMutations \in [Clients -> Nat] /\ \A c \in Clients : NoMutations[c] = 0
  BY DEF NoMutations
<1>2. Logged
  <2>1. log = << >> /\ lmids = NoMutations
    BY DEF Init
  <2>2. \A c \in Clients : Promise!Committed(c) = {}
    BY <2>1 DEF Promise!Committed
  <2> QED
    BY <1>1, <2>1, <2>2, EmptySeq DEF Logged
<1>3. \A c \in Clients : outcome[c] = << >> /\ Made(c) = 0
  BY EmptySeq DEF Init, Made
<1>4. Kept
  <2>1. outcome \in [Clients -> Seq(Results)]
    BY EmptySeq DEF Init
  <2>2. NoMutations \in Progress
    BY <1>1, <1>3 DEF Progress
  <2>3. perdag \in [snap : Nat, made : Progress]
    BY <2>2 DEF Init
  <2>4. Blank \in Tab /\ Blank.loaded \in Progress
    BY <1>1, <2>2 DEF Blank, Tab
  <2>5. NoConnection \in Connection
    BY DEF NoConnection, Connection
  <2>6. NoPoke \in [to : Nat, ws : [Clients -> Nat]]
    BY <1>1 DEF NoPoke
  <2> QED
    BY <2>1, <2>3, <2>4, <2>5, <2>6 DEF Init, Kept
<1>5. UnderWay
  <2>1. << >> \in Seq(Group(MadeOnly)) /\ << >> \in Seq(Batch(MadeOnly))
    BY EmptySeq
  <2>2. Resting \in Request(MadeOnly)
    BY RequestKeeps
  <2> QED
    BY <2>1, <2>2 DEF Init, UnderWay, UnderWayIn
<1>6. Promise!Init
  <2>1. [c \in Clients |-> Made(c)] = [c \in Clients |-> 0]
    BY <1>3
  <2> QED
    BY <2>1 DEF Init, Promise!Init
<1> QED
  BY <1>2, <1>4, <1>5, <1>6 DEF Flow

LEMMA NextFlow ==
    ASSUME Flow, [Next]_vars
    PROVE  Steps
<1>1. ASSUME NEW c \in Clients,
             \/ Open(c) \/ MakeMutation(c) \/ Persist(c) \/ Close(c) \/ Drop(c) \/ Resume(c)
             \/ Connect(c) \/ HangUp(c) \/ Push(c) \/ Playback(c)
      PROVE  Steps
  BY <1>1, OpenSteps, MakeMutationSteps, PersistSteps, CloseSteps, DropSteps, ResumeSteps,
     ConnectSteps, HangUpSteps, PushSteps, PlaybackSteps, Zenon
<1>2. ASSUME NEW p \in Pushers, RequestFails(p) \/ Ends(p)
      PROVE  Steps
  BY <1>2, RequestFailsSteps, EndsSteps, Zenon
<1>3. ASSUME NEW h \in Handlers, Serve(h) \/ DatabaseFails(h) \/ RejectedAgain(h)
      PROVE  Steps
  <2>1. CASE AlreadyProcessed(h) \/ Execute(h) \/ MutatorFails(h) \/ DatabaseFails(h)
    BY <2>1, AlreadyProcessedSteps, ExecuteSteps, MutatorFailsSteps, DatabaseFailsSteps, Zenon
  <2>2. CASE OutOfOrder(h) \/ RejectedAgain(h)
    <3>1. PushFails(h) /\ UNCHANGED db /\ Elsewhere
      BY <2>2, Zenon DEF OutOfOrder, RejectedAgain
    <3> QED
      BY <3>1, FailedPushSteps, Zenon
  <2> QED
    BY <1>3, <2>1, <2>2, Zenon DEF Serve
<1>4. ASSUME NEW v \in 1..Len(log), StartPoke(v)
      PROVE  Steps
  BY <1>4, StartPokeSteps, Zenon
<1>5. CASE EndPoke \/ PokeFails \/ Crash
  BY <1>5, EndPokeSteps, PokeFailsSteps, CrashSteps, Zenon
<1>6. CASE UNCHANGED vars
  <2>1. /\ UNCHANGED db /\ poke' = poke /\ perdag' = perdag /\ tab' = tab /\ outcome' = outcome
        /\ conn' = conn /\ queue' = queue /\ pushes' = pushes /\ request' = request
    BY <1>6 DEF vars, db, views, tabs, server
  <2>2. SameMade /\ SameLoaded
    BY <2>1 DEF Flow, Kept, SameMade, SameLoaded
  <2>3. conn' \in [Clients -> Connection] /\ poke' \in [to : Nat, ws : [Clients -> Nat]]
    BY <2>1 DEF Flow, Kept
  <2> QED
    BY <2>1, <2>2, <2>3, SameUnderWay, OtherSteps
<1> QED
  BY <1>1, <1>2, <1>3, <1>4, <1>5, <1>6, Zenon DEF Next

\* Wherever a mutation is under way it was made by its client, what tabs persist
\* and take over was made, and the clients table counts the mutations that are
\* committed, which have no gap (zero.ts #pusher, replicache persist.ts,
\* pusher.ts combinePushes, process-mutations.ts).
THEOREM FlowTheorem == Spec => []Flow
<1>1. Init => Flow
  BY InitFlow
<1>2. Flow /\ [Next]_vars => Flow'
  BY NextFlow DEF Steps
<1> QED
  BY <1>1, <1>2, PTL DEF Spec

\* Every mutation is committed at most once, and each client's in the order they
\* were made in, for any number of tabs, pushers, mutations and faults
\* (process-mutations.ts #checkAndIncrementLastMutationID).
THEOREM MutationLogTheorem == Spec => ImplementsMutationLog
<1>1. Init => Promise!Init
  BY InitFlow
<1>2. Flow /\ [Next]_vars => [Promise!Next]_(Promise!vars)
  BY NextFlow DEF Steps
<1> QED
  BY <1>1, <1>2, FlowTheorem, PTL DEF Spec, ImplementsMutationLog, Promise!Spec

-----------------------------------------------------------------------------
(***************************************************************************)
(* That what a tab is told of its mutations is true, and that the last     *)
(* mutation ID it is told of does not go back, for any number of tabs,     *)
(* pushers, mutations and faults.                                          *)
(*                                                                         *)
(* Every position is a prefix of the log, in which a client's mutations    *)
(* are numbered in their order; hence a poke confirms exactly the          *)
(* mutations that its position holds.  A tab's mutation tracker is never   *)
(* behind the tab's snapshot, and it has settled whatever it is ahead of.  *)
(*                                                                         *)
(* Mutations reach the API server in order, though several connections,    *)
(* pushers and requests carry them: unless a push has failed, each         *)
(* mutation on its way is preceded on that way by the one before it, or    *)
(* that one has been committed.  With what pushers do while they rest,     *)
(* this gives the types of all variables.                                  *)
(***************************************************************************)

(* The inductive invariants. *)

\* The mutations of a client in a prefix of a log.
Counted(l, p, c) == {i \in 1..p : l[i].client = c}
Count(l, p, c) == Cardinality(Counted(l, p, c))

\* A client's mutations are numbered in their order, and the clients table
\* counts them.
Numbered ==
    /\ \A k \in 1..Len(log) : log[k].id = Count(log, k, log[k].client)
    /\ \A c \in Clients : lmids[c] = Count(log, Len(log), c) /\ lmids[c] <= Made(c)

Positions ==
    /\ {replica, cvr, poke.to, perdag.snap} \subseteq 0..Len(log)
    /\ \A c \in Clients : {tab[c].snap, tab[c].buffer, conn[c].base} \subseteq 0..Len(log)

CommittedAs(l, c, i, results) ==
    \E k \in 1..Len(l) : l[k].client = c /\ l[k].id = i /\ l[k].res \in results

Truly(l, c, i, told) ==
    /\ told = "success" => CommittedAs(l, c, i, {"applied"})
    /\ told = "app" => CommittedAs(l, c, i, {"failed"})
    /\ told = "assumed" => CommittedAs(l, c, i, {"applied", "failed"})

\* A tracker is not ahead of the clients table, at n, nor behind the snapshot,
\* and has settled the mutations up to where it is.
Tracks(l, n, c, t, results) ==
    /\ t.received <= n
    /\ t.tracked <= n
    /\ Count(l, t.snap, c) <= t.tracked
    /\ t.state = "new" => results = << >>
    /\ \A i \in 1..Len(results) : i <= t.tracked => results[i] # "pending"
    /\ \A i \in 1..Len(results) : Truly(l, c, i, results[i])

Confirmed ==
    /\ Flow
    /\ Numbered
    /\ Positions
    /\ \A c \in Clients : Tracks(log, lmids[c], c, tab[c], outcome[c])
    /\ \A c \in Clients : conn[c].live => tab[c].state = "open"

\* A tab has heard of no more than the replica holds, at v, and of all that its
\* connection and its poke buffer hold; a buffered poke is not behind what the
\* tracker knows.
Hears(l, v, pk, c, t, cn) ==
    /\ t.tracked <= t.received
    /\ t.received <= Count(l, v, c)
    /\ t.buffer # 0 => t.tracked <= Count(l, t.buffer, c)
    /\ Count(l, t.buffer, c) <= t.received
    /\ ~cn.live => t.buffer = 0
    /\ cn.live => cn.ws # 0
    /\ cn.live => Count(l, cn.base, c) <= t.received
    /\ pk.ws[c] <= cn.ws
    /\ cn.live /\ cn.ws = pk.ws[c] => Count(l, pk.to, c) <= t.received

Heard ==
    /\ Confirmed
    /\ poke # NoPoke => poke.to = replica
    /\ \A c \in Clients : Hears(log, replica, poke, c, tab[c], conn[c])

-----------------------------------------------------------------------------
(* Counting a client's mutations. *)

LEMMA LmidIsCount == \A p, c : Lmid(p, c) = Count(log, p, c)
BY DEF Lmid, Count, Counted

LEMMA CountType ==
    ASSUME NEW l, NEW p \in Nat, NEW c
    PROVE  /\ Count(l, p, c) \in Nat
           /\ IsFiniteSet(Counted(l, p, c))
<1>1. IsFiniteSet(1..p)
  BY FS_Interval
<1>2. Counted(l, p, c) \subseteq 1..p
  BY DEF Counted
<1>3. IsFiniteSet(Counted(l, p, c))
  BY <1>1, <1>2, FS_Subset
<1> QED
  BY <1>3, FS_CardinalityType DEF Count

LEMMA CountZero ==
    ASSUME NEW l, NEW c
    PROVE  Count(l, 0, c) = 0
<1>1. Counted(l, 0, c) = {}
  BY DEF Counted
<1> QED
  BY <1>1, FS_EmptySet DEF Count

LEMMA CountNext ==
    ASSUME NEW l, NEW p \in Nat, NEW c
    PROVE  Count(l, p + 1, c) = IF l[p + 1].client = c THEN Count(l, p, c) + 1 ELSE Count(l, p, c)
<1>1. IsFiniteSet(Counted(l, p, c))
  BY CountType
<1>2. p + 1 \notin Counted(l, p, c)
  BY DEF Counted
<1>3. CASE l[p + 1].client = c
  <2>1. Counted(l, p + 1, c) = Counted(l, p, c) \cup {p + 1}
    BY <1>3 DEF Counted
  <2>2. Cardinality(Counted(l, p + 1, c)) = Cardinality(Counted(l, p, c)) + 1
    BY <1>1, <1>2, <2>1, FS_AddElement
  <2> QED
    BY <1>3, <2>2 DEF Count
<1>4. CASE l[p + 1].client # c
  <2>1. Counted(l, p + 1, c) = Counted(l, p, c)
    BY <1>4 DEF Counted
  <2> QED
    BY <1>4, <2>1 DEF Count
<1> QED
  BY <1>3, <1>4

LEMMA CountGrows ==
    ASSUME NEW l, NEW p \in Nat, NEW q \in Nat, p <= q, NEW c
    PROVE  Count(l, p, c) <= Count(l, q, c)
<1>1. Counted(l, p, c) \subseteq Counted(l, q, c)
  BY DEF Counted
<1>2. IsFiniteSet(Counted(l, q, c))
  BY CountType
<1> QED
  BY <1>1, <1>2, FS_Subset DEF Count

\* A mutation counts more than every position before it.
LEMMA CountBefore ==
    ASSUME NEW l, NEW p \in Nat, NEW k \in Nat, p < k, NEW c, l[k].client = c
    PROVE  Count(l, p, c) < Count(l, k, c)
<1>1. k - 1 \in Nat /\ p <= k - 1 /\ (k - 1) + 1 = k
  OBVIOUS
<1>2. Count(l, p, c) <= Count(l, k - 1, c)
  BY <1>1, CountGrows
<1>3. Count(l, k, c) = Count(l, k - 1, c) + 1
  BY <1>1, CountNext
<1>4. Count(l, p, c) \in Nat /\ Count(l, k - 1, c) \in Nat
  BY <1>1, CountType
<1> QED
  BY <1>2, <1>3, <1>4

\* Two logs that agree up to a position count the same there.
LEMMA CountAgrees ==
    ASSUME NEW l, NEW m, NEW p \in Nat, NEW c, \A i \in 1..p : l[i] = m[i]
    PROVE  Count(l, p, c) = Count(m, p, c)
<1>1. Counted(l, p, c) = Counted(m, p, c)
  BY DEF Counted
<1> QED
  BY <1>1 DEF Count

-----------------------------------------------------------------------------
(* The log. *)

LEMMA LogType ==
    ASSUME Logged
    PROVE  /\ Len(log) \in Nat /\ DOMAIN log = 1..Len(log)
           /\ \A k \in 1..Len(log) : log[k] \in Entry
           /\ \A c \in Clients : lmids[c] \in Nat
BY LenProperties, ElementOfSeq DEF Logged

\* A mutation that a position counts, and an earlier one does not, lies between.
LEMMA Between ==
    ASSUME Logged, Numbered, NEW c \in Clients, NEW s \in 0..Len(log), NEW p \in 0..Len(log),
           NEW i \in Nat, Count(log, s, c) < i, i <= Count(log, p, c)
    PROVE  \E k \in (s + 1)..p : log[k].client = c /\ log[k].id = i
<1>1. /\ Len(log) \in Nat /\ s \in Nat /\ p \in Nat /\ s <= Len(log) /\ p <= Len(log)
      /\ lmids[c] \in Nat /\ DOMAIN log = 1..Len(log)
  BY LogType
<1>2. /\ Count(log, s, c) \in Nat /\ Count(log, p, c) \in Nat
      /\ Count(log, p, c) <= Count(log, Len(log), c)
  BY <1>1, CountType, CountGrows
<1>3. lmids[c] = Count(log, Len(log), c)
  BY DEF Numbered
<1>4. i \in 1..lmids[c]
  BY <1>1, <1>2, <1>3
<1>5. PICK k \in 1..Len(log) : log[k].client = c /\ log[k].id = i
  BY <1>1, <1>4 DEF Logged, Promise!Committed
<1>6. i = Count(log, k, c)
  BY <1>5 DEF Numbered
<1>7. k <= p
  <2>1. SUFFICES ASSUME p < k PROVE FALSE
    BY <1>1
  <2>2. Count(log, p, c) < Count(log, k, c)
    BY <1>1, <1>5, <2>1, CountBefore
  <2> QED
    BY <1>2, <1>6, <2>2
<1>8. s < k
  <2>1. SUFFICES ASSUME k <= s PROVE FALSE
    BY <1>1
  <2>2. Count(log, k, c) <= Count(log, s, c)
    BY <1>1, <2>1, CountGrows
  <2> QED
    BY <1>2, <1>6, <2>2
<1>9. k \in (s + 1)..p
  BY <1>1, <1>7, <1>8
<1> QED
  BY <1>5, <1>9

\* The log stays or grows: what was counted still is.
LogGrew ==
    /\ Len(log) <= Len(log')
    /\ \A k \in 1..Len(log) : log'[k] = log[k]
    /\ \A p \in 0..Len(log) : \A c \in Clients : Count(log', p, c) = Count(log, p, c)
    /\ \A c \in Clients : lmids[c] <= lmids'[c]

LEMMA LogSame ==
    ASSUME Logged, UNCHANGED db
    PROVE  LogGrew
BY LogType DEF LogGrew, db

LEMMA NumberedSame ==
    ASSUME Flow, Numbered, UNCHANGED db, \A c \in Clients : Made(c)' \in Nat /\ Made(c) <= Made(c)'
    PROVE  Numbered'
<1>1. log' = log /\ lmids' = lmids
  BY DEF db
<1>2. \A c \in Clients : Made(c) \in Nat /\ lmids[c] \in Nat
  <2>1. \A c \in Clients : outcome[c] \in Seq(Results)
    BY DEF Flow, Kept
  <2> QED
    BY <2>1, LenProperties, LogType DEF Flow, Made
<1>3. \A c \in Clients : lmids'[c] <= Made(c)'
  BY <1>1, <1>2 DEF Numbered
<1> QED
  BY <1>1, <1>3 DEF Numbered

\* A mutation in its turn is numbered as it should be.
LEMMA CommitNumbers ==
    ASSUME Flow, Numbered, SameMade, NEW m \in MadeOnly, m.id = Expected(m), NEW res,
           Commit(m, res)
    PROVE  Numbered' /\ LogGrew
<1> DEFINE e == [client |-> m.client, id |-> m.id, res |-> res]
<1>1. /\ m.client \in Clients /\ m.id \in Nat /\ m.id <= Made(m.client)
      /\ m.id = lmids[m.client] + 1
  BY DEF MadeOnly, Expected
<1>2. log' = Append(log, e) /\ lmids' = [lmids EXCEPT ![m.client] = @ + 1]
  BY DEF Commit
<1>3. /\ Len(log) \in Nat /\ lmids \in [Clients -> Nat]
      /\ Len(log') = Len(log) + 1 /\ log'[Len(log) + 1] = e
      /\ \A k \in 1..Len(log) : log'[k] = log[k]
  BY <1>2, AppendProperties, LogType DEF Flow, Logged
<1>4. ASSUME NEW p \in 0..Len(log), NEW c
      PROVE  Count(log', p, c) = Count(log, p, c)
  <2>1. p \in Nat /\ \A k \in 1..p : log'[k] = log[k]
    BY <1>3
  <2> QED
    BY <2>1, CountAgrees
<1>5. ASSUME NEW c
      PROVE  Count(log', Len(log) + 1, c) =
                IF m.client = c THEN Count(log, Len(log), c) + 1 ELSE Count(log, Len(log), c)
  <2>1. Count(log', Len(log), c) = Count(log, Len(log), c)
    BY <1>3, <1>4
  <2>2. log'[Len(log) + 1].client = m.client
    BY <1>3
  <2> QED
    BY <1>3, <2>1, <2>2, CountNext
<1>6. ASSUME NEW c \in Clients
      PROVE  /\ lmids[c] <= lmids'[c] /\ lmids'[c] = Count(log', Len(log'), c)
             /\ lmids'[c] <= Made(c)'
  <2>1. lmids[c] = Count(log, Len(log), c) /\ lmids[c] <= Made(c) /\ Made(c)' = Made(c)
    BY DEF Numbered, SameMade, Made
  <2>2. lmids'[c] = IF m.client = c THEN lmids[c] + 1 ELSE lmids[c]
    BY <1>2, <1>3
  <2> QED
    BY <1>1, <1>3, <1>5, <2>1, <2>2
<1>7. ASSUME NEW k \in 1..Len(log')
      PROVE  log'[k].id = Count(log', k, log'[k].client)
  <2>1. CASE k \in 1..Len(log)
    <3>1. k \in 0..Len(log) /\ log'[k] = log[k] /\ log[k].id = Count(log, k, log[k].client)
      BY <1>3, <2>1 DEF Numbered
    <3> QED
      BY <1>4, <3>1
  <2>2. CASE k = Len(log) + 1
    <3>1. log'[k].id = m.id /\ log'[k].client = m.client
      BY <1>3, <2>2
    <3>2. lmids[m.client] = Count(log, Len(log), m.client)
      BY <1>1 DEF Numbered
    <3>3. Count(log', Len(log) + 1, m.client) = Count(log, Len(log), m.client) + 1
      BY <1>5
    <3> QED
      BY <1>1, <2>2, <3>1, <3>2, <3>3
  <2> QED
    BY <1>3, <2>1, <2>2
<1>8. Numbered'
  BY <1>6, <1>7 DEF Numbered
<1>9. LogGrew
  BY <1>3, <1>4, <1>6 DEF LogGrew
<1> QED
  BY <1>8, <1>9

-----------------------------------------------------------------------------
(* One tab. *)

LEMMA SettleOf ==
    ASSUME NEW results \in Seq(Results), NEW ids, NEW as, NEW i \in 1..Len(results)
    PROVE  Settle(results, ids, as)[i] =
              IF results[i] = "pending" /\ i \in ids THEN as ELSE results[i]
<1>1. DOMAIN results = 1..Len(results)
  BY LenProperties
<1> QED
  BY <1>1 DEF Settle

\* Everything is settled when a tab stops.
LEMMA AllSettledOf ==
    ASSUME NEW results \in Seq(Results), NEW i \in 1..Len(results)
    PROVE  AllSettled(results)[i] = IF results[i] = "pending" THEN "zero" ELSE results[i]
<1>1. DOMAIN results = 1..Len(results)
  BY LenProperties
<1> QED
  BY <1>1, SettleOf DEF AllSettled

LEMMA TruthKeeps ==
    ASSUME Logged, LogGrew, Len(log') \in Nat, NEW c \in Clients, NEW i, NEW told, Truly(log, c, i, told)
    PROVE  Truly(log', c, i, told)
<1>1. ASSUME NEW results, CommittedAs(log, c, i, results)
      PROVE  CommittedAs(log', c, i, results)
  <2>1. PICK k \in 1..Len(log) : log[k].client = c /\ log[k].id = i /\ log[k].res \in results
    BY <1>1 DEF CommittedAs
  <2>2. k \in 1..Len(log') /\ log'[k] = log[k]
    BY <2>1, LogType DEF LogGrew
  <2> QED
    BY <2>1, <2>2 DEF CommittedAs
<1> QED
  BY <1>1 DEF Truly

\* Nothing that is settled was settled wrongly, when a tab gives up.
LEMMA TruthOfAll ==
    ASSUME NEW l, NEW c, NEW results \in Seq(Results),
           \A i \in 1..Len(results) : Truly(l, c, i, results[i])
    PROVE  \A i \in 1..Len(results) : /\ Truly(l, c, i, AllSettled(results)[i])
                                      /\ AllSettled(results)[i] # "pending"
<1>1. ASSUME NEW i \in 1..Len(results)
      PROVE  /\ Truly(l, c, i, AllSettled(results)[i])
             /\ AllSettled(results)[i] # "pending"
  <2>1. \/ AllSettled(results)[i] = results[i] /\ results[i] # "pending"
        \/ AllSettled(results)[i] = "zero"
    BY AllSettledOf
  <2>2. Truly(l, c, i, "zero")
    BY DEF Truly
  <2> QED
    BY <2>1, <2>2
<1> QED
  BY <1>1

\* A tab keeps its snapshot and its tracker, and may give up what is pending.
CalmTab(t, u, r, s, cn, dn) ==
    /\ u.received = t.received
    /\ u.tracked = t.tracked
    /\ u.snap = t.snap
    /\ u.state = "new" => t.state = "new"
    /\ s = r \/ s = AllSettled(r)
    /\ dn.base = cn.base
    /\ dn.ws = cn.ws
    /\ \/ dn.live = cn.live /\ u.buffer = t.buffer /\ (cn.live => u.state = t.state)
       \/ ~dn.live /\ u.buffer = 0

LEMMA TracksCalm ==
    ASSUME NEW l, NEW n, NEW c, NEW t, NEW u, NEW r \in Seq(Results), NEW s, NEW cn, NEW dn,
           Tracks(l, n, c, t, r), CalmTab(t, u, r, s, cn, dn)
    PROVE  Tracks(l, n, c, u, s)
<1>1. u.received = t.received /\ u.tracked = t.tracked /\ u.snap = t.snap
      /\ (u.state = "new" => t.state = "new")
  BY DEF CalmTab
<1>2. CASE s = r
  BY <1>1, <1>2 DEF Tracks
<1>3. CASE s = AllSettled(r)
  <2>1. Len(s) = Len(r) /\ s \in Seq(Results)
    BY <1>3, AllSettledKeeps
  <2>2. \A i \in 1..Len(r) : Truly(l, c, i, s[i]) /\ s[i] # "pending"
    BY <1>3, TruthOfAll DEF Tracks
  <2>3. t.state = "new" => s = << >>
    BY <2>1, EmptySeq DEF Tracks
  <2> QED
    BY <1>1, <2>1, <2>2, <2>3 DEF Tracks
<1> QED
  BY <1>2, <1>3 DEF CalmTab

LEMMA TracksGrows ==
    ASSUME Logged, LogGrew, Len(log') \in Nat, NEW c \in Clients, NEW t \in Tab, NEW r,
           t.received \in Nat, t.tracked \in Nat, t.snap \in 0..Len(log),
           lmids[c] \in Nat, lmids'[c] \in Nat,
           Tracks(log, lmids[c], c, t, r)
    PROVE  Tracks(log', lmids'[c], c, t, r)
<1>1. lmids[c] <= lmids'[c] /\ Count(log', t.snap, c) = Count(log, t.snap, c)
  BY DEF LogGrew
<1>2. \A i \in 1..Len(r) : Truly(log', c, i, r[i])
  BY TruthKeeps DEF Tracks
<1> QED
  BY <1>1, <1>2 DEF Tracks

-----------------------------------------------------------------------------
(* Steps that leave the tabs calm. *)

Calms ==
    /\ replica' = replica
    /\ cvr' = cvr
    /\ poke' \in {poke, NoPoke}
    /\ perdag' = perdag
    /\ \A c \in Clients : CalmTab(tab[c], tab'[c], outcome[c], outcome'[c], conn[c], conn'[c])

LEMMA CalmPositions ==
    ASSUME Flow, Flow', Positions, Calms, LogGrew
    PROVE  Positions'
<1>1. Len(log) \in Nat /\ Len(log') \in Nat /\ Len(log) <= Len(log')
  BY LogType DEF Flow, Logged, LogGrew
<1>2. 0..Len(log) \subseteq 0..Len(log') /\ 0 \in 0..Len(log')
  BY <1>1
<1>3. {replica, cvr, poke.to, perdag.snap}' \subseteq 0..Len(log')
  BY <1>2 DEF Positions, Calms, NoPoke
<1>4. ASSUME NEW c \in Clients
      PROVE  {tab[c].snap, tab[c].buffer, conn[c].base}' \subseteq 0..Len(log')
  <2>1. tab'[c].snap = tab[c].snap /\ tab'[c].buffer \in {tab[c].buffer, 0} /\ conn'[c].base = conn[c].base
    BY DEF Calms, CalmTab
  <2> QED
    BY <1>2, <2>1 DEF Positions
<1> QED
  BY <1>3, <1>4 DEF Positions

LEMMA CalmConfirms ==
    ASSUME Confirmed, Flow', Calms, Numbered', LogGrew
    PROVE  Confirmed'
<1>1. Positions'
  BY CalmPositions DEF Confirmed
<1>2. /\ Logged /\ Len(log') \in Nat
      /\ \A c \in Clients : lmids[c] \in Nat /\ lmids'[c] \in Nat
  BY LogType DEF Confirmed, Flow, Logged
<1>3. ASSUME NEW c \in Clients
      PROVE  Tracks(log', lmids'[c], c, tab'[c], outcome'[c])
  <2>1. /\ tab[c] \in Tab /\ outcome[c] \in Seq(Results)
        /\ tab[c].received \in Nat /\ tab[c].tracked \in Nat
        /\ tab[c].snap \in 0..Len(log) /\ Tracks(log, lmids[c], c, tab[c], outcome[c])
    BY DEF Confirmed, Positions, Flow, Kept, Tab
  <2>2. Tracks(log', lmids'[c], c, tab[c], outcome[c])
    BY <1>2, <2>1, TracksGrows
  <2>3. CalmTab(tab[c], tab'[c], outcome[c], outcome'[c], conn[c], conn'[c])
    BY DEF Calms
  <2> QED
    BY <2>1, <2>2, <2>3, TracksCalm
<1>4. \A c \in Clients : conn'[c].live => tab'[c].state = "open"
  BY DEF Confirmed, Calms, CalmTab
<1> QED
  BY <1>1, <1>3, <1>4 DEF Confirmed

Others == \A c \in Clients : CalmTab(tab[c], tab'[c], outcome[c], outcome'[c], conn[c], conn'[c])

Gone(cn) == [Cut(cn) EXCEPT !.pusher = None]
GivenUp(cn) == [cn EXCEPT !.pusher = None]
Resumed(t) == [t EXCEPT !.state = "open"]
Pushed(t, f) == [t EXCEPT !.sent = f]

\* The ways in which a tab stays calm.
LEMMA CalmWays ==
    ASSUME NEW t \in Tab, NEW r, NEW cn \in Connection
    PROVE  /\ CalmTab(t, t, r, r, cn, cn)
           /\ CalmTab(t, Disconnected(t), r, r, cn, Cut(cn))
           /\ CalmTab(t, Paused(t), r, AllSettled(r), cn, Cut(cn))
           /\ CalmTab(t, Paused(t), r, AllSettled(r), cn, Gone(cn))
           /\ CalmTab(t, t, r, r, cn, GivenUp(cn))
           /\ cn.live => CalmTab(t, Disconnected(t), r, r, cn, Gone(cn))
           /\ ~cn.live => CalmTab(t, t, r, r, cn, Gone(cn))
           /\ ~cn.live => CalmTab(t, Resumed(t), r, r, cn, cn)
           /\ \A f : CalmTab(t, Pushed(t, f), r, r, cn, cn)
<1>1. cn.live \in BOOLEAN
  BY DEF Connection
<1>2. /\ Disconnected(t).received = t.received /\ Disconnected(t).tracked = t.tracked
      /\ Disconnected(t).snap = t.snap /\ Disconnected(t).state = t.state
      /\ Disconnected(t).buffer = 0
  BY DEF Disconnected, Tab
<1>3. /\ Paused(t).received = t.received /\ Paused(t).tracked = t.tracked
      /\ Paused(t).snap = t.snap /\ Paused(t).state = "paused" /\ Paused(t).buffer = 0
  BY DEF Disconnected, Paused, Tab
<1>4. /\ Cut(cn).base = cn.base /\ Cut(cn).ws = cn.ws /\ Cut(cn).live = FALSE
      /\ Gone(cn).base = cn.base /\ Gone(cn).ws = cn.ws /\ Gone(cn).live = FALSE
      /\ GivenUp(cn).base = cn.base /\ GivenUp(cn).ws = cn.ws /\ GivenUp(cn).live = cn.live
  BY DEF Gone, GivenUp, Cut, Connection
<1>5. /\ Resumed(t).received = t.received /\ Resumed(t).tracked = t.tracked
      /\ Resumed(t).snap = t.snap /\ Resumed(t).state = "open" /\ Resumed(t).buffer = t.buffer
  BY DEF Resumed, Tab
<1>6. \A f : /\ Pushed(t, f).received = t.received /\ Pushed(t, f).tracked = t.tracked
             /\ Pushed(t, f).snap = t.snap /\ Pushed(t, f).state = t.state
             /\ Pushed(t, f).buffer = t.buffer
  BY DEF Pushed, Tab
<1> QED
  BY <1>1, <1>2, <1>3, <1>4, <1>5, <1>6 DEF CalmTab

LEMMA OthersSame ==
    ASSUME Flow, tab' = tab, outcome' = outcome, conn' = conn
    PROVE  Others
BY CalmWays DEF Others, Flow, Kept

LEMMA OthersFanOut ==
    ASSUME Flow, NEW p, NEW muts, FanOut(p, muts)
    PROVE  Others
<1> DEFINE told == Failing(p, muts)
<1>1. ASSUME NEW c \in Clients
      PROVE  CalmTab(tab[c], tab'[c], outcome[c], outcome'[c], conn[c], conn'[c])
  <2>1. tab[c] \in Tab /\ conn[c] \in Connection
    BY DEF Flow, Kept
  <2>2. CASE c \in told
    <3>1. /\ tab'[c] = Paused(tab[c]) /\ outcome'[c] = AllSettled(outcome[c])
          /\ conn'[c] = Gone(conn[c])
      BY <2>2 DEF FanOut, Gone
    <3> QED
      BY <2>1, <3>1, CalmWays
  <2>3. CASE c \notin told
    <3>1. tab'[c] = tab[c] /\ outcome'[c] = outcome[c] /\ conn'[c] = conn[c]
      BY <2>3 DEF FanOut
    <3> QED
      BY <2>1, <3>1, CalmWays
  <2> QED
    BY <2>2, <2>3
<1> QED
  BY <1>1 DEF Others

LEMMA OthersPushFails ==
    ASSUME Flow, NEW h \in Handlers, PushFails(h)
    PROVE  Others
BY OthersSame, OthersFanOut DEF PushFails

LEMMA OthersRequestFails ==
    ASSUME Flow, NEW p \in Pushers, RequestFails(p)
    PROVE  Others
<1>1. \/ tab' = tab /\ outcome' = outcome /\ conn' = conn
      \/ FanOut(p, request[p].muts)
  BY DEF RequestFails
<1> QED
  BY <1>1, OthersSame, OthersFanOut

\* One tab is concerned.
LEMMA OthersOne ==
    ASSUME Flow, NEW c \in Clients, NEW u, NEW s, NEW dn,
           tab' = [tab EXCEPT ![c] = u], outcome' = [outcome EXCEPT ![c] = s],
           conn' = [conn EXCEPT ![c] = dn],
           CalmTab(tab[c], u, outcome[c], s, conn[c], dn)
    PROVE  Others
<1>1. ASSUME NEW d \in Clients
      PROVE  CalmTab(tab[d], tab'[d], outcome[d], outcome'[d], conn[d], conn'[d])
  <2>1. tab[d] \in Tab /\ conn[d] \in Connection
    BY DEF Flow, Kept
  <2>2. tab \in [Clients -> Tab] /\ conn \in [Clients -> Connection]
        /\ outcome \in [Clients -> Seq(Results)]
    BY DEF Flow, Kept
  <2>3. CASE d = c
    BY <2>2, <2>3
  <2>4. CASE d # c
    <3>1. tab'[d] = tab[d] /\ outcome'[d] = outcome[d] /\ conn'[d] = conn[d]
      BY <2>2, <2>4
    <3> QED
      BY <2>1, <3>1, CalmWays
  <2> QED
    BY <2>3, <2>4
<1> QED
  BY <1>1 DEF Others

LEMMA OthersTab ==
    ASSUME Flow, NEW c \in Clients, Drop(c) \/ Resume(c) \/ HangUp(c) \/ Push(c),
           Resume(c) => ~conn[c].live
    PROVE  Others
<1>1. tab[c] \in Tab /\ conn[c] \in Connection
      /\ tab = [tab EXCEPT ![c] = tab[c]] /\ conn = [conn EXCEPT ![c] = conn[c]]
      /\ outcome = [outcome EXCEPT ![c] = outcome[c]]
  BY DEF Flow, Kept
<1>2. CASE Drop(c)
  <2>1. /\ conn' = [conn EXCEPT ![c] = Cut(conn[c])]
        /\ \/ tab' = [tab EXCEPT ![c] = Disconnected(tab[c])] /\ outcome' = outcome
           \/ /\ tab' = [tab EXCEPT ![c] = Paused(tab[c])]
              /\ outcome' = [outcome EXCEPT ![c] = AllSettled(outcome[c])]
    BY <1>2 DEF Drop
  <2>2. /\ CalmTab(tab[c], Disconnected(tab[c]), outcome[c], outcome[c], conn[c], Cut(conn[c]))
        /\ CalmTab(tab[c], Paused(tab[c]), outcome[c], AllSettled(outcome[c]), conn[c], Cut(conn[c]))
    BY <1>1, CalmWays
  <2>3. CASE tab' = [tab EXCEPT ![c] = Disconnected(tab[c])] /\ outcome' = outcome
    <3>1. outcome' = [outcome EXCEPT ![c] = outcome[c]]
      BY <1>1, <2>3
    <3> QED
      BY <2>1, <2>2, <2>3, <3>1, OthersOne
  <2>4. CASE /\ tab' = [tab EXCEPT ![c] = Paused(tab[c])]
             /\ outcome' = [outcome EXCEPT ![c] = AllSettled(outcome[c])]
    BY <2>1, <2>2, <2>4, OthersOne
  <2> QED
    BY <2>1, <2>3, <2>4
<1>3. CASE Resume(c)
  <2>1. tab' = [tab EXCEPT ![c] = Resumed(tab[c])] /\ outcome' = outcome /\ conn' = conn
    BY <1>3 DEF Resume, Resumed
  <2>2. CalmTab(tab[c], Resumed(tab[c]), outcome[c], outcome[c], conn[c], conn[c])
    BY <1>1, <1>3, CalmWays
  <2> QED
    BY <1>1, <2>1, <2>2, OthersOne
<1>4. CASE HangUp(c)
  <2>1. conn' = [conn EXCEPT ![c] = GivenUp(conn[c])] /\ tab' = tab /\ outcome' = outcome
    BY <1>4 DEF HangUp, GivenUp, tabs
  <2> QED
    BY <1>1, <2>1, CalmWays, OthersOne
<1>5. CASE Push(c)
  <2>1. PICK d \in Clients : tab' = [tab EXCEPT ![c].sent[d] = Sent(c, d) + 1]
    BY <1>5 DEF Push
  <2>2. outcome' = outcome /\ conn' = conn
    BY <1>5 DEF Push
  <2>3. PICK f : f = [tab[c].sent EXCEPT ![d] = Sent(c, d) + 1]
    OBVIOUS
  <2>4. tab' = [tab EXCEPT ![c] = Pushed(tab[c], f)]
    BY <2>1, <2>3 DEF Pushed
  <2>5. CalmTab(tab[c], Pushed(tab[c], f), outcome[c], outcome[c], conn[c], conn[c])
    BY <1>1, CalmWays
  <2> QED
    BY <1>1, <2>2, <2>4, <2>5, OthersOne
<1> QED
  BY <1>2, <1>3, <1>4, <1>5

LEMMA OthersViews ==
    ASSUME Flow, PokeFails \/ Crash
    PROVE  Others
<1>1. \A c \in Clients : tab[c] \in Tab /\ conn[c] \in Connection
  BY DEF Flow, Kept
<1>2. ASSUME PokeFails, NEW c \in Clients
      PROVE  CalmTab(tab[c], tab'[c], outcome[c], outcome'[c], conn[c], conn'[c])
  <2>1. /\ outcome'[c] = outcome[c]
        /\ \/ tab'[c] = Disconnected(tab[c]) /\ conn'[c] = Cut(conn[c])
           \/ tab'[c] = tab[c] /\ conn'[c] = conn[c]
    BY <1>2 DEF PokeFails
  <2> QED
    BY <1>1, <2>1, CalmWays
<1>3. ASSUME Crash, NEW c \in Clients
      PROVE  CalmTab(tab[c], tab'[c], outcome[c], outcome'[c], conn[c], conn'[c])
  <2>1. /\ outcome'[c] = outcome[c]
        /\ tab'[c] = IF conn[c].live THEN Disconnected(tab[c]) ELSE tab[c]
        /\ conn'[c] = Gone(conn[c])
    BY <1>3 DEF Crash, Gone
  <2> QED
    BY <1>1, <2>1, CalmWays
<1> QED
  BY <1>2, <1>3 DEF Others

\* Every step but those of a few actions leaves all tabs calm, and commits
\* nothing or the next mutation of a client.
Committing == \E m \in MadeOnly : \E res : m.id = Expected(m) /\ Commit(m, res)

Moves ==
    \/ \E c \in Clients :
          Open(c) \/ MakeMutation(c) \/ Persist(c) \/ Close(c) \/ Connect(c) \/ Playback(c)
    \/ \E v \in 1..Len(log) : StartPoke(v)
    \/ EndPoke

LEMMA CalmTabs ==
    ASSUME Confirmed, NEW c \in Clients, Drop(c) \/ Resume(c) \/ HangUp(c) \/ Push(c)
    PROVE  Calms /\ UNCHANGED db
<1>1. Resume(c) => ~conn[c].live
  BY DEF Confirmed, Resume
<1>2. Others
  BY <1>1, OthersTab DEF Confirmed
<1>3. UNCHANGED <<db, views, perdag>>
  BY DEF Drop, Resume, HangUp, Push, tabs
<1> QED
  BY <1>2, <1>3 DEF Calms, Others, views

LEMMA CalmPushers ==
    ASSUME Confirmed, NEW p \in Pushers, RequestFails(p) \/ Ends(p)
    PROVE  Calms /\ UNCHANGED db
<1>1. Others
  <2>1. CASE RequestFails(p)
    BY <2>1, OthersRequestFails DEF Confirmed
  <2>2. CASE Ends(p)
    <3>1. tab' = tab /\ outcome' = outcome /\ conn' = conn
      BY <2>2 DEF Ends, tabs
    <3> QED
      BY <3>1, OthersSame DEF Confirmed
  <2> QED
    BY <2>1, <2>2
<1>2. UNCHANGED <<db, views, perdag>>
  BY DEF RequestFails, Ends, tabs
<1> QED
  BY <1>1, <1>2 DEF Calms, Others, views

LEMMA CalmHandlers ==
    ASSUME Confirmed, NEW h \in Handlers, Serve(h) \/ DatabaseFails(h) \/ RejectedAgain(h)
    PROVE  Calms /\ (UNCHANGED db \/ Committing)
<1>1. Elsewhere /\ (PushFails(h) \/ UNCHANGED <<tab, outcome, conn>>)
  BY DEF Serve, AlreadyProcessed, Execute, MutatorFails, OutOfOrder, DatabaseFails, RejectedAgain
<1>2. Others
  <2>1. CASE PushFails(h)
    BY <2>1, OthersPushFails DEF Confirmed
  <2>2. CASE UNCHANGED <<tab, outcome, conn>>
    BY <2>2, OthersSame DEF Confirmed
  <2> QED
    BY <1>1, <2>1, <2>2
<1>3. Calms
  BY <1>1, <1>2 DEF Elsewhere, Calms, Others, views
<1>4. \/ UNCHANGED db
      \/ \E res : InTurn(h) /\ Commit(Current(h), res)
  BY DEF Serve, AlreadyProcessed, Execute, MutatorFails, OutOfOrder, DatabaseFails, RejectedAgain
<1>5. ASSUME NEW res, InTurn(h), Commit(Current(h), res)
      PROVE  Committing
  <2>1. Working(h) /\ Current(h).id = Expected(Current(h))
    BY <1>5 DEF InTurn
  <2>2. Current(h) \in MadeOnly
    BY <2>1, CurrentType DEF Confirmed, Flow, UnderWay, UnderWayIn
  <2> QED
    BY <1>5, <2>1, <2>2 DEF Committing
<1> QED
  BY <1>3, <1>4, <1>5

LEMMA CalmViews ==
    ASSUME Confirmed, PokeFails \/ Crash
    PROVE  Calms /\ UNCHANGED db
<1>1. Others
  BY OthersViews DEF Confirmed
<1>2. UNCHANGED <<db, replica, cvr, perdag>> /\ poke' = NoPoke
  BY DEF PokeFails, Crash
<1> QED
  BY <1>1, <1>2 DEF Calms, Others

LEMMA CalmCases ==
    ASSUME Confirmed, [Next]_vars
    PROVE  \/ Calms /\ (UNCHANGED db \/ Committing)
           \/ Moves
<1>1. ASSUME NEW c \in Clients,
             \/ Open(c) \/ MakeMutation(c) \/ Persist(c) \/ Close(c) \/ Drop(c) \/ Resume(c)
             \/ Connect(c) \/ HangUp(c) \/ Push(c) \/ Playback(c)
      PROVE  (Calms /\ UNCHANGED db) \/ Moves
  <2>1. CASE Drop(c) \/ Resume(c) \/ HangUp(c) \/ Push(c)
    BY <2>1, CalmTabs, Zenon
  <2>2. CASE Open(c) \/ MakeMutation(c) \/ Persist(c) \/ Close(c) \/ Connect(c) \/ Playback(c)
    BY <2>2, Zenon DEF Moves
  <2> QED
    BY <1>1, <2>1, <2>2, Zenon
<1>2. ASSUME NEW p \in Pushers, RequestFails(p) \/ Ends(p)
      PROVE  Calms /\ UNCHANGED db
  BY <1>2, CalmPushers, Zenon
<1>3. ASSUME NEW h \in Handlers, Serve(h) \/ DatabaseFails(h) \/ RejectedAgain(h)
      PROVE  Calms /\ (UNCHANGED db \/ Committing)
  BY <1>3, CalmHandlers, Zenon
<1>4. CASE (\E v \in 1..Len(log) : StartPoke(v)) \/ EndPoke
  BY <1>4, Zenon DEF Moves
<1>5. CASE PokeFails \/ Crash
  BY <1>5, CalmViews, Zenon
<1>6. CASE UNCHANGED vars
  <2>1. UNCHANGED <<db, views, tabs, conn>>
    BY <1>6 DEF vars
  <2>2. Others
    BY <2>1, OthersSame DEF Confirmed, tabs
  <2> QED
    BY <2>1, <2>2 DEF Calms, Others, views, tabs
<1> QED
  BY <1>1, <1>2, <1>3, <1>4, <1>5, <1>6, Zenon DEF Next

\* Tabs that are calm have made what they made.
LEMMA CalmMade ==
    ASSUME Flow, Flow', Calms
    PROVE  SameMade
<1>1. outcome' \in [Clients -> Seq(Results)]
  BY DEF Flow, Kept
<1>2. ASSUME NEW c \in Clients
      PROVE  Len(outcome'[c]) = Len(outcome[c])
  <2>1. outcome[c] \in Seq(Results)
    BY DEF Flow, Kept
  <2>2. outcome'[c] = outcome[c] \/ outcome'[c] = AllSettled(outcome[c])
    BY DEF Calms, CalmTab
  <2> QED
    BY <2>1, <2>2, AllSettledKeeps
<1> QED
  BY <1>1, <1>2 DEF SameMade

LEMMA MadeType ==
    ASSUME Flow
    PROVE  \A c \in Clients : Made(c) \in Nat
<1>1. \A c \in Clients : outcome[c] \in Seq(Results)
  BY DEF Flow, Kept
<1> QED
  BY <1>1, LenProperties DEF Made

LEMMA CalmNumbered ==
    ASSUME Confirmed, Flow', Calms, UNCHANGED db \/ Committing
    PROVE  Numbered' /\ LogGrew
<1>1. SameMade
  BY CalmMade DEF Confirmed
<1>2. CASE UNCHANGED db
  <2>1. \A c \in Clients : Made(c)' \in Nat /\ Made(c) <= Made(c)'
    BY <1>1, MadeType DEF Confirmed, SameMade, Made
  <2> QED
    BY <1>2, <2>1, LogSame, NumberedSame DEF Confirmed, Flow
<1>3. CASE Committing
  BY <1>1, <1>3, CommitNumbers DEF Committing, Confirmed
<1> QED
  BY <1>2, <1>3

LEMMA CalmStep ==
    ASSUME Confirmed, Flow', Calms, UNCHANGED db \/ Committing
    PROVE  Confirmed'
BY CalmNumbered, CalmConfirms

-----------------------------------------------------------------------------
(* The other steps: what tabs are told. *)

LEMMA Bounds ==
    ASSUME Confirmed, NEW c \in Clients
    PROVE  /\ tab[c] \in Tab /\ conn[c] \in Connection /\ outcome[c] \in Seq(Results)
           /\ Made(c) \in Nat /\ lmids[c] \in Nat /\ lmids[c] <= Made(c)
           /\ Len(log) \in Nat
           /\ tab[c].snap \in 0..Len(log) /\ tab[c].buffer \in 0..Len(log)
           /\ tab[c].received \in Nat /\ tab[c].tracked \in Nat
           /\ tab[c].received <= lmids[c] /\ tab[c].tracked <= lmids[c]
           /\ Count(log, tab[c].snap, c) <= tab[c].tracked
BY MadeType, LogType DEF Confirmed, Flow, Kept, Tab, Numbered, Positions, Tracks

\* No position counts more than the clients table.
LEMMA CountBound ==
    ASSUME Confirmed, NEW c \in Clients, NEW p \in 0..Len(log)
    PROVE  Count(log, p, c) \in Nat /\ Count(log, p, c) <= lmids[c]
<1>1. Len(log) \in Nat /\ p \in Nat /\ p <= Len(log)
  BY LogType DEF Confirmed, Flow
<1>2. Count(log, p, c) <= Count(log, Len(log), c)
  BY <1>1, CountGrows
<1> QED
  BY <1>1, <1>2, CountType DEF Confirmed, Numbered

LEMMA QuietConfirms ==
    ASSUME Confirmed, Flow', UNCHANGED db, Positions',
           \A c \in Clients : Made(c) <= Made(c)',
           \A c \in Clients : Tracks(log, lmids[c], c, tab'[c], outcome'[c]),
           \A c \in Clients : conn'[c].live => tab'[c].state = "open"
    PROVE  Confirmed'
<1>1. log' = log /\ lmids' = lmids
  BY DEF db
<1>2. \A c \in Clients : Made(c)' \in Nat
  <2>1. \A c \in Clients : outcome'[c] \in Seq(Results)
    BY DEF Flow, Kept
  <2> QED
    BY <2>1, LenProperties DEF Made
<1>3. Numbered'
  BY <1>2, NumberedSame DEF Confirmed
<1> QED
  BY <1>1, <1>3 DEF Confirmed

LEMMA OpenConfirms ==
    ASSUME Confirmed, Flow', NEW c \in Clients, Open(c)
    PROVE  Confirmed'
<1> DEFINE t == [Blank EXCEPT !.state = "open", !.snap = perdag.snap, !.loaded = perdag.made]
<1>1. /\ tab[c].state = "new" /\ tab' = [tab EXCEPT ![c] = t]
      /\ UNCHANGED db /\ UNCHANGED views /\ perdag' = perdag /\ outcome' = outcome /\ conn' = conn
  BY DEF Open
<1>2. /\ t.state = "open" /\ t.snap = perdag.snap /\ t.received = 0 /\ t.tracked = 0 /\ t.buffer = 0
  BY DEF Blank
<1> HIDE DEF t
<1>3. perdag.snap \in 0..Len(log) /\ Len(log) \in Nat /\ tab \in [Clients -> Tab] /\ log' = log
  BY <1>1, LogType DEF Confirmed, Positions, Flow, Kept, db
<1>4. outcome[c] = << >> /\ Made(c) = 0
  <2>1. outcome[c] = << >>
    BY <1>1 DEF Confirmed, Tracks
  <2> QED
    BY <2>1, EmptySeq DEF Made
<1>5. Tracks(log, lmids[c], c, t, outcome[c])
  <2>1. Count(log, perdag.snap, c) <= lmids[c] /\ Count(log, perdag.snap, c) \in Nat
        /\ lmids[c] \in Nat /\ lmids[c] <= 0
    BY <1>3, <1>4, CountBound, Bounds
  <2>2. Len(outcome[c]) = 0
    BY <1>4, EmptySeq
  <2> QED
    BY <1>2, <2>1, <2>2 DEF Tracks
<1>6. \A d \in Clients : Tracks(log, lmids[d], d, tab'[d], outcome'[d])
  BY <1>1, <1>3, <1>5 DEF Confirmed
<1>7. \A d \in Clients : conn'[d].live => tab'[d].state = "open"
  BY <1>1, <1>2, <1>3 DEF Confirmed
<1>8. Positions'
  <2>1. \A d \in Clients : {tab'[d].snap, tab'[d].buffer, conn'[d].base} \subseteq 0..Len(log)
    BY <1>1, <1>2, <1>3 DEF Confirmed, Positions
  <2> QED
    BY <1>1, <1>3, <2>1 DEF Confirmed, Positions, views
<1>9. \A d \in Clients : Made(d) <= Made(d)'
  BY <1>1, MadeType DEF Made, Confirmed
<1> QED
  BY <1>1, <1>6, <1>7, <1>8, <1>9, QuietConfirms

LEMMA MakeMutationConfirms ==
    ASSUME Confirmed, Flow', NEW c \in Clients, MakeMutation(c)
    PROVE  Confirmed'
<1>1. /\ tab[c].state = "open" /\ outcome' = [outcome EXCEPT ![c] = Append(outcome[c], "pending")]
      /\ UNCHANGED db /\ UNCHANGED views /\ perdag' = perdag /\ tab' = tab /\ conn' = conn
  BY DEF MakeMutation
<1>2. outcome \in [Clients -> Seq(Results)] /\ "pending" \in Results
  BY DEF Confirmed, Flow, Kept, Results
<1>3. /\ outcome'[c] = Append(outcome[c], "pending")
      /\ Len(outcome'[c]) = Len(outcome[c]) + 1
      /\ \A i \in 1..Len(outcome[c]) : outcome'[c][i] = outcome[c][i]
      /\ outcome'[c][Len(outcome[c]) + 1] = "pending"
      /\ \A d \in Clients : d # c => outcome'[d] = outcome[d]
  BY <1>1, <1>2, AppendProperties
<1>4. Tracks(log, lmids[c], c, tab[c], outcome'[c])
  <2>1. /\ tab[c].tracked \in Nat /\ tab[c].tracked <= Len(outcome[c]) /\ Len(outcome[c]) \in Nat
    BY Bounds DEF Made
  <2>2. Tracks(log, lmids[c], c, tab[c], outcome[c])
    BY DEF Confirmed
  <2>3. \A i \in 1..Len(outcome'[c]) : i <= tab[c].tracked => outcome'[c][i] # "pending"
    <3>1. SUFFICES ASSUME NEW i \in 1..(Len(outcome[c]) + 1), i <= tab[c].tracked
                   PROVE  outcome'[c][i] # "pending"
      BY <1>3
    <3>2. i \in 1..Len(outcome[c])
      BY <2>1, <3>1
    <3> QED
      BY <1>3, <2>2, <3>1, <3>2 DEF Tracks
  <2>4. \A i \in 1..Len(outcome'[c]) : Truly(log, c, i, outcome'[c][i])
    <3>1. SUFFICES ASSUME NEW i \in 1..(Len(outcome[c]) + 1)
                   PROVE  Truly(log, c, i, outcome'[c][i])
      BY <1>3
    <3>2. CASE i \in 1..Len(outcome[c])
      BY <1>3, <2>2, <3>2 DEF Tracks
    <3>3. CASE i = Len(outcome[c]) + 1
      BY <1>3, <3>3 DEF Truly
    <3> QED
      BY <2>1, <3>2, <3>3
  <2> QED
    BY <1>1, <2>2, <2>3, <2>4 DEF Tracks
<1>5. \A d \in Clients : Tracks(log, lmids[d], d, tab'[d], outcome'[d])
  BY <1>1, <1>3, <1>4 DEF Confirmed
<1>6. Positions'
  BY <1>1 DEF Confirmed, Positions, db, views
<1>7. \A d \in Clients : Made(d) <= Made(d)'
  <2>1. \A d \in Clients : Len(outcome[d]) \in Nat
    BY <1>2, LenProperties
  <2> QED
    BY <1>3, <2>1 DEF Made
<1> QED
  BY <1>1, <1>5, <1>6, <1>7, QuietConfirms DEF Confirmed

LEMMA PersistConfirms ==
    ASSUME Confirmed, Flow', NEW c \in Clients, Persist(c)
    PROVE  Confirmed'
<1>1. /\ perdag'.snap = Larger(perdag.snap, tab[c].snap)
      /\ UNCHANGED db /\ UNCHANGED views /\ tab' = tab /\ outcome' = outcome /\ conn' = conn
  BY DEF Persist
<1>2. perdag'.snap \in 0..Len(log)
  BY <1>1 DEF Confirmed, Positions, Larger
<1>3. Positions'
  BY <1>1, <1>2 DEF Confirmed, Positions, db, views
<1>4. \A d \in Clients : Made(d) <= Made(d)'
  BY <1>1, MadeType DEF Made, Confirmed
<1> QED
  BY <1>1, <1>3, <1>4, QuietConfirms DEF Confirmed

LEMMA CloseConfirms ==
    ASSUME Confirmed, Flow', NEW c \in Clients, Close(c)
    PROVE  Confirmed'
<1> DEFINE t == [Blank EXCEPT !.state = "closed"]
<1>1. /\ tab' = [tab EXCEPT ![c] = t]
      /\ outcome' = [outcome EXCEPT ![c] = AllSettled(outcome[c])]
      /\ conn' = [conn EXCEPT ![c] = Cut(conn[c])]
      /\ UNCHANGED db /\ UNCHANGED views /\ perdag' = perdag
  BY DEF Close
<1>2. t.state = "closed" /\ t.snap = 0 /\ t.received = 0 /\ t.tracked = 0 /\ t.buffer = 0
  BY DEF Blank
<1> HIDE DEF t
<1>3. /\ tab \in [Clients -> Tab] /\ outcome \in [Clients -> Seq(Results)]
      /\ conn \in [Clients -> Connection]
  BY DEF Confirmed, Flow, Kept
<1>4. Cut(conn[c]).live = FALSE /\ Cut(conn[c]).base = conn[c].base
  BY <1>3 DEF Cut, Connection
<1>5. Len(AllSettled(outcome[c])) = Len(outcome[c])
  BY <1>3, AllSettledKeeps
<1>6. Tracks(log, lmids[c], c, t, AllSettled(outcome[c]))
  <2>1. \A i \in 1..Len(outcome[c]) : /\ Truly(log, c, i, AllSettled(outcome[c])[i])
                                       /\ AllSettled(outcome[c])[i] # "pending"
    <3>1. \A i \in 1..Len(outcome[c]) : Truly(log, c, i, outcome[c][i])
      BY DEF Confirmed, Tracks
    <3> QED
      BY <1>3, <3>1, TruthOfAll
  <2>2. lmids[c] \in Nat /\ Count(log, 0, c) = 0
    BY Bounds, CountZero
  <2> QED
    BY <1>2, <1>5, <2>1, <2>2 DEF Tracks
<1>7. \A d \in Clients : Tracks(log, lmids[d], d, tab'[d], outcome'[d])
  BY <1>1, <1>3, <1>6 DEF Confirmed
<1>8. \A d \in Clients : conn'[d].live => tab'[d].state = "open"
  BY <1>1, <1>3, <1>4 DEF Confirmed
<1>9. Positions'
  <2>1. Len(log) \in Nat /\ log' = log
    BY <1>1, LogType DEF Confirmed, Flow, db
  <2>2. \A d \in Clients : {tab'[d].snap, tab'[d].buffer, conn'[d].base} \subseteq 0..Len(log)
    BY <1>1, <1>2, <1>3, <1>4, <2>1 DEF Confirmed, Positions
  <2> QED
    BY <1>1, <2>1, <2>2 DEF Confirmed, Positions, views
<1>10. \A d \in Clients : Made(d) <= Made(d)'
  <2>1. \A d \in Clients : Len(outcome'[d]) = Len(outcome[d])
    BY <1>1, <1>3, <1>5
  <2> QED
    BY <2>1, MadeType DEF Made, Confirmed
<1> QED
  BY <1>1, <1>7, <1>8, <1>9, <1>10, QuietConfirms

\* A tab settles what it was told of, up to a last mutation ID.
LEMMA TracksTold ==
    ASSUME Confirmed, NEW c \in Clients, NEW t, NEW u, NEW r \in Seq(Results),
           Tracks(log, lmids[c], c, t, r), NEW n \in Nat, n <= lmids[c], NEW as \in Results,
           \A i \in 1..Len(r) : r[i] = "pending" /\ i <= n => Truly(log, c, i, as),
           u.received \in Nat, u.received <= lmids[c], u.tracked = n, Count(log, u.snap, c) <= n,
           u.state # "new", as # "pending"
    PROVE  Tracks(log, lmids[c], c, u, UpTo(r, n, as))
<1> DEFINE s == UpTo(r, n, as)
<1>1. Len(s) = Len(r) /\ Len(r) \in Nat
  BY SettleKeeps, LenProperties DEF UpTo
<1>2. ASSUME NEW i \in 1..Len(r)
      PROVE  s[i] = IF r[i] = "pending" /\ i <= n THEN as ELSE r[i]
  <2>1. DOMAIN r = 1..Len(r)
    BY LenProperties
  <2>2. i \in 1..n <=> i <= n
    BY <1>1
  <2> QED
    BY <2>1, <2>2 DEF UpTo, Settle
<1> HIDE DEF s
<1>3. \A i \in 1..Len(r) : Truly(log, c, i, s[i])
  BY <1>2 DEF Tracks
<1>4. \A i \in 1..Len(r) : i <= n => s[i] # "pending"
  BY <1>2
<1>5. Tracks(log, lmids[c], c, u, s)
  BY <1>1, <1>3, <1>4 DEF Tracks
<1> QED
  BY <1>5 DEF s

\* What the clients table counts was committed.
LEMMA CommittedUpTo ==
    ASSUME Confirmed, NEW c \in Clients, NEW i \in 1..lmids[c]
    PROVE  CommittedAs(log, c, i, {"applied", "failed"})
<1>1. PICK k \in 1..Len(log) : log[k].client = c /\ log[k].id = i
  BY LogType DEF Confirmed, Flow, Logged, Promise!Committed
<1>2. log[k].res \in {"applied", "failed"}
  BY LogType DEF Confirmed, Flow, Entry
<1> QED
  BY <1>1, <1>2 DEF CommittedAs

\* A tab that stops.
LEMMA TracksPaused ==
    ASSUME NEW l, NEW n, NEW c, NEW t, NEW u, NEW r \in Seq(Results), NEW s \in Seq(Results),
           Tracks(l, n, c, t, r), Len(s) = Len(r), \A i \in 1..Len(r) : Truly(l, c, i, s[i]),
           u.state # "new", u.received = t.received, u.tracked = t.tracked,
           Count(l, u.snap, c) <= t.tracked
    PROVE  Tracks(l, n, c, u, AllSettled(s))
<1>1. Len(AllSettled(s)) = Len(s)
  BY AllSettledKeeps
<1>2. \A i \in 1..Len(s) : Truly(l, c, i, AllSettled(s)[i]) /\ AllSettled(s)[i] # "pending"
  BY TruthOfAll
<1> QED
  BY <1>1, <1>2 DEF Tracks

LEMMA ConnectConfirms ==
    ASSUME Confirmed, Flow', NEW c \in Clients, Connect(c)
    PROVE  Confirmed'
<1> DEFINE t == tab[c]
           accepted == t.received >= t.tracked
           dn(p) == [pusher |-> p, ws |-> conn[c].ws + 1, live |-> accepted, base |-> t.snap]
           u == IF accepted THEN [t EXCEPT !.tracked = t.received, !.sent = NoMutations] ELSE Paused(t)
           s == IF ~accepted THEN AllSettled(outcome[c])
                ELSE IF t.received = t.tracked THEN outcome[c]
                ELSE UpTo(outcome[c], t.received, "assumed")
<1>1. PICK p : conn' = [conn EXCEPT ![c] = dn(p)]
  BY DEF Connect
<1>2. /\ t.state = "open" /\ tab' = [tab EXCEPT ![c] = u] /\ outcome' = [outcome EXCEPT ![c] = s]
      /\ UNCHANGED db /\ UNCHANGED views /\ perdag' = perdag
  BY DEF Connect
<1>3. /\ t \in Tab /\ outcome[c] \in Seq(Results) /\ lmids[c] \in Nat
      /\ t.received \in Nat /\ t.tracked \in Nat /\ t.received <= lmids[c]
      /\ t.snap \in 0..Len(log) /\ t.buffer \in 0..Len(log) /\ Len(log) \in Nat
      /\ Count(log, t.snap, c) <= t.tracked
      /\ Tracks(log, lmids[c], c, t, outcome[c])
  BY Bounds DEF Confirmed
<1>4. /\ u.received = t.received /\ u.snap = t.snap /\ u.buffer \in {t.buffer, 0}
      /\ u.tracked = (IF accepted THEN t.received ELSE t.tracked)
      /\ u.state = (IF accepted THEN "open" ELSE "paused")
  BY <1>2, <1>3 DEF Paused, Disconnected, Tab
<1>5. dn(p).live = accepted /\ dn(p).base = t.snap
  OBVIOUS
<1>6. Len(s) = Len(outcome[c])
  BY <1>3, SettleKeeps, AllSettledKeeps DEF UpTo, Results
<1>7. Tracks(log, lmids[c], c, u, s)
  <2>1. CASE ~accepted
    <3>1. s = AllSettled(outcome[c]) /\ u.state # "new" /\ u.tracked = t.tracked
      BY <1>4, <2>1
    <3>2. \A i \in 1..Len(outcome[c]) : Truly(log, c, i, outcome[c][i])
      BY <1>3 DEF Tracks
    <3> HIDE DEF s, u, t
    <3> QED
      BY <1>3, <1>4, <3>1, <3>2, TracksPaused
  <2>2. CASE accepted /\ t.received = t.tracked
    BY <1>2, <1>3, <1>4, <2>2 DEF Tracks
  <2>3. CASE accepted /\ t.received # t.tracked
    <3>1. \A i \in 1..Len(outcome[c]) :
             outcome[c][i] = "pending" /\ i <= t.received => Truly(log, c, i, "assumed")
      <4>1. SUFFICES ASSUME NEW i \in 1..Len(outcome[c]), i <= t.received
                     PROVE  Truly(log, c, i, "assumed")
        OBVIOUS
      <4>2. i \in 1..lmids[c]
        BY <1>3, <4>1
      <4> QED
        BY <4>2, CommittedUpTo DEF Truly
    <3>2. Count(log, u.snap, c) <= t.received
      <4>1. Count(log, t.snap, c) \in Nat
        BY <1>3, CountBound
      <4> QED
        BY <1>3, <1>4, <2>3, <4>1
    <3>3. "assumed" \in Results /\ u.state # "new" /\ u.tracked = t.received
      BY <1>4, <2>3 DEF Results
    <3>4. s = UpTo(outcome[c], t.received, "assumed")
      BY <2>3
    <3> HIDE DEF u, s, t
    <3> QED
      BY <1>3, <1>4, <3>1, <3>2, <3>3, <3>4, TracksTold
  <2> QED
    BY <2>1, <2>2, <2>3
<1> HIDE DEF u, s, dn
<1>8. /\ tab \in [Clients -> Tab] /\ outcome \in [Clients -> Seq(Results)]
      /\ conn \in [Clients -> Connection]
  BY DEF Confirmed, Flow, Kept
<1>9. \A d \in Clients : Tracks(log, lmids[d], d, tab'[d], outcome'[d])
  BY <1>2, <1>7, <1>8 DEF Confirmed
<1>10. \A d \in Clients : conn'[d].live => tab'[d].state = "open"
  BY <1>1, <1>2, <1>4, <1>5, <1>8 DEF Confirmed
<1>11. Positions'
  <2>1. \A d \in Clients : {tab'[d].snap, tab'[d].buffer, conn'[d].base} \subseteq 0..Len(log)
    BY <1>1, <1>2, <1>3, <1>4, <1>5, <1>8 DEF Confirmed, Positions
  <2> QED
    BY <1>2, <2>1 DEF Confirmed, Positions, views, db
<1>12. \A d \in Clients : Made(d) <= Made(d)'
  <2>1. \A d \in Clients : Len(outcome'[d]) = Len(outcome[d])
    BY <1>2, <1>6, <1>8
  <2> QED
    BY <2>1, MadeType DEF Made, Confirmed
<1> QED
  BY <1>2, <1>9, <1>10, <1>11, <1>12, QuietConfirms

LEMMA StartPokeConfirms ==
    ASSUME Confirmed, Flow', NEW v \in 1..Len(log), StartPoke(v)
    PROVE  Confirmed'
<1> DEFINE behind == {c \in Clients : conn[c].live /\ conn[c].base < v}
<1>1. /\ poke'.to = v /\ replica' = Larger(replica, v) /\ cvr' = cvr
      /\ tab' = [c \in Clients |-> IF c \in behind THEN Informed(c, v) ELSE tab[c]]
      /\ UNCHANGED db /\ perdag' = perdag /\ outcome' = outcome /\ conn' = conn
  BY DEF StartPoke
<1> HIDE DEF behind
<1>2. v \in 0..Len(log) /\ log' = log
  BY <1>1, LogType DEF Confirmed, Flow, db
<1>3. ASSUME NEW c \in Clients
      PROVE  /\ tab'[c].snap = tab[c].snap /\ tab'[c].buffer = tab[c].buffer
             /\ tab'[c].state = tab[c].state /\ tab'[c].tracked = tab[c].tracked
             /\ tab'[c].received = tab[c].received \/ tab'[c].received = Count(log, v, c)
  <2>1. tab[c] \in Tab
    BY Bounds
  <2>2. tab'[c] = tab[c] \/ tab'[c] = [tab[c] EXCEPT !.received = Count(log, v, c)]
    BY <1>1, LmidIsCount DEF Informed
  <2> QED
    BY <2>1, <2>2 DEF Tab
<1>4. \A c \in Clients : Tracks(log, lmids[c], c, tab'[c], outcome'[c])
  <2>1. \A c \in Clients : Count(log, v, c) <= lmids[c]
    BY <1>2, CountBound
  <2> QED
    BY <1>1, <1>3, <2>1 DEF Confirmed, Tracks
<1>5. Positions'
  <2>1. replica' \in 0..Len(log)
    BY <1>1, <1>2 DEF Confirmed, Positions, Larger
  <2>2. \A c \in Clients : {tab'[c].snap, tab'[c].buffer, conn'[c].base} \subseteq 0..Len(log)
    BY <1>1, <1>3 DEF Confirmed, Positions
  <2> QED
    BY <1>1, <1>2, <2>1, <2>2 DEF Confirmed, Positions
<1>6. \A c \in Clients : Made(c) <= Made(c)'
  BY <1>1, MadeType DEF Made, Confirmed
<1>7. \A c \in Clients : conn'[c].live => tab'[c].state = "open"
  BY <1>1, <1>3 DEF Confirmed
<1> QED
  BY <1>1, <1>4, <1>5, <1>6, <1>7, QuietConfirms

LEMMA EndPokeConfirms ==
    ASSUME Confirmed, Flow', EndPoke
    PROVE  Confirmed'
<1>1. /\ poke' = NoPoke /\ replica' = replica /\ cvr' = poke.to
      /\ tab' = [c \in Clients |->
            IF Served(c) THEN [tab[c] EXCEPT !.buffer = poke.to] ELSE tab[c]]
      /\ conn' = [c \in Clients |->
            IF Served(c) THEN [conn[c] EXCEPT !.base = poke.to] ELSE conn[c]]
      /\ UNCHANGED db /\ perdag' = perdag /\ outcome' = outcome
  BY DEF EndPoke
<1>2. poke.to \in 0..Len(log) /\ 0 \in 0..Len(log) /\ log' = log /\ poke'.to = 0
  BY <1>1, LogType DEF Confirmed, Positions, Flow, db, NoPoke
<1>3. ASSUME NEW c \in Clients
      PROVE  /\ tab'[c].snap = tab[c].snap /\ tab'[c].buffer \in {tab[c].buffer, poke.to}
             /\ tab'[c].state = tab[c].state /\ tab'[c].tracked = tab[c].tracked
             /\ tab'[c].received = tab[c].received
             /\ conn'[c].base \in {conn[c].base, poke.to} /\ conn'[c].live = conn[c].live
  <2>1. tab[c] \in Tab /\ conn[c] \in Connection
    BY Bounds
  <2>2. CASE Served(c)
    <3>1. /\ tab'[c] = [tab[c] EXCEPT !.buffer = poke.to]
          /\ conn'[c] = [conn[c] EXCEPT !.base = poke.to]
      BY <1>1, <2>2
    <3> QED
      BY <2>1, <3>1 DEF Tab, Connection
  <2>3. CASE ~Served(c)
    BY <1>1, <2>3
  <2> QED
    BY <2>2, <2>3
<1>4. \A c \in Clients : Tracks(log, lmids[c], c, tab'[c], outcome'[c])
  BY <1>1, <1>3 DEF Confirmed, Tracks
<1>5. Positions'
  <2>1. \A c \in Clients : {tab'[c].snap, tab'[c].buffer, conn'[c].base} \subseteq 0..Len(log)
    BY <1>2, <1>3 DEF Confirmed, Positions
  <2> QED
    BY <1>1, <1>2, <2>1 DEF Confirmed, Positions
<1>6. \A c \in Clients : Made(c) <= Made(c)'
  BY <1>1, MadeType DEF Made, Confirmed
<1>7. \A c \in Clients : conn'[c].live => tab'[c].state = "open"
  BY <1>1, <1>3 DEF Confirmed
<1> QED
  BY <1>1, <1>4, <1>5, <1>6, <1>7, QuietConfirms

\* The results that come with a poke are those of mutations that failed.
FailedBetween(c, i, from, to) ==
    \E k \in (from + 1)..to : log[k].client = c /\ log[k].id = i /\ log[k].res = "failed"

LEMMA ResultsOf ==
    ASSUME NEW c \in Clients, NEW r \in Seq(Results), NEW from, NEW to
    PROVE  LET known == WithResults(c, r, from, to) IN
           /\ known \in Seq(Results) /\ Len(known) = Len(r)
           /\ \A i \in 1..Len(r) :
                 known[i] = IF r[i] = "pending" /\ FailedBetween(c, i, from, to) THEN "app" ELSE r[i]
<1> DEFINE failed == {i \in DOMAIN r : \E k \in (from + 1)..to :
                         log[k].client = c /\ log[k].id = i /\ log[k].res = "failed"}
           known == WithResults(c, r, from, to)
<1>1. known = Settle(r, failed, "app")
  BY DEF WithResults
<1>2. DOMAIN r = 1..Len(r)
  BY LenProperties
<1>3. ASSUME NEW i \in 1..Len(r)
      PROVE  known[i] = IF r[i] = "pending" /\ FailedBetween(c, i, from, to) THEN "app" ELSE r[i]
  <2>1. i \in failed <=> FailedBetween(c, i, from, to)
    BY <1>2 DEF FailedBetween
  <2> HIDE DEF failed, known
  <2> QED
    BY <1>1, <1>2, <2>1 DEF Settle
<1>4. known \in Seq(Results) /\ Len(known) = Len(r)
  <2> HIDE DEF failed, known
  <2>1. "app" \in Results
    BY DEF Results
  <2> QED
    BY <1>1, <2>1, SettleKeeps
<1> QED
  BY <1>3, <1>4

\* A poke says what became of the mutations between two positions.
LEMMA TruthOfResults ==
    ASSUME Confirmed, NEW c \in Clients, NEW from \in 0..Len(log), NEW to \in 0..Len(log),
           NEW i \in Nat
    PROVE  /\ FailedBetween(c, i, from, to) => Truly(log, c, i, "app")
           /\ Count(log, from, c) < i /\ i <= Count(log, to, c) /\ ~FailedBetween(c, i, from, to)
                 => Truly(log, c, i, "success")
<1>1. Len(log) \in Nat /\ (from + 1)..to \subseteq 1..Len(log)
  BY LogType DEF Confirmed, Flow
<1>2. ASSUME FailedBetween(c, i, from, to)
      PROVE  Truly(log, c, i, "app")
  BY <1>1, <1>2 DEF FailedBetween, Truly, CommittedAs
<1>3. ASSUME Count(log, from, c) < i, i <= Count(log, to, c), ~FailedBetween(c, i, from, to)
      PROVE  Truly(log, c, i, "success")
  <2>1. PICK k \in (from + 1)..to : log[k].client = c /\ log[k].id = i
    BY <1>3, Between DEF Confirmed, Flow
  <2>2. k \in 1..Len(log) /\ log[k].res \in {"applied", "failed"}
    BY <1>1, LogType DEF Confirmed, Flow, Entry
  <2>3. log[k].res = "applied"
    BY <1>3, <2>1, <2>2 DEF FailedBetween
  <2> QED
    BY <2>1, <2>2, <2>3 DEF Truly, CommittedAs
<1> QED
  BY <1>2, <1>3

LEMMA PlaybackTracks ==
    ASSUME Confirmed, NEW c \in Clients, Playback(c)
    PROVE  /\ Tracks(log, lmids[c], c, tab'[c], outcome'[c])
           /\ Len(outcome'[c]) = Len(outcome[c])
           /\ tab'[c].snap = tab[c].buffer /\ tab'[c].buffer = 0
           /\ tab'[c].received = tab[c].received
           /\ tab'[c].tracked \in {tab[c].tracked, Count(log, tab[c].buffer, c)}
           /\ \/ tab'[c].state = "open" /\ conn'[c].live = conn[c].live
              \/ tab'[c].state = "paused" /\ conn'[c].live = FALSE
           /\ conn'[c].base = conn[c].base /\ conn'[c].ws = conn[c].ws
<1> DEFINE t == tab[c]
           lmid == Count(log, t.buffer, c)
           moved == [t EXCEPT !.snap = t.buffer, !.buffer = 0]
           r == outcome[c]
           known == WithResults(c, r, t.snap, t.buffer)
<1>1. /\ t \in Tab /\ conn[c] \in Connection /\ r \in Seq(Results)
      /\ lmids[c] \in Nat /\ Len(log) \in Nat
      /\ t.snap \in 0..Len(log) /\ t.buffer \in 0..Len(log)
      /\ t.received \in Nat /\ t.tracked \in Nat
      /\ t.received <= lmids[c] /\ t.tracked <= lmids[c]
      /\ Count(log, t.snap, c) <= t.tracked
      /\ Tracks(log, lmids[c], c, t, r)
  BY Bounds DEF Confirmed
<1>2. lmid \in Nat /\ lmid <= lmids[c] /\ Count(log, t.snap, c) \in Nat
  BY <1>1, CountBound
<1>3. /\ Lmid(t.buffer, c) = lmid /\ Lmid(t.snap, c) = Count(log, t.snap, c)
  BY LmidIsCount
<1>4. /\ t.state = "open" /\ t.buffer # 0
      /\ IF lmid = Count(log, t.snap, c)
         THEN tab' = [tab EXCEPT ![c] = moved] /\ outcome' = outcome /\ conn' = conn
         ELSE IF lmid < t.tracked
         THEN /\ tab' = [tab EXCEPT ![c] = Paused(moved)]
              /\ outcome' = [outcome EXCEPT ![c] = AllSettled(known)]
              /\ conn' = [conn EXCEPT ![c] = Cut(conn[c])]
         ELSE /\ tab' = [tab EXCEPT ![c] = [moved EXCEPT !.tracked = lmid]]
              /\ outcome' = [outcome EXCEPT ![c] =
                    IF lmid = t.tracked THEN known ELSE UpTo(known, lmid, "success")]
              /\ conn' = conn
  BY <1>3 DEF Playback, Told
<1>5. /\ moved.state = "open" /\ moved.snap = t.buffer /\ moved.buffer = 0
      /\ moved.received = t.received /\ moved.tracked = t.tracked
      /\ Paused(moved).state = "paused" /\ Paused(moved).snap = t.buffer /\ Paused(moved).buffer = 0
      /\ Paused(moved).received = t.received /\ Paused(moved).tracked = t.tracked
  BY <1>1, <1>4 DEF Tab, Paused, Disconnected
<1>6. LET u == [moved EXCEPT !.tracked = lmid] IN
         /\ u.state = "open" /\ u.snap = t.buffer /\ u.buffer = 0
         /\ u.received = t.received /\ u.tracked = lmid
  BY <1>1, <1>4 DEF Tab
<1>7. Cut(conn[c]).live = FALSE /\ Cut(conn[c]).base = conn[c].base /\ Cut(conn[c]).ws = conn[c].ws
  BY <1>1 DEF Cut, Connection
<1>8. /\ known \in Seq(Results) /\ Len(known) = Len(r) /\ Len(r) \in Nat
      /\ \A i \in 1..Len(r) : known[i] =
            IF r[i] = "pending" /\ FailedBetween(c, i, t.snap, t.buffer) THEN "app" ELSE r[i]
  BY <1>1, ResultsOf, LenProperties
<1> HIDE DEF known
<1>9. \A i \in 1..Len(r) : Truly(log, c, i, known[i])
  <2>1. SUFFICES ASSUME NEW i \in 1..Len(r)
                 PROVE  Truly(log, c, i, known[i])
    OBVIOUS
  <2>2. Truly(log, c, i, r[i])
    BY <1>1 DEF Tracks
  <2>3. FailedBetween(c, i, t.snap, t.buffer) => Truly(log, c, i, "app")
    BY <1>1, <1>8, TruthOfResults
  <2> QED
    BY <1>8, <2>2, <2>3
<1>10. tab \in [Clients -> Tab] /\ conn \in [Clients -> Connection] /\ outcome \in [Clients -> Seq(Results)]
  BY DEF Confirmed, Flow, Kept
<1>11. CASE lmid = Count(log, t.snap, c)
  <2>1. tab'[c] = moved /\ outcome'[c] = r /\ conn'[c] = conn[c]
    BY <1>4, <1>10, <1>11
  <2>2. Tracks(log, lmids[c], c, moved, r)
    BY <1>1, <1>5, <1>11 DEF Tracks
  <2> HIDE DEF moved
  <2> QED
    BY <1>5, <2>1, <2>2
<1>12. CASE lmid # Count(log, t.snap, c) /\ lmid < t.tracked
  <2>1. tab'[c] = Paused(moved) /\ outcome'[c] = AllSettled(known) /\ conn'[c] = Cut(conn[c])
    BY <1>4, <1>10, <1>12
  <2>2. Count(log, Paused(moved).snap, c) <= t.tracked
    BY <1>1, <1>2, <1>5, <1>12
  <2> HIDE DEF moved, t, r
  <2>3. Tracks(log, lmids[c], c, Paused(moved), AllSettled(known))
    BY <1>1, <1>5, <1>8, <1>9, <2>2, TracksPaused
  <2>4. Len(AllSettled(known)) = Len(r)
    BY <1>8, AllSettledKeeps
  <2> QED
    BY <1>5, <1>7, <2>1, <2>3, <2>4 DEF t, r
<1>13. CASE lmid # Count(log, t.snap, c) /\ ~(lmid < t.tracked)
  <2> DEFINE u == [moved EXCEPT !.tracked = lmid]
             s == IF lmid = t.tracked THEN known ELSE UpTo(known, lmid, "success")
  <2>1. tab'[c] = u /\ outcome'[c] = s /\ conn'[c] = conn[c]
    BY <1>4, <1>10, <1>13
  <2>2. Tracks(log, lmids[c], c, t, known)
    BY <1>1, <1>8, <1>9, EmptySeq DEF Tracks
  <2>3. ASSUME lmid = t.tracked
        PROVE  Tracks(log, lmids[c], c, u, s)
    <3>1. s = known /\ u.state # "new" /\ u.received = t.received /\ u.tracked = t.tracked
          /\ Count(log, u.snap, c) = lmid
      BY <1>6, <2>3
    <3> HIDE DEF u, s, t, lmid
    <3> QED
      BY <1>1, <1>2, <2>2, <2>3, <3>1 DEF Tracks
  <2>4. ASSUME lmid # t.tracked
        PROVE  Tracks(log, lmids[c], c, u, s)
    <3>1. ASSUME NEW i \in 1..Len(known), known[i] = "pending", i <= lmid
          PROVE  Truly(log, c, i, "success")
      <4>1. i \in 1..Len(r) /\ r[i] = "pending" /\ ~FailedBetween(c, i, t.snap, t.buffer)
        BY <1>8, <3>1
      <4>2. Count(log, t.snap, c) < i
        BY <1>1, <1>2, <4>1 DEF Tracks
      <4> QED
        BY <1>1, <3>1, <4>1, <4>2, TruthOfResults
    <3>2. "success" \in Results /\ s = UpTo(known, lmid, "success")
      BY <2>4 DEF Results
    <3>3. Count(log, u.snap, c) <= lmid /\ u.state # "new" /\ u.tracked = lmid /\ u.received = t.received
      BY <1>2, <1>6
    <3> HIDE DEF u, s, t, lmid
    <3> QED
      BY <1>1, <1>2, <1>8, <2>2, <3>1, <3>2, <3>3, TracksTold
  <2>5. Len(s) = Len(r)
    BY <1>8, SettleKeeps DEF UpTo, Results
  <2>6. Tracks(log, lmids[c], c, u, s)
    BY <2>3, <2>4
  <2>7. /\ u.state = "open" /\ u.snap = t.buffer /\ u.buffer = 0 /\ u.received = t.received
        /\ u.tracked = lmid
    BY <1>6
  <2> HIDE DEF u, s
  <2> QED
    BY <2>1, <2>5, <2>6, <2>7
<1> QED
  BY <1>11, <1>12, <1>13

LEMMA PlaybackConfirms ==
    ASSUME Confirmed, Flow', NEW c \in Clients, Playback(c)
    PROVE  Confirmed'
<1>1. /\ Tracks(log, lmids[c], c, tab'[c], outcome'[c])
      /\ Len(outcome'[c]) = Len(outcome[c])
      /\ tab'[c].snap = tab[c].buffer /\ tab'[c].buffer = 0
      /\ \/ tab'[c].state = "open" /\ conn'[c].live = conn[c].live
         \/ tab'[c].state = "paused" /\ conn'[c].live = FALSE
      /\ conn'[c].base = conn[c].base
  BY PlaybackTracks
<1>2. UNCHANGED db /\ UNCHANGED views /\ perdag' = perdag
  BY DEF Playback
<1>3. \A d \in Clients : d # c => tab'[d] = tab[d] /\ outcome'[d] = outcome[d] /\ conn'[d] = conn[d]
  <2>1. tab \in [Clients -> Tab] /\ conn \in [Clients -> Connection] /\ outcome \in [Clients -> Seq(Results)]
    BY DEF Confirmed, Flow, Kept
  <2> QED
    BY <2>1 DEF Playback
<1>4. \A d \in Clients : Tracks(log, lmids[d], d, tab'[d], outcome'[d])
  BY <1>1, <1>3 DEF Confirmed
<1>5. Positions'
  <2>1. 0 \in 0..Len(log) /\ log' = log
    BY <1>2, LogType DEF Confirmed, Flow, db
  <2>2. \A d \in Clients : {tab'[d].snap, tab'[d].buffer, conn'[d].base} \subseteq 0..Len(log)
    BY <1>1, <1>3, <2>1 DEF Confirmed, Positions
  <2> QED
    BY <1>2, <2>1, <2>2 DEF Confirmed, Positions, views
<1>6. \A d \in Clients : Made(d) <= Made(d)'
  <2>1. \A d \in Clients : Len(outcome'[d]) = Len(outcome[d])
    BY <1>1, <1>3
  <2> QED
    BY <2>1, MadeType DEF Made, Confirmed
<1>7. \A d \in Clients : conn'[d].live => tab'[d].state = "open"
  BY <1>1, <1>3 DEF Confirmed
<1> QED
  BY <1>2, <1>4, <1>5, <1>6, <1>7, QuietConfirms

LEMMA ConfirmedHolds ==
    ASSUME Confirmed, Flow', [Next]_vars
    PROVE  Confirmed'
<1>1. CASE Calms /\ (UNCHANGED db \/ Committing)
  BY <1>1, CalmStep, Zenon
<1>2. CASE Moves
  <2>1. ASSUME NEW c \in Clients,
               Open(c) \/ MakeMutation(c) \/ Persist(c) \/ Close(c) \/ Connect(c) \/ Playback(c)
        PROVE  Confirmed'
    BY <2>1, OpenConfirms, MakeMutationConfirms, PersistConfirms, CloseConfirms, ConnectConfirms,
       PlaybackConfirms, Zenon
  <2> QED
    BY <1>2, <2>1, StartPokeConfirms, EndPokeConfirms, Zenon DEF Moves
<1> QED
  BY <1>1, <1>2, CalmCases, Zenon

LEMMA ConfirmedInit ==
    ASSUME Init
    PROVE  Confirmed
<1>1. Flow
  BY InitFlow
<1>2. Len(log) = 0 /\ \A c \in Clients : Made(c) = 0 /\ outcome[c] = << >> /\ Len(outcome[c]) = 0
  BY EmptySeq DEF Init, Made
<1>3. \A c : Count(log, 0, c) = 0
  BY CountZero
<1>4. /\ replica = 0 /\ cvr = 0 /\ poke.to = 0 /\ perdag.snap = 0
      /\ \A c \in Clients : /\ lmids[c] = 0 /\ tab[c] = Blank /\ conn[c] = NoConnection
  BY DEF Init, NoPoke, NoMutations
<1>5. /\ Blank.snap = 0 /\ Blank.buffer = 0 /\ Blank.received = 0 /\ Blank.tracked = 0
      /\ NoConnection.base = 0 /\ NoConnection.live = FALSE
  BY DEF Blank, NoConnection
<1>6. Numbered
  BY <1>2, <1>3, <1>4 DEF Numbered
<1>7. Positions
  BY <1>2, <1>4, <1>5 DEF Positions
<1>8. \A c \in Clients : Tracks(log, lmids[c], c, tab[c], outcome[c])
  BY <1>2, <1>3, <1>4, <1>5 DEF Tracks
<1> QED
  BY <1>1, <1>4, <1>5, <1>6, <1>7, <1>8 DEF Confirmed

\* Where a tab stands among the committed mutations, its tracker is not behind
\* its snapshot nor ahead of the clients table, and whatever it has settled it
\* settled rightly (zero-client mutation-tracker.ts).
THEOREM ConfirmedTheorem == Spec => []Confirmed
<1>1. Init => Confirmed
  BY ConfirmedInit
<1>2. Confirmed /\ Flow' /\ [Next]_vars => Confirmed'
  BY ConfirmedHolds
<1> QED
  BY <1>1, <1>2, FlowTheorem, PTL DEF Spec

\* What a tab is told of a mutation is true, whatever is sent again, lost or cut
\* off on the way (mutation-tracker.ts lmidAdvanced, onConnected,
\* #processMutationResponses).
THEOREM OutcomesTheorem == Spec => []OutcomesAreTrue
<1>1. ASSUME Confirmed
      PROVE  OutcomesAreTrue
  <2>1. ASSUME NEW c \in Clients, NEW i \in DOMAIN outcome[c]
        PROVE  Truly(log, c, i, outcome[c][i])
    <3>1. i \in 1..Len(outcome[c])
      BY <1>1, Bounds, LenProperties
    <3> QED
      BY <1>1, <3>1 DEF Confirmed, Tracks
  <2>2. DOMAIN log = 1..Len(log)
    BY <1>1, LogType DEF Confirmed, Flow
  <2> QED
    BY <2>1, <2>2 DEF OutcomesAreTrue, Truly, CommittedAs
<1> QED
  BY <1>1, ConfirmedTheorem, PTL

-----------------------------------------------------------------------------
(* What tabs have heard of. *)

LEMMA HearsCalm ==
    ASSUME Confirmed, LogGrew, NEW c \in Clients, NEW v \in 0..Len(log), NEW t, NEW u, NEW cn, NEW dn,
           NEW pk, NEW qk, qk \in {pk, NoPoke}, pk.to \in 0..Len(log), pk.ws[c] \in Nat,
           t.buffer \in 0..Len(log), cn.base \in 0..Len(log), cn.ws \in Nat,
           cn.live \in BOOLEAN, dn.live \in BOOLEAN, t.received \in Nat,
           NEW r, NEW s, CalmTab(t, u, r, s, cn, dn), Hears(log, v, pk, c, t, cn)
    PROVE  Hears(log', v, qk, c, u, dn)
<1>1. Len(log) \in Nat /\ 0 \in 0..Len(log)
  BY LogType DEF Confirmed, Flow
<1>2. \A p \in 0..Len(log) : Count(log', p, c) = Count(log, p, c)
  BY DEF LogGrew
<1>3. /\ Count(log', v, c) = Count(log, v, c)
      /\ Count(log', t.buffer, c) = Count(log, t.buffer, c)
      /\ Count(log', 0, c) = 0
      /\ Count(log', cn.base, c) = Count(log, cn.base, c)
      /\ Count(log', pk.to, c) = Count(log, pk.to, c)
  BY <1>1, <1>2, CountZero
<1>4. /\ u.received = t.received /\ u.tracked = t.tracked /\ dn.base = cn.base /\ dn.ws = cn.ws
      /\ \/ dn.live = cn.live /\ u.buffer = t.buffer
         \/ ~dn.live /\ u.buffer = 0
  BY DEF CalmTab
<1>5. NoPoke.ws[c] = 0
  BY DEF NoPoke, NoMutations
<1>6. /\ qk.ws[c] <= dn.ws
      /\ dn.live /\ dn.ws = qk.ws[c] => Count(log', qk.to, c) <= u.received
  <2>1. CASE qk = pk
    BY <1>3, <1>4, <2>1 DEF Hears
  <2>2. CASE qk = NoPoke
    BY <1>3, <1>4, <1>5, <2>2 DEF Hears
  <2> QED
    BY <2>1, <2>2
<1>7. CASE dn.live = cn.live /\ u.buffer = t.buffer
  BY <1>3, <1>4, <1>6, <1>7 DEF Hears
<1>8. CASE ~dn.live /\ u.buffer = 0
  BY <1>3, <1>4, <1>6, <1>8 DEF Hears
<1> QED
  BY <1>4, <1>7, <1>8

LEMMA PokeType ==
    ASSUME Confirmed, NEW c \in Clients
    PROVE  /\ poke.to \in 0..Len(log) /\ poke.ws[c] \in Nat /\ replica \in 0..Len(log)
           /\ conn[c].base \in 0..Len(log) /\ conn[c].ws \in Nat /\ conn[c].live \in BOOLEAN
BY DEF Confirmed, Positions, Flow, Kept, Connection

LEMMA CalmHeard ==
    ASSUME Heard, Confirmed', Calms, UNCHANGED db \/ Committing
    PROVE  Heard'
<1>1. LogGrew
  BY CalmNumbered DEF Heard, Confirmed
<1>2. poke' # NoPoke => poke'.to = replica'
  BY DEF Heard, Calms
<1>3. ASSUME NEW c \in Clients
      PROVE  Hears(log', replica', poke', c, tab'[c], conn'[c])
  <2>1. CalmTab(tab[c], tab'[c], outcome[c], outcome'[c], conn[c], conn'[c])
        /\ replica' = replica /\ poke' \in {poke, NoPoke}
    BY DEF Calms
  <2>2. conn'[c].live \in BOOLEAN
    BY DEF Confirmed, Flow, Kept, Connection
  <2>3. Hears(log, replica, poke, c, tab[c], conn[c]) /\ Confirmed
    BY DEF Heard
  <2> QED
    BY <1>1, <2>1, <2>2, <2>3, Bounds, PokeType, HearsCalm
<1> QED
  BY <1>2, <1>3 DEF Heard

LEMMA QuietHeard ==
    ASSUME Heard, Confirmed', UNCHANGED db, replica' = replica, poke' = poke,
           \A c \in Clients : Hears(log, replica, poke, c, tab'[c], conn'[c])
    PROVE  Heard'
BY DEF Heard, db

LEMMA OpenHeard ==
    ASSUME Heard, Confirmed', NEW c \in Clients, Open(c)
    PROVE  Heard'
<1> DEFINE t == [Blank EXCEPT !.state = "open", !.snap = perdag.snap, !.loaded = perdag.made]
<1>1. /\ tab[c].state = "new" /\ tab' = [tab EXCEPT ![c] = t] /\ UNCHANGED db /\ UNCHANGED views
      /\ conn' = conn
  BY DEF Open
<1>2. t.received = 0 /\ t.tracked = 0 /\ t.buffer = 0
  BY DEF Blank
<1> HIDE DEF t
<1>3. ~conn[c].live
  BY <1>1 DEF Heard, Confirmed
<1>4. /\ Count(log, replica, c) \in Nat /\ Count(log, 0, c) = 0
      /\ poke.ws[c] <= conn[c].ws
  BY PokeType, CountBound, CountZero DEF Heard, Hears
<1>5. Hears(log, replica, poke, c, t, conn[c])
  BY <1>2, <1>3, <1>4 DEF Hears
<1>6. tab \in [Clients -> Tab]
  BY DEF Heard, Confirmed, Flow, Kept
<1>7. \A d \in Clients : Hears(log, replica, poke, d, tab'[d], conn'[d])
  BY <1>1, <1>5, <1>6 DEF Heard
<1> QED
  BY <1>1, <1>7, QuietHeard DEF views

LEMMA CloseHeard ==
    ASSUME Heard, Confirmed', NEW c \in Clients, Close(c)
    PROVE  Heard'
<1> DEFINE t == [Blank EXCEPT !.state = "closed"]
<1>1. /\ tab' = [tab EXCEPT ![c] = t] /\ conn' = [conn EXCEPT ![c] = Cut(conn[c])]
      /\ UNCHANGED db /\ UNCHANGED views
  BY DEF Close
<1>2. t.received = 0 /\ t.tracked = 0 /\ t.buffer = 0
  BY DEF Blank
<1> HIDE DEF t
<1>3. tab \in [Clients -> Tab] /\ conn \in [Clients -> Connection]
  BY DEF Heard, Confirmed, Flow, Kept
<1>4. Cut(conn[c]).live = FALSE /\ Cut(conn[c]).ws = conn[c].ws
  BY <1>3 DEF Cut, Connection
<1>5. /\ Count(log, replica, c) \in Nat /\ Count(log, 0, c) = 0
      /\ poke.ws[c] <= conn[c].ws
  BY PokeType, CountBound, CountZero DEF Heard, Hears
<1>6. Hears(log, replica, poke, c, t, Cut(conn[c]))
  BY <1>2, <1>4, <1>5 DEF Hears
<1>7. \A d \in Clients : Hears(log, replica, poke, d, tab'[d], conn'[d])
  BY <1>1, <1>3, <1>6 DEF Heard
<1> QED
  BY <1>1, <1>7, QuietHeard DEF views

\* A tab connects: whatever was on its way on the old connection is void.
LEMMA ConnectHeard ==
    ASSUME Heard, Confirmed', NEW c \in Clients, Connect(c)
    PROVE  Heard'
<1> DEFINE t == tab[c]
           u == [t EXCEPT !.tracked = t.received, !.sent = NoMutations]
           en(p) == [pusher |-> p, ws |-> conn[c].ws + 1,
                     live |-> t.received >= t.tracked, base |-> t.snap]
           dn(p) == [pusher |-> p, ws |-> conn[c].ws + 1, live |-> TRUE, base |-> t.snap]
<1>1. /\ t \in Tab /\ t.received \in Nat /\ t.tracked \in Nat /\ conn[c].ws \in Nat
      /\ poke.ws[c] \in Nat
      /\ Count(log, t.snap, c) <= t.tracked /\ Count(log, t.snap, c) \in Nat
      /\ Hears(log, replica, poke, c, t, conn[c])
  BY Bounds, PokeType, CountBound DEF Heard
<1>2. t.received >= t.tracked
  BY <1>1 DEF Hears
<1>3. PICK p : conn' = [conn EXCEPT ![c] = en(p)]
  BY DEF Connect
<1>13. ~conn[c].live /\ tab' = [tab EXCEPT ![c] = u] /\ UNCHANGED db /\ UNCHANGED views
  BY <1>2 DEF Connect
<1>14. conn' = [conn EXCEPT ![c] = dn(p)]
  BY <1>2, <1>3
<1>4. u.received = t.received /\ u.tracked = t.received /\ u.buffer = t.buffer
  BY <1>1 DEF Tab
<1>5. t.buffer = 0 /\ Count(log, 0, c) = 0
  BY <1>1, <1>13, CountZero DEF Hears
<1>6. Count(log, t.snap, c) <= t.received
  BY <1>1, <1>2
<1>7. dn(p).live /\ dn(p).base = t.snap /\ dn(p).ws = conn[c].ws + 1
  OBVIOUS
<1> HIDE DEF u, dn
<1>8. Hears(log, replica, poke, c, u, dn(p))
  BY <1>1, <1>4, <1>5, <1>6, <1>7 DEF Hears
<1>9. tab \in [Clients -> Tab] /\ conn \in [Clients -> Connection]
  BY DEF Heard, Confirmed, Flow, Kept
<1>10. \A d \in Clients : Hears(log, replica, poke, d, tab'[d], conn'[d])
  BY <1>8, <1>9, <1>13, <1>14 DEF Heard
<1> QED
  BY <1>10, <1>13, QuietHeard DEF views

LEMMA PlaybackHeard ==
    ASSUME Heard, Confirmed', NEW c \in Clients, Playback(c)
    PROVE  Heard'
<1>1. /\ tab'[c].buffer = 0 /\ tab'[c].received = tab[c].received
      /\ tab'[c].tracked \in {tab[c].tracked, Count(log, tab[c].buffer, c)}
      /\ conn'[c].live = conn[c].live \/ conn'[c].live = FALSE
      /\ conn'[c].base = conn[c].base /\ conn'[c].ws = conn[c].ws
  BY PlaybackTracks DEF Heard
<1>2. UNCHANGED db /\ UNCHANGED views
  BY DEF Playback
<1>3. \A d \in Clients : d # c => tab'[d] = tab[d] /\ conn'[d] = conn[d]
  <2>1. tab \in [Clients -> Tab] /\ conn \in [Clients -> Connection]
    BY DEF Heard, Confirmed, Flow, Kept
  <2> QED
    BY <2>1 DEF Playback
<1>4. /\ Hears(log, replica, poke, c, tab[c], conn[c]) /\ Count(log, 0, c) = 0
      /\ tab[c].received \in Nat
  BY Bounds, CountZero DEF Heard
<1>5. Hears(log, replica, poke, c, tab'[c], conn'[c])
  BY <1>1, <1>4 DEF Hears
<1>6. \A d \in Clients : Hears(log, replica, poke, d, tab'[d], conn'[d])
  BY <1>3, <1>5 DEF Heard
<1> QED
  BY <1>2, <1>6, QuietHeard DEF views

\* The next poke is at or beyond everything that was sent before, because all
\* view-syncers read one replica.
LEMMA StartPokeHeard ==
    ASSUME Heard, Confirmed', SharedReplica, NEW v \in 1..Len(log), StartPoke(v)
    PROVE  Heard'
<1> DEFINE behind == {c \in Clients : conn[c].live /\ conn[c].base < v}
<1>1. /\ poke'.to = v /\ replica' = Larger(replica, v) /\ replica <= v
      /\ poke'.ws = [c \in Clients |-> IF c \in behind THEN conn[c].ws ELSE 0]
      /\ tab' = [c \in Clients |-> IF c \in behind THEN Informed(c, v) ELSE tab[c]]
      /\ UNCHANGED db /\ conn' = conn
  BY DEF StartPoke, Reachable
<1>2. /\ v \in 0..Len(log) /\ v \in Nat /\ v # 0 /\ log' = log
      /\ replica \in Nat /\ replica' = v
  <2>1. Len(log) \in Nat /\ replica \in 0..Len(log)
    BY LogType DEF Heard, Confirmed, Flow, Positions
  <2> QED
    BY <1>1, <2>1 DEF Larger, db
<1>3. ASSUME NEW c \in Clients
      PROVE  Hears(log, v, poke', c, tab'[c], conn[c])
  <2>1. /\ tab[c] \in Tab /\ tab[c].received \in Nat /\ conn[c].ws \in Nat /\ conn[c].live \in BOOLEAN
        /\ tab[c].buffer \in 0..Len(log) /\ tab[c].tracked \in Nat
        /\ conn[c].base \in 0..Len(log) /\ Len(log) \in Nat
        /\ Count(log, v, c) \in Nat /\ Count(log, tab[c].buffer, c) \in Nat
        /\ Count(log, conn[c].base, c) \in Nat /\ Count(log, replica, c) \in Nat
    BY <1>2, Bounds, PokeType, CountBound DEF Heard
  <2>2. Hears(log, replica, poke, c, tab[c], conn[c])
    BY DEF Heard
  <2>3. Count(log, replica, c) <= Count(log, v, c)
    BY <1>1, <1>2, CountGrows
  <2>4. /\ poke'.ws[c] = (IF c \in behind THEN conn[c].ws ELSE 0)
        /\ c \in behind <=> conn[c].live /\ conn[c].base < v
    BY <1>1
  <2> HIDE DEF behind
  <2>5. CASE c \in behind /\ Count(log, v, c) # Count(log, conn[c].base, c)
    <3>1. tab'[c] = [tab[c] EXCEPT !.received = Count(log, v, c)]
      BY <1>1, <2>5, LmidIsCount DEF Informed
    <3>2. /\ tab'[c].received = Count(log, v, c) /\ tab'[c].tracked = tab[c].tracked
          /\ tab'[c].buffer = tab[c].buffer
      BY <2>1, <3>1 DEF Tab
    <3>3. /\ tab[c].tracked <= Count(log, v, c) /\ Count(log, tab[c].buffer, c) <= Count(log, v, c)
          /\ tab[c].buffer # 0 => tab[c].tracked <= Count(log, tab[c].buffer, c)
          /\ conn[c].live /\ conn[c].ws # 0 /\ poke'.ws[c] <= conn[c].ws
      BY <2>1, <2>2, <2>3, <2>4, <2>5 DEF Hears
    <3>4. Count(log, conn[c].base, c) <= Count(log, v, c)
      BY <2>1, <2>2, <2>3, <3>3 DEF Hears
    <3> QED
      BY <1>1, <2>1, <3>2, <3>3, <3>4 DEF Hears
  <2>6. CASE c \in behind /\ Count(log, v, c) = Count(log, conn[c].base, c)
    <3>1. tab'[c] = tab[c]
      BY <1>1, <2>6, LmidIsCount DEF Informed
    <3> QED
      BY <1>1, <2>1, <2>2, <2>3, <2>4, <2>6, <3>1 DEF Hears
  <2>7. CASE c \notin behind
    <3>1. tab'[c] = tab[c]
      BY <1>1, <2>7
    <3> QED
      BY <2>1, <2>2, <2>3, <2>4, <2>7, <3>1 DEF Hears
  <2> QED
    BY <2>5, <2>6, <2>7
<1> QED
  BY <1>1, <1>2, <1>3 DEF Heard

LEMMA EndPokeHeard ==
    ASSUME Heard, Confirmed', EndPoke
    PROVE  Heard'
<1>1. /\ poke # NoPoke /\ poke' = NoPoke /\ replica' = replica
      /\ tab' = [c \in Clients |->
            IF Served(c) THEN [tab[c] EXCEPT !.buffer = poke.to] ELSE tab[c]]
      /\ conn' = [c \in Clients |->
            IF Served(c) THEN [conn[c] EXCEPT !.base = poke.to] ELSE conn[c]]
      /\ UNCHANGED db
  BY DEF EndPoke
<1>2. log' = log /\ poke.to = replica
  BY <1>1 DEF db, Heard
<1>3. ASSUME NEW c \in Clients
      PROVE  Hears(log, replica, NoPoke, c, tab'[c], conn'[c])
  <2>1. /\ tab[c] \in Tab /\ conn[c] \in Connection /\ conn[c].ws \in Nat
        /\ tab[c].tracked \in Nat /\ tab[c].received \in Nat /\ NoPoke.ws[c] = 0
    BY Bounds, PokeType DEF Heard, NoPoke, NoMutations
  <2>2. Hears(log, replica, poke, c, tab[c], conn[c]) /\ Count(log, replica, c) \in Nat
    BY PokeType, CountBound DEF Heard
  <2>3. CASE Served(c)
    <3>1. /\ tab'[c] = [tab[c] EXCEPT !.buffer = poke.to]
          /\ conn'[c] = [conn[c] EXCEPT !.base = poke.to]
      BY <1>1, <2>3
    <3>2. /\ tab'[c].received = tab[c].received /\ tab'[c].tracked = tab[c].tracked
          /\ tab'[c].buffer = poke.to /\ conn'[c].base = poke.to
          /\ conn'[c].live = conn[c].live /\ conn'[c].ws = conn[c].ws
      BY <2>1, <3>1 DEF Tab, Connection
    <3>3. conn[c].live /\ conn[c].ws = poke.ws[c]
      BY <2>3 DEF Served
    <3> QED
      BY <1>2, <2>1, <2>2, <3>2, <3>3 DEF Hears
  <2>4. CASE ~Served(c)
    <3>1. tab'[c] = tab[c] /\ conn'[c] = conn[c]
      BY <1>1, <2>4
    <3> QED
      BY <2>1, <2>2, <3>1 DEF Hears
  <2> QED
    BY <2>3, <2>4
<1> QED
  BY <1>1, <1>2, <1>3 DEF Heard


\* Steps that tell no tab of anything.
LEMMA SilentHeard ==
    ASSUME Heard, Confirmed', NEW c \in Clients, MakeMutation(c) \/ Persist(c)
    PROVE  Heard'
<1>1. UNCHANGED db /\ UNCHANGED views /\ tab' = tab /\ conn' = conn
  BY DEF MakeMutation, Persist
<1>2. \A d \in Clients : Hears(log, replica, poke, d, tab'[d], conn'[d])
  BY <1>1 DEF Heard
<1> QED
  BY <1>1, <1>2, QuietHeard DEF views

LEMMA HeardHolds ==
    ASSUME Heard, Confirmed', SharedReplica, [Next]_vars
    PROVE  Heard'
<1>1. Calms /\ (UNCHANGED db \/ Committing) => Heard'
  BY CalmHeard
<1>2. ASSUME NEW c \in Clients
      PROVE  Open(c) \/ MakeMutation(c) \/ Persist(c) \/ Close(c) \/ Connect(c) \/ Playback(c) => Heard'
  BY OpenHeard, SilentHeard, CloseHeard, ConnectHeard, PlaybackHeard
<1>3. \A v \in 1..Len(log) : StartPoke(v) => Heard'
  BY StartPokeHeard
<1>4. EndPoke => Heard'
  BY EndPokeHeard
<1> QED
  BY <1>1, <1>2, <1>3, <1>4, CalmCases, Zenon DEF Heard, Moves

LEMMA HeardInit ==
    ASSUME Init
    PROVE  Heard
<1>1. Confirmed
  BY ConfirmedInit
<1>2. /\ poke = NoPoke /\ replica = 0 /\ log = << >>
      /\ tab = [c \in Clients |-> Blank] /\ conn = [c \in Clients |-> NoConnection]
  BY DEF Init
<1>3. /\ Blank.buffer = 0 /\ Blank.received = 0 /\ Blank.tracked = 0
      /\ NoConnection.live = FALSE /\ NoConnection.ws = 0
      /\ \A c \in Clients : NoPoke.ws[c] = 0
  BY DEF Blank, NoConnection, NoPoke, NoMutations
<1>4. \A c \in Clients : Count(log, 0, c) = 0
  BY CountZero
<1>5. \A c \in Clients : Hears(log, replica, poke, c, tab[c], conn[c])
  BY <1>2, <1>3, <1>4 DEF Hears
<1> QED
  BY <1>1, <1>2, <1>5 DEF Heard

\* If all view-syncers of a client group read one replica, a tab has heard of all
\* that its connection, its poke buffer and the poke on its way hold, and of no
\* more than that replica does (zero-client zero-poke-handler.ts, mutation-tracker.ts).
THEOREM HeardTheorem ==
    ASSUME SharedReplica
    PROVE  Spec => []Heard
<1>1. Init => Heard
  BY HeardInit
<1>2. Heard /\ Confirmed' /\ [Next]_vars => Heard'
  BY HeardHolds
<1> QED
  BY <1>1, <1>2, ConfirmedTheorem, PTL DEF Spec

\* If all view-syncers of a client group read one replica, the last mutation ID
\* a tab is told of does not go back, though it learns of it from pokes that end,
\* that are cut off and that are started again (mutation-tracker.ts lmidAdvanced).
THEOREM LmidTheorem ==
    ASSUME SharedReplica
    PROVE  Spec => []LmidNeverRegresses
<1>1. ASSUME Heard
      PROVE  LmidNeverRegresses
  <2>1. ASSUME NEW c \in Clients
        PROVE  /\ tab[c].received >= tab[c].tracked
               /\ tab[c].buffer # 0 => Lmid(tab[c].buffer, c) >= tab[c].tracked
    <3>1. /\ Hears(log, replica, poke, c, tab[c], conn[c])
          /\ tab[c].received \in Nat /\ tab[c].tracked \in Nat
          /\ Count(log, tab[c].buffer, c) \in Nat
      BY <1>1, Bounds, CountBound DEF Heard
    <3>2. /\ tab[c].tracked <= tab[c].received
          /\ tab[c].buffer # 0 => tab[c].tracked <= Count(log, tab[c].buffer, c)
      BY <3>1 DEF Hears
    <3>3. Lmid(tab[c].buffer, c) = Count(log, tab[c].buffer, c)
      BY LmidIsCount
    <3> QED
      BY <3>1, <3>2, <3>3
  <2> QED
    BY <2>1 DEF LmidNeverRegresses
<1> QED
  BY <1>1, HeardTheorem, PTL


-----------------------------------------------------------------------------
(* The mutations that are under way, and who may go first. *)

\* What a push holds, what the first i pushes hold, what the first i groups of
\* a queue hold, and what waits there for a connection.
Held(b) == {b[j] : j \in 1..Len(b)}
Taken(t, i) == UNION {Held(t[k]) : k \in 1..i}
Queued(q, i) == UNION {Held(q[k].muts) : k \in 1..i}
Joins(g, c, w) == g.client = c /\ g.ws = w
Joined(q, c, w) == UNION {Held(q[k].muts) : k \in {j \in 1..Len(q) : Joins(q[j], c, w)}}

\* With the clients table at n, a mutation is no more than the next one of its
\* client, or the one before it goes first.
Before(m) == [client |-> m.client, id |-> m.id - 1]
Ready(n, m, K) == m.id <= n[m.client] + 1 \/ Before(m) \in K
Led(n, b, K) == \A j \in 1..Len(b) : Ready(n, b[j], K \cup {b[i] : i \in 1..(j - 1)})

\* What a pusher works on, what it has taken and what is queued is in order.
Settled(n, K) == \A m \in K : m.id <= n[m.client]
Past(r) == {r.muts[j] : j \in 1..r.done}
Lined(n, r, t, q) ==
    /\ Settled(n, Past(r))
    /\ Led(n, r.muts, {})
    /\ \A i \in 1..Len(t) : Led(n, t[i], Held(r.muts) \cup Taken(t, i - 1))
    /\ \A i \in 1..Len(q) :
          Led(n, q[i].muts, Held(r.muts) \cup Taken(t, Len(t)) \cup Queued(q, i - 1))
    /\ \A i, k \in 1..Len(q) : Joins(q[i], q[k].client, q[k].ws) => i = k

\* What a connection has sent of each client is done or with its pusher.
Sends(n, s, r, t, mine) ==
    \A d \in Clients : s[d] <= n[d]
        \/ [client |-> d, id |-> s[d]] \in Held(r.muts) \cup Taken(t, Len(t)) \cup mine

\* A pusher that rests has nothing to do.
Idle(r, t, q) == r = Resting => t = << >> /\ q = << >>

Queues ==
    /\ \A p \in Pushers : Lined(lmids, request[p], pushes[p], queue[p])
    /\ Settled(lmids, Past(request[Orphan])) /\ Led(lmids, request[Orphan].muts, {})

Senders ==
    \A c \in Clients : conn[c].live =>
        LET p == conn[c].pusher IN
        Sends(lmids, tab[c].sent, request[p], pushes[p], Joined(queue[p], c, conn[c].ws))

\* The pushers that connections have run; the others do nothing.
Serves ==
    /\ broken \in BOOLEAN
    /\ alive \subseteq Pushers /\ current \in alive \cup {None}
    /\ \A c \in Clients : conn[c].pusher \in alive \cup {None}
    /\ \A p \in Pushers : Idle(request[p], pushes[p], queue[p])
    /\ \A p \in Pushers \ alive : request[p] = Resting

InLine ==
    /\ Confirmed
    /\ Serves
    /\ ~broken => Queues /\ Senders


Mutation == [client : Clients, id : Nat]

\* What is in K has been done by n, or is in L as well.
Covered(n, K, L) == \A k \in K : k \in L \/ k.id <= n[k.client]

Grows(n, n2) ==
    n \in [Clients -> Nat] /\ n2 \in [Clients -> Nat] /\ \A c \in Clients : n[c] <= n2[c]

\* A mutation stays ready when those before it are done.
LEMMA ReadyGrows ==
    ASSUME NEW n, NEW n2, Grows(n, n2), NEW m \in Mutation, NEW K, NEW L,
           Covered(n2, K, L), Ready(n, m, K)
    PROVE  Ready(n2, m, L)
<1>1. n[m.client] \in Nat /\ n2[m.client] \in Nat /\ n[m.client] <= n2[m.client] /\ m.id \in Nat
  BY DEF Grows, Mutation
<1>2. CASE m.id <= n[m.client] + 1
  BY <1>1, <1>2 DEF Ready
<1>3. CASE Before(m) \in K
  <2>1. Before(m) \in L \/ Before(m).id <= n2[Before(m).client]
    BY <1>3 DEF Covered
  <2>2. Before(m).id = m.id - 1 /\ Before(m).client = m.client
    BY DEF Before
  <2> QED
    BY <1>1, <2>1, <2>2 DEF Ready
<1> QED
  BY <1>2, <1>3 DEF Ready

LEMMA LedGrows ==
    ASSUME NEW n, NEW n2, Grows(n, n2), NEW b \in Seq(Mutation), NEW K, NEW L,
           Covered(n2, K, L), Led(n, b, K)
    PROVE  Led(n2, b, L)
<1> SUFFICES ASSUME NEW j \in 1..Len(b)
             PROVE  Ready(n2, b[j], L \cup {b[i] : i \in 1..(j - 1)})
  BY DEF Led
<1> DEFINE P == {b[i] : i \in 1..(j - 1)}
<1>1. b[j] \in Mutation
  BY ElementOfSeq
<1>2. Ready(n, b[j], K \cup P)
  BY DEF Led
<1> HIDE DEF P
<1>3. Covered(n2, K \cup P, L \cup P)
  BY DEF Covered
<1>4. Ready(n2, b[j], L \cup P)
  BY <1>1, <1>2, <1>3, ReadyGrows
<1> QED
  BY <1>4 DEF P

\* The pushes after the first one.
LEMMA TakenTail ==
    ASSUME NEW M, NEW u \in Seq(Batch(M)), u # << >>
    PROVE  /\ Taken(u, 0) = {}
           /\ Head(u) = u[1] /\ Head(u) \in Batch(M) /\ Tail(u) \in Seq(Batch(M))
           /\ Len(u) \in Nat /\ Len(Tail(u)) = Len(u) - 1 /\ Len(u) >= 1
           /\ \A i \in 1..Len(Tail(u)) : Tail(u)[i] = u[i + 1]
           /\ \A i \in 0..Len(Tail(u)) : Taken(u, i + 1) \subseteq Held(Head(u)) \cup Taken(Tail(u), i)
<1>1. /\ Head(u) = u[1] /\ Head(u) \in Batch(M) /\ Tail(u) \in Seq(Batch(M))
      /\ Len(u) \in Nat /\ Len(Tail(u)) = Len(u) - 1 /\ Len(u) >= 1
      /\ \A i \in 1..Len(Tail(u)) : Tail(u)[i] = u[i + 1]
  <2>1. Len(u) \in Nat /\ Len(u) # 0
    BY EmptySeq, LenProperties
  <2> QED
    BY <2>1, HeadTailProperties
<1>2. Taken(u, 0) = {}
  BY DEF Taken
<1>3. ASSUME NEW i \in 0..Len(Tail(u)), NEW m \in Taken(u, i + 1)
      PROVE  m \in Held(Head(u)) \cup Taken(Tail(u), i)
  <2>1. PICK k \in 1..(i + 1) : m \in Held(u[k])
    BY DEF Taken
  <2>2. CASE k = 1
    BY <1>1, <2>1, <2>2
  <2>3. CASE k # 1
    <3>1. k - 1 \in 1..i /\ k - 1 \in 1..Len(Tail(u)) /\ (k - 1) + 1 = k
      BY <1>1, <2>3
    <3>2. Tail(u)[k - 1] = u[k]
      BY <1>1, <3>1
    <3> QED
      BY <2>1, <3>1, <3>2 DEF Taken
  <2> QED
    BY <2>2, <2>3
<1> QED
  BY <1>1, <1>2, <1>3

\* When a request is done, the next push is in order, and so are those after it.
LEMMA NextLed ==
    ASSUME NEW n, NEW n2, Grows(n, n2), NEW H, Settled(n2, H),
           NEW u \in Seq(Batch(Mutation)), u # << >>,
           \A i \in 1..Len(u) : Led(n, u[i], H \cup Taken(u, i - 1))
    PROVE  /\ Led(n2, Head(u), {})
           /\ \A i \in 1..Len(Tail(u)) :
                 Led(n2, Tail(u)[i], Held(Head(u)) \cup Taken(Tail(u), i - 1))
<1>1. /\ Taken(u, 0) = {}
      /\ Head(u) = u[1] /\ Tail(u) \in Seq(Batch(Mutation))
      /\ Len(u) \in Nat /\ Len(Tail(u)) = Len(u) - 1 /\ Len(u) >= 1
      /\ \A i \in 1..Len(Tail(u)) : Tail(u)[i] = u[i + 1]
      /\ \A i \in 0..Len(Tail(u)) : Taken(u, i + 1) \subseteq Held(Head(u)) \cup Taken(Tail(u), i)
  BY TakenTail
<1>2. \A i \in 1..Len(u) : u[i] \in Seq(Mutation)
  BY ElementOfSeq DEF Batch
<1>3. Led(n2, u[1], {})
  <2>1. 1 \in 1..Len(u) /\ 1 - 1 = 0
    BY <1>1
  <2>2. Led(n, u[1], H \cup Taken(u, 0)) /\ u[1] \in Seq(Mutation)
    BY <1>2, <2>1
  <2>3. Covered(n2, H \cup Taken(u, 0), {})
    BY <1>1 DEF Covered, Settled
  <2> QED
    BY <2>2, <2>3, LedGrows
<1>4. ASSUME NEW i \in 1..Len(Tail(u))
      PROVE  Led(n2, Tail(u)[i], Held(Head(u)) \cup Taken(Tail(u), i - 1))
  <2>1. i + 1 \in 1..Len(u) /\ (i + 1) - 1 = i /\ i - 1 \in 0..Len(Tail(u)) /\ (i - 1) + 1 = i
    BY <1>1
  <2>2. Led(n, u[i + 1], H \cup Taken(u, i)) /\ u[i + 1] \in Seq(Mutation) /\ Tail(u)[i] = u[i + 1]
    BY <1>1, <1>2, <2>1
  <2>3. Taken(u, i) \subseteq Held(Head(u)) \cup Taken(Tail(u), i - 1)
    BY <1>1, <2>1
  <2>4. Covered(n2, H \cup Taken(u, i), Held(Head(u)) \cup Taken(Tail(u), i - 1))
    BY <2>3 DEF Covered, Settled
  <2> QED
    BY <2>2, <2>4, LedGrows
<1> QED
  BY <1>1, <1>3, <1>4


\* A queue that is combined is in the order in which it waited.
LEMMA CombinedTaken ==
    ASSUME NEW q \in Seq(Group(Mutation))
    PROVE  /\ Len(Combined(q)) = Len(q) /\ Len(q) \in Nat
           /\ \A i \in 1..Len(q) : Combined(q)[i] = q[i].muts /\ q[i].muts \in Seq(Mutation)
           /\ \A i \in 0..Len(q) : Taken(Combined(q), i) = Queued(q, i)
<1> DEFINE u == Combined(q)
<1>1. Len(q) \in Nat /\ DOMAIN q = 1..Len(q)
  BY LenProperties
<1>2. u \in Seq(Batch(Mutation)) /\ DOMAIN u = 1..Len(q) /\ \A i \in 1..Len(q) : u[i] = q[i].muts
  BY <1>1, CombinedKeeps DEF Combined
<1>3. Len(u) = Len(q)
  <2> HIDE DEF u
  <2> QED
    BY <1>1, <1>2, LenProperties
<1>4. ASSUME NEW i \in 1..Len(q)
      PROVE  q[i].muts \in Seq(Mutation)
  <2>1. q[i] \in Group(Mutation)
    BY ElementOfSeq
  <2> QED
    BY <2>1 DEF Group, Batch
<1>5. ASSUME NEW i \in 0..Len(q)
      PROVE  Taken(u, i) = Queued(q, i)
  <2>1. \A k \in 1..i : u[k] = q[k].muts
    BY <1>1, <1>2
  <2> HIDE DEF u
  <2>2. \A m : m \in Taken(u, i) <=> \E k \in 1..i : m \in Held(u[k])
    BY DEF Taken
  <2>3. \A m : m \in Queued(q, i) <=> \E k \in 1..i : m \in Held(q[k].muts)
    BY DEF Queued
  <2> QED
    BY <2>1, <2>2, <2>3
<1> QED
  BY <1>1, <1>2, <1>3, <1>4, <1>5

LEMMA SendsGrows ==
    ASSUME NEW n, NEW n2, Grows(n, n2), NEW s \in [Clients -> Nat],
           NEW r, NEW t, NEW mine, NEW r2, NEW t2, NEW mine2,
           Covered(n2, Held(r.muts) \cup Taken(t, Len(t)) \cup mine,
                   Held(r2.muts) \cup Taken(t2, Len(t2)) \cup mine2),
           Sends(n, s, r, t, mine)
    PROVE  Sends(n2, s, r2, t2, mine2)
<1> SUFFICES ASSUME NEW d \in Clients
             PROVE  s[d] <= n2[d] \/ [client |-> d, id |-> s[d]] \in
                        Held(r2.muts) \cup Taken(t2, Len(t2)) \cup mine2
  BY DEF Sends
<1>1. s[d] \in Nat /\ n[d] \in Nat /\ n2[d] \in Nat /\ n[d] <= n2[d]
  BY DEF Grows
<1> DEFINE m == [client |-> d, id |-> s[d]]
<1>2. s[d] <= n[d] \/ m \in Held(r.muts) \cup Taken(t, Len(t)) \cup mine
  BY DEF Sends
<1>3. CASE s[d] <= n[d]
  BY <1>1, <1>3
<1>4. CASE m \in Held(r.muts) \cup Taken(t, Len(t)) \cup mine
  <2>1. m \in Held(r2.muts) \cup Taken(t2, Len(t2)) \cup mine2 \/ m.id <= n2[m.client]
    BY <1>4 DEF Covered
  <2>2. m.id = s[d] /\ m.client = d
    OBVIOUS
  <2> QED
    BY <2>1, <2>2
<1> QED
  BY <1>2, <1>3, <1>4

\* Pushers keep their pushes in order, and what connections have sent stays
\* with them until it is done.
Onward(n, n2, r, t, q, r2, t2, q2) ==
    /\ Lined(n, r, t, q) => Lined(n2, r2, t2, q2)
    /\ \A s \in [Clients -> Nat] : \A c, w :
          Sends(n, s, r, t, Joined(q, c, w)) => Sends(n2, s, r2, t2, Joined(q2, c, w))

\* A pusher's request goes on, or is sent once more.
LEMMA OnwardSame ==
    ASSUME NEW n, NEW n2, Grows(n, n2), NEW r \in Request(Mutation), NEW r2,
           NEW t \in Seq(Batch(Mutation)), NEW q \in Seq(Group(Mutation)),
           r2.muts = r.muts, Settled(n2, Past(r2))
    PROVE  Onward(n, n2, r, t, q, r2, t, q)
<1>1. /\ r.muts \in Seq(Mutation)
      /\ \A i \in 1..Len(t) : t[i] \in Seq(Mutation)
      /\ \A i \in 1..Len(q) : q[i].muts \in Seq(Mutation)
  BY ElementOfSeq, CombinedTaken DEF Request, Batch
<1>2. \A K : Covered(n2, K, K)
  BY DEF Covered
<1>3. ASSUME Lined(n, r, t, q)
      PROVE  Lined(n2, r2, t, q)
  <2>1. Led(n2, r.muts, {})
    BY <1>1, <1>2, <1>3, LedGrows DEF Lined
  <2>2. ASSUME NEW i \in 1..Len(t)
        PROVE  Led(n2, t[i], Held(r.muts) \cup Taken(t, i - 1))
    <3>1. PICK K : K = Held(r.muts) \cup Taken(t, i - 1)
      OBVIOUS
    <3>2. Led(n, t[i], K) /\ t[i] \in Seq(Mutation)
      BY <1>1, <1>3, <3>1 DEF Lined
    <3>3. Led(n2, t[i], K)
      BY <1>2, <3>2, LedGrows
    <3> QED
      BY <3>1, <3>3
  <2>3. ASSUME NEW i \in 1..Len(q)
        PROVE  Led(n2, q[i].muts, Held(r.muts) \cup Taken(t, Len(t)) \cup Queued(q, i - 1))
    <3>1. PICK K : K = Held(r.muts) \cup Taken(t, Len(t)) \cup Queued(q, i - 1)
      OBVIOUS
    <3>2. Led(n, q[i].muts, K) /\ q[i].muts \in Seq(Mutation)
      BY <1>1, <1>3, <3>1 DEF Lined
    <3>3. Led(n2, q[i].muts, K)
      BY <1>2, <3>2, LedGrows
    <3> QED
      BY <3>1, <3>3
  <2> QED
    BY <1>3, <2>1, <2>2, <2>3 DEF Lined
<1>4. ASSUME NEW s \in [Clients -> Nat], NEW c, NEW w, Sends(n, s, r, t, Joined(q, c, w))
      PROVE  Sends(n2, s, r2, t, Joined(q, c, w))
  <2> DEFINE K == Held(r.muts) \cup Taken(t, Len(t)) \cup Joined(q, c, w)
  <2>1. Covered(n2, K, K) /\ K = Held(r2.muts) \cup Taken(t, Len(t)) \cup Joined(q, c, w)
    BY <1>2
  <2> QED
    BY <1>4, <2>1, SendsGrows
<1> QED
  BY <1>3, <1>4 DEF Onward

\* run(): a pusher goes on to its next push.
GoNext(t, q) == IF t = << >> THEN Combined(q) ELSE t
GoRequest(u) == IF u = << >> THEN Resting ELSE Start(Head(u))
GoTaken(u) == IF u = << >> THEN << >> ELSE Tail(u)
GoQueue(t, q) == IF t = << >> THEN << >> ELSE q

LEMMA EmptyLined ==
    ASSUME NEW n, NEW t, NEW q, t = << >>, q = << >>
    PROVE  Lined(n, Resting, t, q)
<1>1. Len(t) = 0 /\ Len(q) = 0 /\ Resting.muts = << >> /\ Resting.done = 0 /\ Len(Resting.muts) = 0
  BY EmptySeq DEF Resting
<1> QED
  BY <1>1 DEF Lined, Led, Past, Settled


\* A pusher whose request is done goes on.
LEMMA LinedGo ==
    ASSUME NEW n, NEW n2, Grows(n, n2), NEW r, Settled(n2, Held(r.muts)),
           NEW t \in Seq(Batch(Mutation)), NEW q \in Seq(Group(Mutation)),
           NEW u, u = GoNext(t, q), Lined(n, r, t, q)
    PROVE  Lined(n2, GoRequest(u), GoTaken(u), GoQueue(t, q))
<1> DEFINE H == Held(r.muts)
<1>1. /\ Len(Combined(q)) = Len(q) /\ Len(q) \in Nat
      /\ \A i \in 1..Len(q) : Combined(q)[i] = q[i].muts /\ q[i].muts \in Seq(Mutation)
      /\ \A i \in 0..Len(q) : Taken(Combined(q), i) = Queued(q, i)
      /\ Combined(q) \in Seq(Batch(Mutation))
  BY CombinedTaken, CombinedKeeps
<1>2. u \in Seq(Batch(Mutation))
  BY <1>1 DEF GoNext
<1>3. \A i \in 1..Len(u) : Led(n, u[i], H \cup Taken(u, i - 1))
  <2>1. CASE t # << >>
    BY <2>1 DEF GoNext, Lined
  <2>2. CASE t = << >>
    <3> SUFFICES ASSUME NEW i \in 1..Len(u)
                 PROVE  Led(n, u[i], H \cup Taken(u, i - 1))
      OBVIOUS
    <3>1. u = Combined(q) /\ Len(t) = 0 /\ Taken(t, Len(t)) = {}
      BY <2>2, EmptySeq DEF GoNext, Taken
    <3>2. i \in 1..Len(q) /\ u[i] = q[i].muts
      BY <1>1, <3>1
    <3>3. i - 1 \in 0..Len(q)
      BY <1>1, <3>2
    <3>4. Taken(u, i - 1) = Queued(q, i - 1)
      BY <1>1, <3>1, <3>3
    <3>5. Led(n, q[i].muts, H \cup Taken(t, Len(t)) \cup Queued(q, i - 1))
      BY <3>2 DEF Lined
    <3>6. H \cup Taken(t, Len(t)) \cup Queued(q, i - 1) = H \cup Taken(u, i - 1)
      BY <3>1, <3>4
    <3> QED
      BY <3>2, <3>5, <3>6
  <2> QED
    BY <2>1, <2>2
<1>4. CASE u = << >>
  <2>1. t = << >>
    BY <1>4 DEF GoNext
  <2> QED
    BY <1>4, <2>1, EmptyLined DEF GoRequest, GoTaken, GoQueue
<1>5. CASE u # << >>
  <2>1. /\ Led(n2, Head(u), {})
        /\ \A i \in 1..Len(Tail(u)) :
              Led(n2, Tail(u)[i], Held(Head(u)) \cup Taken(Tail(u), i - 1))
    <3> HIDE DEF H
    <3>1. Settled(n2, H)
      BY DEF H
    <3> QED
      BY <1>2, <1>3, <1>5, <3>1, NextLed
  <2>2. /\ GoRequest(u).muts = Head(u) /\ GoRequest(u).done = 0 /\ GoTaken(u) = Tail(u)
    BY <1>5 DEF GoRequest, GoTaken, Start
  <2>3. Past(GoRequest(u)) = {}
    BY <2>2 DEF Past
  <2>4. ASSUME t # << >>, NEW i \in 1..Len(q)
        PROVE  Led(n2, q[i].muts, Held(Head(u)) \cup Taken(Tail(u), Len(Tail(u))) \cup Queued(q, i - 1))
    <3>1. u = t
      BY <2>4 DEF GoNext
    <3>2. PICK K : K = H \cup Taken(t, Len(t)) \cup Queued(q, i - 1)
      OBVIOUS
    <3>3. PICK L : L = Held(Head(u)) \cup Taken(Tail(u), Len(Tail(u))) \cup Queued(q, i - 1)
      OBVIOUS
    <3>4. Led(n, q[i].muts, K) /\ q[i].muts \in Seq(Mutation)
      BY <1>1, <2>4, <3>2 DEF Lined
    <3>5. Taken(t, Len(t)) \subseteq Held(Head(u)) \cup Taken(Tail(u), Len(Tail(u)))
      <4>1. /\ Len(u) \in Nat /\ Len(Tail(u)) = Len(u) - 1 /\ Len(u) >= 1
            /\ \A k \in 0..Len(Tail(u)) : Taken(u, k + 1) \subseteq Held(Head(u)) \cup Taken(Tail(u), k)
        BY <1>2, <1>5, TakenTail
      <4>2. Len(Tail(u)) \in 0..Len(Tail(u)) /\ Len(Tail(u)) + 1 = Len(u)
        BY <4>1
      <4> QED
        BY <3>1, <4>1, <4>2
    <3>6. Covered(n2, K, L)
      BY <3>2, <3>3, <3>5 DEF Covered, Settled
    <3> QED
      BY <3>3, <3>4, <3>6, LedGrows
  <2>5. \A i, k \in 1..Len(q) : Joins(q[i], q[k].client, q[k].ws) => i = k
    BY DEF Lined
  <2>6. CASE t = << >>
    <3>1. GoQueue(t, q) = << >> /\ Len(GoQueue(t, q)) = 0
      BY <2>6, EmptySeq DEF GoQueue
    <3>2. Settled(n2, Past(GoRequest(u)))
      BY <2>3 DEF Settled
    <3>3. \A i \in 1..Len(GoQueue(t, q)) : FALSE
      BY <3>1
    <3> QED
      BY <2>1, <2>2, <3>2, <3>3, Zenon DEF Lined
  <2>7. CASE t # << >>
    <3>1. GoQueue(t, q) = q
      BY <2>7 DEF GoQueue
    <3> QED
      BY <2>1, <2>2, <2>3, <2>4, <2>5, <2>7, <3>1 DEF Lined, Settled
  <2> QED
    BY <2>6, <2>7
<1> QED
  BY <1>4, <1>5

LEMMA GoIdle ==
    ASSUME NEW t \in Seq(Batch(Mutation)), NEW q \in Seq(Group(Mutation)),
           NEW u, u = GoNext(t, q)
    PROVE  Idle(GoRequest(u), GoTaken(u), GoQueue(t, q))
<1>1. u \in Seq(Batch(Mutation))
  BY CombinedKeeps DEF GoNext
<1>2. CASE u = << >>
  <2>1. t = << >>
    BY <1>2 DEF GoNext
  <2> QED
    BY <1>2, <2>1 DEF Idle, GoTaken, GoQueue
<1>3. CASE u # << >>
  <2>1. Head(u) # << >>
    BY <1>1, <1>3, TakenTail DEF Batch
  <2> QED
    BY <1>3, <2>1 DEF Idle, GoRequest, Start, Resting
<1> QED
  BY <1>2, <1>3

LEMMA OnwardGo ==
    ASSUME NEW n, NEW n2, Grows(n, n2), NEW r, Settled(n2, Held(r.muts)),
           NEW t \in Seq(Batch(Mutation)), NEW q \in Seq(Group(Mutation)),
           NEW u, u = GoNext(t, q)
    PROVE  /\ Onward(n, n2, r, t, q, GoRequest(u), GoTaken(u), GoQueue(t, q))
           /\ Idle(GoRequest(u), GoTaken(u), GoQueue(t, q))
<1>1. /\ Len(Combined(q)) = Len(q) /\ Len(q) \in Nat
      /\ Taken(Combined(q), Len(q)) = Queued(q, Len(q))
      /\ Combined(q) \in Seq(Batch(Mutation))
  <2>1. Len(q) \in 0..Len(q)
    BY LenProperties
  <2> QED
    BY <2>1, CombinedTaken, CombinedKeeps
<1>2. u \in Seq(Batch(Mutation))
  BY <1>1 DEF GoNext
<1>3. Idle(GoRequest(u), GoTaken(u), GoQueue(t, q))
  BY GoIdle
<1>4. ASSUME NEW c, NEW w
      PROVE  Taken(t, Len(t)) \cup Joined(q, c, w) \subseteq
                 Held(GoRequest(u).muts) \cup Taken(GoTaken(u), Len(GoTaken(u)))
                     \cup Joined(GoQueue(t, q), c, w)
  <2>1. Joined(q, c, w) \subseteq Queued(q, Len(q))
    BY DEF Joined, Queued
  <2>2. CASE u = << >>
    <3>1. t = << >> /\ Len(t) = 0 /\ Len(q) = 0
      BY <1>1, <2>2, EmptySeq DEF GoNext
    <3> QED
      BY <2>1, <3>1 DEF Taken, Queued
  <2>3. CASE u # << >>
    <3>1. GoRequest(u).muts = Head(u) /\ GoTaken(u) = Tail(u)
      BY <2>3 DEF GoRequest, GoTaken, Start
    <3>2. Taken(u, Len(u)) \subseteq Held(Head(u)) \cup Taken(Tail(u), Len(Tail(u)))
      <4>1. /\ Len(u) \in Nat /\ Len(Tail(u)) = Len(u) - 1 /\ Len(u) >= 1
            /\ \A k \in 0..Len(Tail(u)) : Taken(u, k + 1) \subseteq Held(Head(u)) \cup Taken(Tail(u), k)
        BY <1>2, <2>3, TakenTail
      <4>2. Len(Tail(u)) \in 0..Len(Tail(u)) /\ Len(Tail(u)) + 1 = Len(u)
        BY <4>1
      <4> QED
        BY <4>1, <4>2
    <3>3. CASE t = << >>
      <4>1. u = Combined(q) /\ Len(t) = 0 /\ Taken(t, Len(t)) = {}
        BY <3>3, EmptySeq DEF GoNext, Taken
      <4> QED
        BY <1>1, <2>1, <3>1, <3>2, <4>1
    <3>4. CASE t # << >>
      <4>1. u = t /\ GoQueue(t, q) = q
        BY <3>4 DEF GoNext, GoQueue
      <4> QED
        BY <3>1, <3>2, <4>1
    <3> QED
      BY <3>3, <3>4
  <2> QED
    BY <2>2, <2>3
<1>5. ASSUME NEW s \in [Clients -> Nat], NEW c, NEW w, Sends(n, s, r, t, Joined(q, c, w))
      PROVE  Sends(n2, s, GoRequest(u), GoTaken(u), Joined(GoQueue(t, q), c, w))
  <2>1. PICK r2, t2, q2 : r2 = GoRequest(u) /\ t2 = GoTaken(u) /\ q2 = GoQueue(t, q)
    OBVIOUS
  <2>2. Covered(n2, Held(r.muts) \cup Taken(t, Len(t)) \cup Joined(q, c, w),
                Held(r2.muts) \cup Taken(t2, Len(t2)) \cup Joined(q2, c, w))
    BY <1>4, <2>1 DEF Covered, Settled
  <2> QED
    BY <1>5, <2>1, <2>2, SendsGrows
<1>6. Lined(n, r, t, q) => Lined(n2, GoRequest(u), GoTaken(u), GoQueue(t, q))
  BY LinedGo
<1> QED
  BY <1>3, <1>5, <1>6 DEF Onward


-----------------------------------------------------------------------------
(* A mutation joins those that wait. *)

LEMMA LedAppend ==
    ASSUME NEW n, NEW b \in Seq(Mutation), NEW m \in Mutation, NEW K,
           Led(n, b, K), Ready(n, m, K \cup Held(b))
    PROVE  Led(n, Append(b, m), K)
<1> DEFINE a == Append(b, m)
<1>1. /\ Len(b) \in Nat /\ Len(a) = Len(b) + 1 /\ a[Len(b) + 1] = m
      /\ \A i \in 1..Len(b) : a[i] = b[i]
  BY AppendProperties, LenProperties
<1> HIDE DEF a
<1> SUFFICES ASSUME NEW j \in 1..Len(a)
             PROVE  Ready(n, a[j], K \cup {a[i] : i \in 1..(j - 1)})
  BY DEF Led, a
<1>2. {a[i] : i \in 1..(j - 1)} = {b[i] : i \in 1..(j - 1)}
  BY <1>1
<1>3. CASE j \in 1..Len(b)
  <2>1. Ready(n, b[j], K \cup {b[i] : i \in 1..(j - 1)})
    BY <1>3 DEF Led
  <2> QED
    BY <1>1, <1>2, <1>3, <2>1
<1>4. CASE j \notin 1..Len(b)
  <2>1. j = Len(b) + 1 /\ j - 1 = Len(b)
    BY <1>1, <1>4
  <2>2. {b[i] : i \in 1..(j - 1)} = Held(b)
    BY <2>1 DEF Held
  <2> QED
    BY <1>1, <1>2, <2>1, <2>2
<1> QED
  BY <1>3, <1>4

\* Where a mutation joins: a group that waits, or one behind them all.
JoinedAt(q, e, c, w, m, g) ==
    /\ Joins(q[g], c, w) /\ Len(e) = Len(q)
    /\ e[g].client = q[g].client /\ e[g].ws = q[g].ws /\ e[g].muts = Append(q[g].muts, m)
    /\ \A i \in 1..Len(q) : i # g => e[i] = q[i]

JoinedLast(q, e, c, w, m) ==
    /\ \A i \in 1..Len(q) : ~Joins(q[i], c, w) /\ e[i] = q[i]
    /\ Len(e) = Len(q) + 1
    /\ Joins(e[Len(e)], c, w) /\ e[Len(e)].muts = <<m>>

Apart(q) == \A i, k \in 1..Len(q) : Joins(q[i], q[k].client, q[k].ws) => i = k

LEMMA EnqueuedWays ==
    ASSUME NEW q \in Seq(Group(Mutation)), NEW c \in Clients, NEW m \in Mutation,
           NEW e, e = Enqueued(q, c, m), conn[c].ws \in Nat, Apart(q)
    PROVE  \/ \E g \in 1..Len(q) : JoinedAt(q, e, c, conn[c].ws, m, g)
           \/ JoinedLast(q, e, c, conn[c].ws, m)
<1> DEFINE w == conn[c].ws
<1>1. Len(q) \in Nat /\ DOMAIN q = 1..Len(q)
  BY LenProperties
<1>2. e \in Seq(Group(Mutation))
  BY EnqueuedKeeps
<1>3. ASSUME NEW g \in 1..Len(q), Joins(q[g], c, w)
      PROVE  JoinedAt(q, e, c, w, m, g)
  <2>1. e = [i \in DOMAIN q |-> IF q[i].client = c /\ q[i].ws = conn[c].ws
                                THEN [q[i] EXCEPT !.muts = Append(@, m)] ELSE q[i]]
    BY <1>1, <1>3 DEF Enqueued, Joins
  <2>2. Len(e) = Len(q)
    <3>1. DOMAIN e = 1..Len(q)
      BY <1>1, <2>1
    <3> QED
      BY <1>1, <1>2, <3>1, LenProperties
  <2>3. ASSUME NEW i \in 1..Len(q), i # g
        PROVE  e[i] = q[i]
    <3>1. ~Joins(q[i], c, w)
      <4>1. Joins(q[i], c, w) => Joins(q[i], q[g].client, q[g].ws)
        BY <1>3 DEF Joins
      <4> QED
        BY <2>3, <4>1 DEF Apart
    <3> QED
      BY <1>1, <2>1, <3>1 DEF Joins
  <2>4. e[g] = [q[g] EXCEPT !.muts = Append(@, m)] /\ q[g] \in Group(Mutation)
    BY <1>1, <1>3, <2>1, ElementOfSeq DEF Joins
  <2>5. e[g].client = q[g].client /\ e[g].ws = q[g].ws /\ e[g].muts = Append(q[g].muts, m)
    BY <2>4 DEF Group
  <2> QED
    BY <1>3, <2>2, <2>3, <2>5 DEF JoinedAt
<1>4. ASSUME \A g \in 1..Len(q) : ~Joins(q[g], c, w)
      PROVE  JoinedLast(q, e, c, w, m)
  <2> DEFINE a == [client |-> c, ws |-> conn[c].ws, muts |-> <<m>>]
  <2>1. e = Append(q, a)
    BY <1>1, <1>4 DEF Enqueued, Joins
  <2>2. a \in Group(Mutation) /\ Joins(a, c, w) /\ a.muts = <<m>>
    BY DEF Group, Batch, Joins
  <2> HIDE DEF a
  <2>3. Len(e) = Len(q) + 1 /\ e[Len(q) + 1] = a /\ \A i \in 1..Len(q) : e[i] = q[i]
    BY <2>1, <2>2, AppendProperties
  <2> QED
    BY <1>4, <2>2, <2>3 DEF JoinedLast
<1> QED
  BY <1>3, <1>4

LEMMA EnqueuedHolds ==
    ASSUME NEW q \in Seq(Group(Mutation)), NEW e, NEW c, NEW w, NEW m \in Mutation,
           (\E g \in 1..Len(q) : JoinedAt(q, e, c, w, m, g)) \/ JoinedLast(q, e, c, w, m)
    PROVE  /\ \A i \in 1..Len(q) : Held(q[i].muts) \subseteq Held(e[i].muts)
           /\ \A i \in 1..Len(q) : e[i].client = q[i].client /\ e[i].ws = q[i].ws
           /\ Len(q) \in Nat /\ Len(e) \in Nat /\ Len(q) <= Len(e)
           /\ m \in Joined(e, c, w)
<1>1. Len(q) \in Nat /\ \A i \in 1..Len(q) : q[i].muts \in Seq(Mutation)
  BY CombinedTaken
<1>2. ASSUME NEW g \in 1..Len(q), JoinedAt(q, e, c, w, m, g)
      PROVE  /\ Held(q[g].muts) \subseteq Held(e[g].muts) /\ m \in Held(e[g].muts)
             /\ Joins(e[g], c, w)
  <2>1. q[g].muts \in Seq(Mutation) /\ e[g].muts = Append(q[g].muts, m) /\ Joins(e[g], c, w)
    BY <1>1, <1>2 DEF JoinedAt, Joins
  <2>2. PICK b, a : b = q[g].muts /\ a = e[g].muts
    OBVIOUS
  <2>3. /\ Len(b) \in Nat /\ Len(a) = Len(b) + 1 /\ a[Len(b) + 1] = m
        /\ \A i \in 1..Len(b) : a[i] = b[i]
    BY <2>1, <2>2, AppendProperties, LenProperties
  <2>4. Held(b) \subseteq Held(a) /\ m \in Held(a)
    BY <2>3 DEF Held
  <2> QED
    BY <2>1, <2>2, <2>4
<1>3. CASE \E g \in 1..Len(q) : JoinedAt(q, e, c, w, m, g)
  <2>1. PICK g \in 1..Len(q) : JoinedAt(q, e, c, w, m, g)
    BY <1>3
  <2>2. Len(e) = Len(q) /\ \A i \in 1..Len(q) : i # g => e[i] = q[i]
    BY <2>1 DEF JoinedAt
  <2>3. e[g].client = q[g].client /\ e[g].ws = q[g].ws
    BY <2>1 DEF JoinedAt
  <2>4. /\ Held(q[g].muts) \subseteq Held(e[g].muts) /\ m \in Held(e[g].muts)
        /\ Joins(e[g], c, w)
    BY <1>2, <2>1
  <2>5. m \in Joined(e, c, w)
    BY <2>2, <2>4 DEF Joined
  <2> QED
    BY <1>1, <2>2, <2>3, <2>4, <2>5
<1>4. CASE JoinedLast(q, e, c, w, m)
  <2>1. /\ Len(e) = Len(q) + 1 /\ \A i \in 1..Len(q) : e[i] = q[i]
        /\ Joins(e[Len(e)], c, w) /\ e[Len(e)].muts = <<m>>
    BY <1>4 DEF JoinedLast
  <2>2. m \in Held(<<m>>)
    BY DEF Held
  <2>3. Len(e) \in 1..Len(e) /\ Len(e) \in Nat
    BY <1>1, <2>1
  <2>4. m \in Joined(e, c, w)
    BY <2>1, <2>2, <2>3 DEF Joined
  <2> QED
    BY <1>1, <2>1, <2>3, <2>4
<1> QED
  BY <1>3, <1>4


LEMMA QueuedGrows ==
    ASSUME NEW q, NEW e, NEW i, \A k \in 1..i : Held(q[k].muts) \subseteq Held(e[k].muts)
    PROVE  Queued(q, i) \subseteq Queued(e, i)
BY DEF Queued

\* What a connection sends joins in order: the one before it is done, or with
\* the pusher, or waits in the same group.
LEMMA LinedEnqueued ==
    ASSUME NEW n \in [Clients -> Nat], NEW r, NEW t, NEW q \in Seq(Group(Mutation)),
           NEW e, NEW c, NEW w, NEW m \in Mutation,
           (\E g \in 1..Len(q) : JoinedAt(q, e, c, w, m, g)) \/ JoinedLast(q, e, c, w, m),
           Ready(n, m, Held(r.muts) \cup Taken(t, Len(t)) \cup Joined(q, c, w)),
           Lined(n, r, t, q)
    PROVE  Lined(n, r, t, e)
<1>0. PICK B : B = Held(r.muts) \cup Taken(t, Len(t))
  OBVIOUS
<1>1. /\ Len(q) \in Nat /\ \A i \in 1..Len(q) : q[i].muts \in Seq(Mutation)
      /\ Grows(n, n)
  BY CombinedTaken DEF Grows
<1>2. /\ \A i \in 1..Len(q) : Held(q[i].muts) \subseteq Held(e[i].muts)
      /\ \A i \in 1..Len(q) : e[i].client = q[i].client /\ e[i].ws = q[i].ws
      /\ Len(e) \in Nat /\ Len(q) <= Len(e)
  BY EnqueuedHolds
<1>3. \A i \in 1..Len(q) : Led(n, q[i].muts, B \cup Queued(q, i - 1))
  BY <1>0 DEF Lined
<1>4. Ready(n, m, B \cup Joined(q, c, w)) /\ Apart(q)
  BY <1>0 DEF Lined, Apart
<1>5. ASSUME NEW i \in 1..Len(q), NEW L, L = B \cup Queued(e, i - 1)
      PROVE  Led(n, q[i].muts, L)
  <2>1. \A k \in 1..(i - 1) : Held(q[k].muts) \subseteq Held(e[k].muts)
    <3>1. \A k \in 1..(i - 1) : k \in 1..Len(q)
      BY <1>1
    <3> QED
      BY <1>2, <3>1
  <2>2. Queued(q, i - 1) \subseteq Queued(e, i - 1)
    BY <2>1, QueuedGrows
  <2>3. PICK K : K = B \cup Queued(q, i - 1)
    OBVIOUS
  <2>4. Covered(n, K, L)
    BY <1>5, <2>2, <2>3 DEF Covered
  <2>5. Led(n, q[i].muts, K)
    BY <1>3, <2>3
  <2> QED
    BY <1>1, <2>4, <2>5, LedGrows
<1>6. ASSUME NEW i \in 1..Len(e)
      PROVE  Led(n, e[i].muts, B \cup Queued(e, i - 1))
  <2>1. PICK L : L = B \cup Queued(e, i - 1)
    OBVIOUS
  <2>2. ASSUME NEW g \in 1..Len(q), JoinedAt(q, e, c, w, m, g)
        PROVE  Led(n, e[i].muts, L)
    <3>1. /\ Joins(q[g], c, w) /\ Len(e) = Len(q) /\ e[g].muts = Append(q[g].muts, m)
          /\ \A k \in 1..Len(q) : k # g => e[k] = q[k]
      BY <2>2 DEF JoinedAt
    <3>2. i \in 1..Len(q) /\ Led(n, q[i].muts, L)
      BY <1>5, <2>1, <3>1
    <3>3. CASE i # g
      BY <3>1, <3>2, <3>3
    <3>4. CASE i = g
      <4>1. Joined(q, c, w) \subseteq Held(q[g].muts)
        <5>1. \A k \in 1..Len(q) : Joins(q[k], c, w) => k = g
          BY <1>4, <3>1 DEF Joins, Apart
        <5> QED
          BY <5>1 DEF Joined
      <4>2. Ready(n, m, L \cup Held(q[g].muts))
        BY <1>4, <2>1, <4>1 DEF Ready
      <4>3. Led(n, Append(q[g].muts, m), L)
        BY <1>1, <3>2, <3>4, <4>2, LedAppend
      <4> QED
        BY <3>1, <3>4, <4>3
    <3> QED
      BY <3>3, <3>4
  <2>3. ASSUME JoinedLast(q, e, c, w, m)
        PROVE  Led(n, e[i].muts, L)
    <3>1. /\ \A k \in 1..Len(q) : ~Joins(q[k], c, w) /\ e[k] = q[k]
          /\ Len(e) = Len(q) + 1 /\ e[Len(e)].muts = <<m>>
      BY <2>3 DEF JoinedLast
    <3>2. CASE i \in 1..Len(q)
      BY <1>5, <2>1, <3>1, <3>2
    <3>3. CASE i \notin 1..Len(q)
      <4>1. i = Len(e)
        BY <1>1, <3>1, <3>3
      <4>2. Joined(q, c, w) = {}
        BY <3>1 DEF Joined
      <4>3. Ready(n, m, L)
        BY <1>4, <2>1, <4>2 DEF Ready
      <4>4. ASSUME NEW j \in 1..Len(<<m>>)
            PROVE  Ready(n, <<m>>[j], L \cup {<<m>>[k] : k \in 1..(j - 1)})
        <5>1. <<m>>[j] = m
          BY <4>4
        <5> QED
          BY <4>3, <5>1 DEF Ready
      <4>5. Led(n, <<m>>, L)
        BY <4>4 DEF Led
      <4> QED
        BY <3>1, <4>1, <4>5
    <3> QED
      BY <3>2, <3>3
  <2> QED
    BY <2>1, <2>2, <2>3
<1>7. ASSUME NEW i \in 1..Len(e), NEW k \in 1..Len(e), Joins(e[i], e[k].client, e[k].ws)
      PROVE  i = k
  <2>1. ASSUME NEW g \in 1..Len(q), JoinedAt(q, e, c, w, m, g)
        PROVE  i = k
    <3>1. Len(e) = Len(q)
      BY <2>1 DEF JoinedAt
    <3>2. Joins(q[i], q[k].client, q[k].ws)
      BY <1>2, <1>7, <3>1 DEF Joins
    <3> QED
      BY <1>4, <3>1, <3>2 DEF Apart
  <2>2. ASSUME JoinedLast(q, e, c, w, m)
        PROVE  i = k
    <3>1. /\ \A j \in 1..Len(q) : ~Joins(e[j], c, w)
          /\ Len(e) = Len(q) + 1 /\ Joins(e[Len(e)], c, w)
      BY <2>2 DEF JoinedLast
    <3>2. CASE i \in 1..Len(q) /\ k \in 1..Len(q)
      <4>1. Joins(q[i], q[k].client, q[k].ws)
        BY <1>2, <1>7, <3>2 DEF Joins
      <4> QED
        BY <1>4, <3>2, <4>1 DEF Apart
    <3>3. CASE ~(i \in 1..Len(q) /\ k \in 1..Len(q))
      <4>1. (i = Len(e) \/ i \in 1..Len(q)) /\ (k = Len(e) \/ k \in 1..Len(q))
        BY <1>1, <3>1
      <4>2. Joins(e[i], c, w) <=> Joins(e[k], c, w)
        BY <1>7 DEF Joins
      <4> QED
        BY <3>1, <3>3, <4>1, <4>2
    <3> QED
      BY <3>2, <3>3
  <2> QED
    BY <2>1, <2>2
<1> QED
  BY <1>0, <1>6, <1>7 DEF Lined

LEMMA JoinedGrows ==
    ASSUME NEW q \in Seq(Group(Mutation)), NEW e, NEW c, NEW w, NEW m \in Mutation,
           (\E g \in 1..Len(q) : JoinedAt(q, e, c, w, m, g)) \/ JoinedLast(q, e, c, w, m)
    PROVE  /\ m \in Joined(e, c, w)
           /\ \A d, v : Joined(q, d, v) \subseteq Joined(e, d, v)
<1>1. /\ \A i \in 1..Len(q) : Held(q[i].muts) \subseteq Held(e[i].muts)
      /\ \A i \in 1..Len(q) : e[i].client = q[i].client /\ e[i].ws = q[i].ws
      /\ Len(q) \in Nat /\ Len(e) \in Nat /\ Len(q) <= Len(e)
      /\ m \in Joined(e, c, w)
  BY EnqueuedHolds
<1>2. ASSUME NEW d, NEW v, NEW x \in Joined(q, d, v)
      PROVE  x \in Joined(e, d, v)
  <2>1. PICK k \in 1..Len(q) : Joins(q[k], d, v) /\ x \in Held(q[k].muts)
    BY DEF Joined
  <2>2. k \in 1..Len(e) /\ Joins(e[k], d, v) /\ x \in Held(e[k].muts)
    BY <1>1, <2>1 DEF Joins
  <2> QED
    BY <2>2 DEF Joined
<1> QED
  BY <1>1, <1>2


-----------------------------------------------------------------------------
(* The steps. *)

LEMMA LineTypes ==
    ASSUME Confirmed
    PROVE  /\ lmids \in [Clients -> Nat] /\ Grows(lmids, lmids)
           /\ request[Orphan] \in Request(Mutation)
           /\ \A p \in Pushers : /\ request[p] \in Request(Mutation)
                                 /\ pushes[p] \in Seq(Batch(Mutation))
                                 /\ queue[p] \in Seq(Group(Mutation))
           /\ \A c \in Clients : /\ tab[c] \in Tab /\ tab[c].sent \in [Clients -> Nat]
                                 /\ conn[c] \in Connection /\ conn[c].live \in BOOLEAN
                                 /\ conn[c].live => conn[c].pusher \in Pushers
                                 /\ conn[c].ws \in Nat
<1>1. MadeOnly \subseteq Mutation
  BY DEF MadeOnly, Mutation
<1>2. UnderWayIn(Mutation, queue, pushes, request)
  BY <1>1, UnderWayGrows DEF Confirmed, Flow, UnderWay
<1>3. lmids \in [Clients -> Nat] /\ tab \in [Clients -> Tab] /\ conn \in [Clients -> Connection]
  BY DEF Confirmed, Flow, Logged, Kept
<1>4. Grows(lmids, lmids)
  BY <1>3 DEF Grows
<1>5. Orphan \in Handlers /\ Pushers \subseteq Handlers
  BY DEF Handlers
<1> QED
  BY <1>2, <1>3, <1>4, <1>5 DEF UnderWayIn, Tab, Connection

\* A connection stays with its pusher and what it has sent, or is gone.
Stays(t, u, cn, dn) ==
    /\ dn.pusher \in {cn.pusher, None}
    /\ dn.live => cn.live /\ dn.pusher = cn.pusher /\ dn.ws = cn.ws /\ u.sent = t.sent
Stay == \A c \in Clients : Stays(tab[c], tab'[c], conn[c], conn'[c])

Onwards ==
    \A p \in Pushers : Onward(lmids, lmids', request[p], pushes[p], queue[p],
                              request'[p], pushes'[p], queue'[p])

OrphanLed(n, r) == Settled(n, Past(r)) /\ Led(n, r.muts, {})

LEMMA LineGoesOn ==
    ASSUME InLine, Confirmed', Stay, broken' = FALSE => broken = FALSE /\ Onwards,
           broken' \in BOOLEAN, alive' = alive, current' = current,
           \A p \in Pushers : Idle(request'[p], pushes'[p], queue'[p]),
           \A p \in Pushers \ alive : request'[p] = Resting,
           broken' = FALSE => OrphanLed(lmids', request'[Orphan])
    PROVE  InLine'
<1>1. Serves'
  BY DEF InLine, Serves, Stay, Stays
<1>2. ASSUME broken' = FALSE
      PROVE  Queues' /\ Senders'
  <2>1. Queues /\ Senders /\ Onwards
    BY <1>2 DEF InLine
  <2>2. Queues'
    BY <1>2, <2>1 DEF Queues, Onwards, Onward, OrphanLed
  <2>3. ASSUME NEW c \in Clients, conn'[c].live
        PROVE  Sends(lmids', tab'[c].sent, request'[conn'[c].pusher], pushes'[conn'[c].pusher],
                     Joined(queue'[conn'[c].pusher], c, conn'[c].ws))
    <3>1. /\ conn[c].live /\ conn'[c].pusher = conn[c].pusher /\ conn'[c].ws = conn[c].ws
          /\ tab'[c].sent = tab[c].sent
      BY <2>3 DEF Stay, Stays
    <3>2. conn[c].pusher \in Pushers /\ tab[c].sent \in [Clients -> Nat]
      BY <3>1, LineTypes DEF InLine
    <3>3. Sends(lmids, tab[c].sent, request[conn[c].pusher], pushes[conn[c].pusher],
                Joined(queue[conn[c].pusher], c, conn[c].ws))
      BY <2>1, <3>1 DEF Senders
    <3> QED
      BY <2>1, <3>1, <3>2, <3>3 DEF Onwards, Onward
  <2> QED
    BY <2>2, <2>3 DEF Senders
<1> QED
  BY <1>1, <1>2 DEF InLine


LEMMA QuietLine ==
    ASSUME InLine, Confirmed', Stay, UNCHANGED <<db, server, broken>>
    PROVE  InLine'
<1>1. /\ lmids' = lmids /\ queue' = queue /\ pushes' = pushes /\ request' = request
      /\ alive' = alive /\ current' = current /\ broken' = broken
  BY DEF db, server
<1>2. ASSUME broken = FALSE
      PROVE  Onwards /\ OrphanLed(lmids, request[Orphan])
  <2>1. Queues
    BY <1>2 DEF InLine
  <2>2. ASSUME NEW p \in Pushers
        PROVE  Onward(lmids, lmids, request[p], pushes[p], queue[p], request[p], pushes[p], queue[p])
    <3>1. Settled(lmids, Past(request[p]))
      BY <2>1 DEF Queues, Lined
    <3> QED
      BY <3>1, LineTypes, OnwardSame DEF InLine
  <2> QED
    BY <1>1, <2>1, <2>2 DEF Onwards, Queues, OrphanLed
<1> QED
  BY <1>1, <1>2, LineGoesOn DEF InLine, Serves

LEMMA StaysWays ==
    ASSUME NEW t, NEW u, NEW cn \in Connection
    PROVE  /\ Stays(t, t, cn, cn)
           /\ Stays(t, u, cn, Cut(cn))
           /\ Stays(t, u, cn, Gone(cn))
           /\ ~cn.live => Stays(t, u, cn, cn) /\ Stays(t, u, cn, GivenUp(cn))
BY DEF Stays, Cut, Gone, GivenUp, Connection

LEMMA TabStays ==
    ASSUME Confirmed, NEW c \in Clients,
           Open(c) \/ MakeMutation(c) \/ Persist(c) \/ Close(c) \/ Drop(c) \/ Resume(c) \/ HangUp(c)
    PROVE  Stay /\ UNCHANGED <<db, server, broken>>
<1>1. UNCHANGED <<db, server, broken>>
  BY DEF Open, MakeMutation, Persist, Close, Drop, Resume, HangUp
<1>2. tab \in [Clients -> Tab] /\ conn \in [Clients -> Connection]
  BY DEF Confirmed, Flow, Kept
<1>3. \A d \in Clients : d # c => tab'[d] = tab[d] /\ conn'[d] = conn[d]
  BY <1>2 DEF Open, MakeMutation, Persist, Close, Drop, Resume, HangUp, tabs
<1>4. Stays(tab[c], tab'[c], conn[c], conn'[c])
  <2>1. CASE Open(c) \/ Resume(c)
    <3>1. conn' = conn /\ ~conn[c].live
      BY <2>1 DEF Open, Resume, Confirmed
    <3> QED
      BY <1>2, <3>1, StaysWays
  <2>2. CASE MakeMutation(c) \/ Persist(c)
    <3>1. conn' = conn /\ tab' = tab
      BY <2>2 DEF MakeMutation, Persist
    <3> QED
      BY <1>2, <3>1, StaysWays
  <2>3. CASE Close(c) \/ Drop(c)
    <3>1. conn'[c] = Cut(conn[c])
      BY <1>2, <2>3 DEF Close, Drop
    <3> QED
      BY <1>2, <3>1, StaysWays
  <2>4. CASE HangUp(c)
    <3>1. conn'[c] = GivenUp(conn[c]) /\ ~conn[c].live
      BY <1>2, <2>4 DEF HangUp, GivenUp
    <3> QED
      BY <1>2, <3>1, StaysWays
  <2> QED
    BY <2>1, <2>2, <2>3, <2>4
<1> QED
  BY <1>1, <1>2, <1>3, <1>4, StaysWays DEF Stay

LEMMA PlaybackStays ==
    ASSUME Confirmed, NEW c \in Clients, Playback(c)
    PROVE  Stay /\ UNCHANGED <<db, server, broken>>
<1>1. UNCHANGED <<db, server, broken>>
  BY DEF Playback
<1>2. tab \in [Clients -> Tab] /\ conn \in [Clients -> Connection]
  BY DEF Confirmed, Flow, Kept
<1>3. \A d \in Clients : d # c => tab'[d] = tab[d] /\ conn'[d] = conn[d]
  BY <1>2 DEF Playback
<1>4. Stays(tab[c], tab'[c], conn[c], conn'[c])
  <2> DEFINE t == tab[c]
             moved == [t EXCEPT !.snap = t.buffer, !.buffer = 0]
  <2>1. \/ conn'[c] = Cut(conn[c])
        \/ conn' = conn /\ (\E n : tab'[c] = [moved EXCEPT !.tracked = n])
        \/ conn' = conn /\ tab'[c] = moved
    BY <1>2 DEF Playback
  <2>2. moved.sent = t.sent /\ \A n : [moved EXCEPT !.tracked = n].sent = t.sent
    BY <1>2 DEF Tab
  <2>3. CASE conn'[c] = Cut(conn[c])
    BY <1>2, <2>3, StaysWays
  <2>4. CASE conn' = conn /\ tab'[c].sent = tab[c].sent
    BY <1>2, <2>4 DEF Stays
  <2> HIDE DEF t, moved
  <2> QED
    BY <2>1, <2>2, <2>3, <2>4 DEF t
<1> QED
  BY <1>1, <1>2, <1>3, <1>4, StaysWays DEF Stay

LEMMA ViewsStay ==
    ASSUME Confirmed, (\E v \in 1..Len(log) : StartPoke(v)) \/ EndPoke \/ PokeFails
    PROVE  Stay /\ UNCHANGED <<db, server, broken>>
<1>1. UNCHANGED <<db, server, broken>>
  BY DEF StartPoke, EndPoke, PokeFails
<1>2. tab \in [Clients -> Tab] /\ conn \in [Clients -> Connection]
  BY DEF Confirmed, Flow, Kept
<1>3. ASSUME NEW c \in Clients
      PROVE  Stays(tab[c], tab'[c], conn[c], conn'[c])
  <2>0. tab[c] \in Tab /\ conn[c] \in Connection
    BY <1>2
  <2>1. ASSUME NEW v \in 1..Len(log), StartPoke(v)
        PROVE  Stays(tab[c], tab'[c], conn[c], conn'[c])
    <3>1. conn' = conn /\ tab'[c] \in {Informed(c, v), tab[c]}
      BY <2>1 DEF StartPoke
    <3>2. Informed(c, v).sent = tab[c].sent
      BY <2>0 DEF Informed, Tab
    <3> QED
      BY <3>1, <3>2 DEF Stays
  <2>2. CASE EndPoke
    <3>1. /\ tab'[c] \in {[tab[c] EXCEPT !.buffer = poke.to], tab[c]}
          /\ conn'[c] \in {[conn[c] EXCEPT !.base = poke.to], conn[c]}
      BY <2>2 DEF EndPoke
    <3>2. tab'[c].sent = tab[c].sent
      BY <2>0, <3>1 DEF Tab
    <3>3. conn'[c].live = conn[c].live /\ conn'[c].pusher = conn[c].pusher /\ conn'[c].ws = conn[c].ws
      BY <2>0, <3>1 DEF Connection
    <3> QED
      BY <3>2, <3>3 DEF Stays
  <2>3. CASE PokeFails
    <3>1. \/ conn'[c] = Cut(conn[c])
          \/ conn'[c] = conn[c] /\ tab'[c] = tab[c]
      BY <2>3 DEF PokeFails
    <3> QED
      BY <2>0, <3>1, StaysWays
  <2> QED
    BY <2>1, <2>2, <2>3
<1> QED
  BY <1>1, <1>3 DEF Stay


\* Nothing but one handler and what waits for it moves.
Handled(h) ==
    \A g \in Pushers \ {h} : request'[g] = request[g] /\ pushes'[g] = pushes[g] /\ queue'[g] = queue[g]

LEMMA PastType ==
    ASSUME NEW r \in Request(Mutation)
    PROVE  /\ r.muts \in Seq(Mutation) /\ Len(r.muts) \in Nat /\ r.done \in Nat
           /\ Past(r) \subseteq Mutation /\ Held(r.muts) \subseteq Mutation
           /\ r # Resting => r.done < Len(r.muts)
<1>1. r.muts \in Seq(Mutation) /\ Len(r.muts) \in Nat /\ r.done \in Nat
  BY LenProperties DEF Request
<1>2. r = Resting \/ r.done < Len(r.muts)
  BY DEF Request
<1>3. r = Resting => r.done = 0
  BY DEF Resting
<1>4. r.done <= Len(r.muts)
  BY <1>1, <1>2, <1>3
<1>5. \A j \in 1..Len(r.muts) : r.muts[j] \in Mutation
  BY <1>1, ElementOfSeq
<1>6. Past(r) \subseteq Mutation /\ Held(r.muts) \subseteq Mutation
  BY <1>1, <1>4, <1>5 DEF Past, Held
<1> QED
  BY <1>1, <1>2, <1>6

LEMMA SettledGrows ==
    ASSUME NEW n, NEW n2, Grows(n, n2), NEW K, K \subseteq Mutation, Settled(n, K)
    PROVE  Settled(n2, K)
<1> SUFFICES ASSUME NEW m \in K
             PROVE  m.id <= n2[m.client]
  BY DEF Settled
<1>1. m.id \in Nat /\ m.client \in Clients /\ m.id <= n[m.client]
  BY DEF Mutation, Settled
<1> QED
  BY <1>1 DEF Grows

\* A request that nobody waits for may be left behind, or go on.
LEMMA OrphanGoesOn ==
    ASSUME NEW n, NEW n2, Grows(n, n2), NEW r \in Request(Mutation), OrphanLed(n, r),
           NEW r2, r2.muts = r.muts, Settled(n2, Past(r2))
    PROVE  OrphanLed(n2, r2)
<1>1. Covered(n2, {}, {})
  BY DEF Covered
<1> QED
  BY <1>1, PastType, LedGrows DEF OrphanLed

LEMMA OrphanRests ==
    ASSUME NEW n
    PROVE  OrphanLed(n, Resting)
<1>1. Resting.muts = << >> /\ Resting.done = 0 /\ Len(Resting.muts) = 0
  BY EmptySeq DEF Resting
<1> QED
  BY <1>1 DEF OrphanLed, Led, Past, Settled

LEMMA HandlerLine ==
    ASSUME InLine, Confirmed', Stay, NEW h \in Handlers, Working(h), Handled(h),
           Grows(lmids, lmids'), alive' = alive, current' = current, broken' \in BOOLEAN,
           h \in Pushers => Idle(request'[h], pushes'[h], queue'[h]),
           broken' = FALSE =>
              /\ broken = FALSE
              /\ h \in Pushers => Onward(lmids, lmids', request[h], pushes[h], queue[h],
                                         request'[h], pushes'[h], queue'[h])
              /\ OrphanLed(lmids', request'[Orphan])
    PROVE  InLine'
<1>1. h \in Pushers => h \in alive
  BY DEF InLine, Serves, Working
<1>2. \A p \in Pushers : Idle(request'[p], pushes'[p], queue'[p])
  BY DEF InLine, Serves, Handled
<1>3. \A p \in Pushers \ alive : request'[p] = Resting
  BY <1>1 DEF InLine, Serves, Handled
<1>4. ASSUME broken' = FALSE
      PROVE  Onwards
  <2>1. Queues /\ \A p \in Pushers : Settled(lmids, Past(request[p]))
    BY <1>4 DEF InLine, Queues, Lined
  <2>2. ASSUME NEW p \in Pushers, p # h
        PROVE  Onward(lmids, lmids', request[p], pushes[p], queue[p],
                      request'[p], pushes'[p], queue'[p])
    <3>1. /\ request[p] \in Request(Mutation) /\ pushes[p] \in Seq(Batch(Mutation))
          /\ queue[p] \in Seq(Group(Mutation))
      BY LineTypes DEF InLine
    <3>2. Settled(lmids', Past(request[p]))
      BY <2>1, <3>1, PastType, SettledGrows
    <3>3. request'[p] = request[p] /\ pushes'[p] = pushes[p] /\ queue'[p] = queue[p]
      BY <2>2 DEF Handled
    <3>4. Onward(lmids, lmids', request[p], pushes[p], queue[p], request[p], pushes[p], queue[p])
      BY <3>1, <3>2, OnwardSame
    <3> QED
      BY <3>3, <3>4
  <2> QED
    BY <1>4, <2>2 DEF Onwards
<1> QED
  BY <1>2, <1>3, <1>4, LineGoesOn

\* What changes when a pusher goes on.
LEMMA GoAt ==
    ASSUME Confirmed, NEW p \in Pushers, NEW t, NEW q, NEW requests, DOMAIN requests = Handlers,
           NEW u, u = GoNext(t, q), Go(p, t, q, requests)
    PROVE  /\ request'[p] = GoRequest(u) /\ pushes'[p] = GoTaken(u) /\ queue'[p] = GoQueue(t, q)
           /\ \A g \in Handlers \ {p} : request'[g] = requests[g]
           /\ \A g \in Pushers \ {p} : pushes'[g] = pushes[g] /\ queue'[g] = queue[g]
<1>1. DOMAIN queue = Pushers /\ DOMAIN pushes = Pushers /\ p \in Handlers
  BY DEF Confirmed, Flow, UnderWay, UnderWayIn, Handlers
<1>2. queue' = [queue EXCEPT ![p] = GoQueue(t, q)]
  BY DEF Go, GoQueue
<1>3. CASE u = << >>
  <2>1. pushes' = [pushes EXCEPT ![p] = << >>] /\ request' = [requests EXCEPT ![p] = Resting]
    BY <1>3 DEF Go, GoNext
  <2> QED
    BY <1>1, <1>2, <1>3, <2>1 DEF GoRequest, GoTaken
<1>4. CASE u # << >>
  <2>1. pushes' = [pushes EXCEPT ![p] = Tail(u)] /\ request' = [requests EXCEPT ![p] = Start(Head(u))]
    BY <1>4 DEF Go, GoNext
  <2> QED
    BY <1>1, <1>2, <1>4, <2>1 DEF GoRequest, GoTaken
<1> QED
  BY <1>3, <1>4


\* The mutation a handler is at.
LEMMA CurrentAt ==
    ASSUME NEW r \in Request(Mutation), r # Resting
    PROVE  /\ r.muts[r.done + 1] \in Mutation
           /\ Past(OneDone(r)) = Past(r) \cup {r.muts[r.done + 1]}
           /\ ~(r.done + 1 < Len(r.muts)) => Held(r.muts) = Past(r) \cup {r.muts[r.done + 1]}
           /\ OneDone(r) # Resting /\ OneDone(r).muts = r.muts
<1>1. /\ r.muts \in Seq(Mutation) /\ Len(r.muts) \in Nat /\ r.done \in Nat
      /\ r.done < Len(r.muts)
  BY PastType
<1>2. r.done + 1 \in 1..Len(r.muts)
  BY <1>1
<1>3. r.muts[r.done + 1] \in Mutation
  BY <1>1, <1>2, ElementOfSeq
<1>4. OneDone(r).muts = r.muts /\ OneDone(r).done = r.done + 1
  BY DEF OneDone
<1>5. Past(OneDone(r)) = Past(r) \cup {r.muts[r.done + 1]}
  <2>1. 1..(r.done + 1) = (1..r.done) \cup {r.done + 1}
    BY <1>1
  <2> QED
    BY <1>4, <2>1 DEF Past
<1>6. ASSUME ~(r.done + 1 < Len(r.muts))
      PROVE  Held(r.muts) = Past(r) \cup {r.muts[r.done + 1]}
  <2>1. 1..Len(r.muts) = (1..r.done) \cup {r.done + 1}
    BY <1>1, <1>6
  <2> QED
    BY <2>1 DEF Past, Held
<1>7. OneDone(r) # Resting
  BY <1>1, <1>4 DEF Resting
<1> QED
  BY <1>3, <1>4, <1>5, <1>6, <1>7

\* A mutation that is done with: on to the next one, or to the next push.
LEMMA ProcessedLine ==
    ASSUME InLine, Confirmed', NEW h \in Handlers, Working(h), Processed(h), Elsewhere,
           UNCHANGED <<tab, outcome, conn, broken>>, Grows(lmids, lmids'),
           Current(h).id <= lmids'[Current(h).client]
    PROVE  InLine'
<1> DEFINE r == request[h]
<1>1. Stay
  <2>1. \A c \in Clients : conn[c] \in Connection
    BY LineTypes DEF InLine
  <2> QED
    BY <2>1, StaysWays DEF Stay
<1>2. alive' = alive /\ current' = current /\ broken' = broken /\ broken \in BOOLEAN
  BY DEF Elsewhere, InLine, Serves
<1>3. /\ request \in [Handlers -> Request(MadeOnly)] /\ DOMAIN request = Handlers
      /\ Orphan \in Handlers /\ Orphan \notin Pushers
      /\ Handlers = Pushers \cup {Orphan}
  BY FlowAssumption DEF InLine, Confirmed, Flow, UnderWay, UnderWayIn, Handlers
<1>4. r \in Request(Mutation) /\ r # Resting /\ Current(h) = r.muts[r.done + 1]
  BY <1>3, LineTypes DEF InLine, Working, Current
<1>5. /\ Past(OneDone(r)) = Past(r) \cup {Current(h)} /\ OneDone(r) # Resting
      /\ OneDone(r).muts = r.muts
      /\ ~(r.done + 1 < Len(r.muts)) => Held(r.muts) = Past(r) \cup {Current(h)}
  BY <1>4, CurrentAt
<1>6. ASSUME broken = FALSE
      PROVE  Settled(lmids', Past(r) \cup {Current(h)}) /\ OrphanLed(lmids', request[Orphan])
  <2>1. Queues
    BY <1>6 DEF InLine
  <2>2. OrphanLed(lmids, request[Orphan]) /\ request[Orphan] \in Request(Mutation)
    BY <2>1, LineTypes DEF Queues, OrphanLed, InLine
  <2>3. Settled(lmids', Past(request[Orphan]))
    BY <2>2, PastType, SettledGrows DEF OrphanLed
  <2>4. Settled(lmids, Past(r))
    BY <1>3, <2>1 DEF Queues, Lined
  <2>5. Settled(lmids', Past(r))
    BY <1>4, <2>4, PastType, SettledGrows
  <2> QED
    BY <2>2, <2>3, <2>5, OrphanGoesOn DEF Settled
<1> HIDE DEF r
<1>7. CASE r.done + 1 < Len(r.muts)
  <2>1. request' = [request EXCEPT ![h] = OneDone(r)] /\ queue' = queue /\ pushes' = pushes
    BY <1>7 DEF Processed, r
  <2>2. Handled(h) /\ request'[h] = OneDone(r)
    BY <1>3, <2>1 DEF Handled
  <2>3. h \in Pushers => Idle(request'[h], pushes'[h], queue'[h])
    BY <1>5, <2>2 DEF Idle
  <2>4. ASSUME broken = FALSE, h \in Pushers
        PROVE  Onward(lmids, lmids', request[h], pushes[h], queue[h],
                      request'[h], pushes'[h], queue'[h])
    <3>1. pushes[h] \in Seq(Batch(Mutation)) /\ queue[h] \in Seq(Group(Mutation))
      BY <2>4, LineTypes DEF InLine
    <3>2. PICK r2 : r2 = OneDone(r)
      OBVIOUS
    <3>3. Settled(lmids', Past(r2)) /\ r2.muts = r.muts
      BY <1>5, <1>6, <2>4, <3>2
    <3>4. Onward(lmids, lmids', r, pushes[h], queue[h], r2, pushes[h], queue[h])
      BY <1>4, <3>1, <3>3, OnwardSame
    <3> QED
      BY <2>1, <2>2, <3>2, <3>4 DEF r
  <2>5. ASSUME broken = FALSE
        PROVE  OrphanLed(lmids', request'[Orphan])
    <3>1. CASE h = Orphan
      <4>1. OrphanLed(lmids, r)
        BY <2>5, <3>1 DEF InLine, Queues, OrphanLed, r
      <4>2. PICK r2 : r2 = OneDone(r)
        OBVIOUS
      <4>3. Settled(lmids', Past(r2)) /\ r2.muts = r.muts
        BY <1>5, <1>6, <2>5, <4>2
      <4> QED
        BY <1>4, <2>2, <3>1, <4>1, <4>2, <4>3, OrphanGoesOn
    <3>2. CASE h # Orphan
      BY <1>3, <1>6, <2>1, <2>5, <3>2
    <3> QED
      BY <3>1, <3>2
  <2> QED
    BY <1>1, <1>2, <2>2, <2>3, <2>4, <2>5, HandlerLine
<1>8. CASE ~(r.done + 1 < Len(r.muts)) /\ h = Orphan
  <2>1. request' = [request EXCEPT ![h] = Resting] /\ queue' = queue /\ pushes' = pushes
    BY <1>8 DEF Processed, r
  <2>2. Handled(h) /\ request'[Orphan] = Resting
    BY <1>3, <1>8, <2>1 DEF Handled
  <2>3. OrphanLed(lmids', request'[Orphan])
    BY <2>2, OrphanRests
  <2> QED
    BY <1>1, <1>2, <1>3, <1>8, <2>2, <2>3, HandlerLine
<1>9. CASE ~(r.done + 1 < Len(r.muts)) /\ h # Orphan
  <2>1. Go(h, pushes[h], queue[h], request) /\ h \in Pushers
    BY <1>3, <1>9 DEF Processed, NextPush, r
  <2>2. PICK t, q, u : t = pushes[h] /\ q = queue[h] /\ u = GoNext(t, q)
    OBVIOUS
  <2>3. t \in Seq(Batch(Mutation)) /\ q \in Seq(Group(Mutation))
    BY <2>1, <2>2, LineTypes DEF InLine
  <2>4. /\ request'[h] = GoRequest(u) /\ pushes'[h] = GoTaken(u) /\ queue'[h] = GoQueue(t, q)
        /\ \A g \in Handlers \ {h} : request'[g] = request[g]
        /\ \A g \in Pushers \ {h} : pushes'[g] = pushes[g] /\ queue'[g] = queue[g]
    BY <1>3, <2>1, <2>2, GoAt DEF InLine
  <2>5. Handled(h) /\ request'[Orphan] = request[Orphan]
    BY <1>3, <1>9, <2>4 DEF Handled
  <2>6. Idle(request'[h], pushes'[h], queue'[h])
    <3>1. Idle(GoRequest(u), GoTaken(u), GoQueue(t, q))
      BY <2>2, <2>3, GoIdle
    <3> QED
      BY <2>4, <3>1
  <2>7. ASSUME broken = FALSE
        PROVE  Onward(lmids, lmids', request[h], pushes[h], queue[h],
                      request'[h], pushes'[h], queue'[h])
    <3>1. Settled(lmids', Held(r.muts))
      BY <1>5, <1>6, <1>9, <2>7
    <3>2. Onward(lmids, lmids', r, t, q, GoRequest(u), GoTaken(u), GoQueue(t, q))
      BY <2>2, <2>3, <3>1, OnwardGo
    <3> QED
      BY <2>2, <2>4, <3>2 DEF r
  <2> QED
    BY <1>1, <1>2, <1>6, <2>5, <2>6, <2>7, HandlerLine
<1> QED
  BY <1>7, <1>8, <1>9


\* A handler that has failed once is still at the same mutation.
LEMMA FailedLine ==
    ASSUME InLine, Confirmed', NEW h \in Handlers, Working(h), Elsewhere, Grows(lmids, lmids'),
           request' = [request EXCEPT ![h].failed = TRUE],
           UNCHANGED <<tab, outcome, conn, queue, pushes, broken>>
    PROVE  InLine'
<1> DEFINE r == request[h]
           r2 == [r EXCEPT !.failed = TRUE]
<1>1. Stay
  <2>1. \A c \in Clients : conn[c] \in Connection
    BY LineTypes DEF InLine
  <2> QED
    BY <2>1, StaysWays DEF Stay
<1>2. /\ request \in [Handlers -> Request(MadeOnly)] /\ Orphan \in Handlers
      /\ Handlers = Pushers \cup {Orphan}
  BY DEF InLine, Confirmed, Flow, UnderWay, UnderWayIn, Handlers
<1>3. r \in Request(Mutation) /\ r # Resting
  BY <1>2, LineTypes DEF InLine, Working
<1>4. r2.muts = r.muts /\ r2.done = r.done /\ Past(r2) = Past(r) /\ r2 # Resting
  <2>1. r2.muts = r.muts /\ r2.done = r.done /\ r2.failed = TRUE
    BY <1>3 DEF Request
  <2> QED
    BY <2>1 DEF Past, Resting
<1>5. request' = [request EXCEPT ![h] = r2]
  BY <1>2
<1> HIDE DEF r, r2
<1>6. Handled(h) /\ request'[h] = r2
  BY <1>2, <1>5 DEF Handled
<1>7. Idle(request'[h], pushes'[h], queue'[h])
  BY <1>4, <1>6 DEF Idle
<1>8. ASSUME broken = FALSE
      PROVE  Queues /\ Settled(lmids', Past(r2))
  <2>1. Settled(lmids, Past(r)) /\ Queues
    BY <1>2, <1>8 DEF InLine, Queues, Lined, r
  <2> QED
    BY <1>3, <1>4, <2>1, PastType, SettledGrows
<1>9. ASSUME broken = FALSE, h \in Pushers
      PROVE  Onward(lmids, lmids', request[h], pushes[h], queue[h],
                    request'[h], pushes'[h], queue'[h])
  <2>1. pushes[h] \in Seq(Batch(Mutation)) /\ queue[h] \in Seq(Group(Mutation))
    BY <1>9, LineTypes DEF InLine
  <2>2. Onward(lmids, lmids', r, pushes[h], queue[h], r2, pushes[h], queue[h])
    BY <1>3, <1>4, <1>8, <1>9, <2>1, OnwardSame
  <2> QED
    BY <1>6, <2>2 DEF r
<1>10. ASSUME broken = FALSE
       PROVE  OrphanLed(lmids', request'[Orphan])
  <2>1. OrphanLed(lmids, request[Orphan]) /\ request[Orphan] \in Request(Mutation)
    BY <1>8, <1>10, LineTypes DEF Queues, OrphanLed, InLine
  <2>2. CASE h = Orphan
    BY <1>3, <1>4, <1>6, <1>8, <1>10, <2>1, <2>2, OrphanGoesOn DEF r
  <2>3. CASE h # Orphan
    <3>1. request'[Orphan] = request[Orphan]
      BY <1>2, <1>5, <2>3
    <3>2. Settled(lmids', Past(request[Orphan]))
      BY <2>1, PastType, SettledGrows DEF OrphanLed
    <3> QED
      BY <2>1, <3>1, <3>2, OrphanGoesOn
  <2> QED
    BY <2>2, <2>3
<1>11. alive' = alive /\ current' = current /\ broken' = broken /\ broken \in BOOLEAN
  BY DEF Elsewhere, InLine, Serves
<1> QED
  BY <1>1, <1>6, <1>7, <1>9, <1>10, <1>11, HandlerLine

LEMMA FanOutStays ==
    ASSUME Confirmed, NEW p, NEW muts, FanOut(p, muts)
    PROVE  Stay
<1>1. ASSUME NEW c \in Clients
      PROVE  Stays(tab[c], tab'[c], conn[c], conn'[c])
  <2>1. \/ conn'[c] = Gone(conn[c])
        \/ conn'[c] = conn[c] /\ tab'[c] = tab[c]
    BY DEF FanOut, Gone
  <2>2. conn[c] \in Connection
    BY LineTypes
  <2> QED
    BY <2>1, <2>2, StaysWays
<1> QED
  BY <1>1 DEF Stay

\* A push fails at its pusher: from then on mutations may be missing.
LEMMA GivesUpLine ==
    ASSUME InLine, Confirmed', NEW p \in Pushers, Working(p), NEW muts, FanOut(p, muts),
           NEW requests, DOMAIN requests = Handlers,
           \A g \in Pushers : requests[g] = request[g],
           NextPush(p, requests), broken' = TRUE, Grows(lmids, lmids'),
           alive' = alive, current' = current
    PROVE  InLine'
<1>1. Stay
  BY FanOutStays DEF InLine
<1>2. PICK t, q, u : t = pushes[p] /\ q = queue[p] /\ u = GoNext(t, q)
  OBVIOUS
<1>3. t \in Seq(Batch(Mutation)) /\ q \in Seq(Group(Mutation)) /\ p \in Handlers
  BY <1>2, LineTypes DEF InLine, Handlers
<1>4. /\ request'[p] = GoRequest(u) /\ pushes'[p] = GoTaken(u) /\ queue'[p] = GoQueue(t, q)
      /\ \A g \in Handlers \ {p} : request'[g] = requests[g]
      /\ \A g \in Pushers \ {p} : pushes'[g] = pushes[g] /\ queue'[g] = queue[g]
  BY <1>2, GoAt DEF InLine, NextPush
<1>5. Handled(p)
  BY <1>4 DEF Handled, Handlers
<1>6. Idle(request'[p], pushes'[p], queue'[p])
  BY <1>2, <1>3, <1>4, GoIdle
<1> QED
  BY <1>1, <1>3, <1>5, <1>6, HandlerLine

LEMMA PushFailsLine ==
    ASSUME InLine, Confirmed', NEW h \in Handlers, Working(h), PushFails(h), Elsewhere,
           Grows(lmids, lmids')
    PROVE  InLine'
<1>1. /\ request \in [Handlers -> Request(MadeOnly)] /\ DOMAIN request = Handlers
      /\ Orphan \in Handlers /\ Orphan \notin Pushers /\ Handlers = Pushers \cup {Orphan}
  BY FlowAssumption DEF InLine, Confirmed, Flow, UnderWay, UnderWayIn, Handlers
<1>2. alive' = alive /\ current' = current /\ broken \in BOOLEAN
  BY DEF Elsewhere, InLine, Serves
<1>3. CASE h = Orphan
  <2>1. request' = [request EXCEPT ![Orphan] = Resting]
        /\ UNCHANGED <<tab, outcome, conn, queue, pushes, broken>>
    BY <1>3 DEF PushFails
  <2>2. Stay
    <3>1. \A c \in Clients : conn[c] \in Connection
      BY LineTypes DEF InLine
    <3> QED
      BY <2>1, <3>1, StaysWays DEF Stay
  <2>3. Handled(h) /\ request'[Orphan] = Resting
    BY <1>1, <1>3, <2>1 DEF Handled
  <2> QED
    BY <1>1, <1>2, <1>3, <2>1, <2>2, <2>3, OrphanRests, HandlerLine
<1>4. CASE h # Orphan
  <2>1. h \in Pushers /\ (\E muts : FanOut(h, muts)) /\ NextPush(h, request) /\ broken' = TRUE
    BY <1>1, <1>4 DEF PushFails
  <2> QED
    BY <1>1, <1>2, <2>1, GivesUpLine
<1> QED
  BY <1>3, <1>4


LEMMA RequestFailsLine ==
    ASSUME InLine, Confirmed', NEW p \in Pushers, RequestFails(p)
    PROVE  InLine'
<1>1. /\ request \in [Handlers -> Request(MadeOnly)] /\ DOMAIN request = Handlers
      /\ Orphan \in Handlers /\ Orphan \notin Pushers /\ Handlers = Pushers \cup {Orphan}
  BY FlowAssumption DEF InLine, Confirmed, Flow, UnderWay, UnderWayIn, Handlers
<1>2. /\ alive' = alive /\ current' = current /\ broken \in BOOLEAN
      /\ lmids' = lmids /\ Working(p) /\ p \in Handlers
  BY <1>1 DEF RequestFails, db, InLine, Serves
<1>3. Grows(lmids, lmids) /\ request[p] \in Request(Mutation)
  BY LineTypes DEF InLine
<1>4. PICK left :
        /\ left = request \/ left = [request EXCEPT ![Orphan] = request[p]]
        /\ \/ /\ request' = [left EXCEPT ![p] = Start(left[p].muts)]
              /\ UNCHANGED <<tab, outcome, conn, queue, pushes, broken>>
           \/ /\ FanOut(p, request[p].muts) /\ NextPush(p, left) /\ broken' = TRUE
  BY DEF RequestFails
<1>5. /\ DOMAIN left = Handlers /\ \A g \in Pushers : left[g] = request[g]
      /\ left[Orphan] \in {request[Orphan], request[p]}
  BY <1>1, <1>4
<1>6. CASE FanOut(p, request[p].muts) /\ NextPush(p, left) /\ broken' = TRUE
  BY <1>2, <1>3, <1>5, <1>6, GivesUpLine
<1>7. CASE /\ request' = [left EXCEPT ![p] = Start(left[p].muts)]
           /\ UNCHANGED <<tab, outcome, conn, queue, pushes, broken>>
  <2>1. PICK r2 : r2 = Start(request[p].muts)
    OBVIOUS
  <2>2. /\ request'[p] = r2 /\ request'[Orphan] = left[Orphan]
        /\ \A g \in Pushers \ {p} : request'[g] = request[g]
    BY <1>1, <1>5, <1>7, <2>1
  <2>3. Stay
    <3>1. \A c \in Clients : conn[c] \in Connection
      BY LineTypes DEF InLine
    <3> QED
      BY <1>7, <3>1, StaysWays DEF Stay
  <2>4. Handled(p)
    BY <1>7, <2>2 DEF Handled
  <2>5. r2.muts = request[p].muts /\ Past(r2) = {} /\ r2 # Resting
    <3>1. r2.muts = request[p].muts /\ r2.done = 0
      BY <2>1 DEF Start
    <3>2. request[p].muts # << >>
      <4>1. Len(request[p].muts) # 0
        BY <1>2, <1>3, PastType DEF Working
      <4> QED
        BY <4>1, EmptySeq
    <3> QED
      BY <3>1, <3>2 DEF Past, Resting
  <2>6. Settled(lmids, Past(r2))
    BY <2>5 DEF Settled
  <2>7. Idle(request'[p], pushes'[p], queue'[p])
    BY <2>2, <2>5 DEF Idle
  <2>8. Onward(lmids, lmids', request[p], pushes[p], queue[p],
               request'[p], pushes'[p], queue'[p])
    <3>1. pushes[p] \in Seq(Batch(Mutation)) /\ queue[p] \in Seq(Group(Mutation))
      BY LineTypes DEF InLine
    <3>2. Onward(lmids, lmids, request[p], pushes[p], queue[p], r2, pushes[p], queue[p])
      BY <1>3, <2>5, <2>6, <3>1, OnwardSame
    <3> QED
      BY <1>2, <1>7, <2>2, <3>2
  <2>9. ASSUME broken = FALSE
        PROVE  OrphanLed(lmids', request'[Orphan])
    <3>1. Queues
      BY <2>9 DEF InLine
    <3>2. OrphanLed(lmids, request[Orphan]) /\ OrphanLed(lmids, request[p])
      BY <3>1 DEF Queues, OrphanLed, Lined
    <3> QED
      BY <1>2, <1>5, <2>2, <3>2
  <2> QED
    BY <1>2, <1>3, <1>7, <2>3, <2>4, <2>7, <2>8, <2>9, HandlerLine
<1> QED
  BY <1>4, <1>6, <1>7

LEMMA HandlerGrows ==
    ASSUME Confirmed, Confirmed', NEW h \in Handlers, Serve(h) \/ DatabaseFails(h) \/ RejectedAgain(h)
    PROVE  Grows(lmids, lmids')
<1>1. LogGrew
  BY CalmHandlers, CalmNumbered DEF Confirmed
<1>2. lmids \in [Clients -> Nat] /\ lmids' \in [Clients -> Nat]
  BY DEF Confirmed, Flow, Logged
<1> QED
  BY <1>1, <1>2 DEF Grows, LogGrew

LEMMA ServeLine ==
    ASSUME InLine, Confirmed', NEW h \in Handlers, Serve(h) \/ DatabaseFails(h) \/ RejectedAgain(h)
    PROVE  InLine'
<1>1. Grows(lmids, lmids')
  BY HandlerGrows DEF InLine
<1>2. Working(h) /\ Elsewhere
  BY DEF Serve, AlreadyProcessed, Execute, MutatorFails, OutOfOrder, DatabaseFails, RejectedAgain,
         InTurn, Gap
<1>3. Current(h) \in Mutation
  <2>1. request[h] \in Request(Mutation)
    BY LineTypes DEF InLine, Handlers
  <2> QED
    BY <1>2, <2>1, CurrentType
<1>4. lmids \in [Clients -> Nat] /\ lmids' \in [Clients -> Nat] /\ Current(h).client \in Clients
      /\ Current(h).id \in Nat
  BY <1>1, <1>3 DEF Grows, Mutation
<1>5. CASE AlreadyProcessed(h)
  <2>1. Current(h).id <= lmids'[Current(h).client]
    <3>1. Current(h).id < lmids[Current(h).client] + 1 /\ lmids' = lmids
      BY <1>5 DEF AlreadyProcessed, Expected, db
    <3> QED
      BY <1>4, <3>1
  <2>2. Processed(h) /\ UNCHANGED <<tab, outcome, conn, broken>>
    BY <1>5 DEF AlreadyProcessed
  <2> QED
    BY <1>1, <1>2, <2>1, <2>2, ProcessedLine
<1>6. CASE Execute(h)
  <2>1. Current(h).id <= lmids'[Current(h).client]
    <3>1. /\ Current(h).id = lmids[Current(h).client] + 1
          /\ lmids' = [lmids EXCEPT ![Current(h).client] = lmids[Current(h).client] + 1]
      BY <1>6 DEF Execute, InTurn, Expected, Commit
    <3> QED
      BY <1>4, <3>1
  <2>2. Processed(h) /\ UNCHANGED <<tab, outcome, conn, broken>>
    BY <1>6 DEF Execute
  <2> QED
    BY <1>1, <1>2, <2>1, <2>2, ProcessedLine
<1>7. CASE PushFails(h)
  BY <1>1, <1>2, <1>7, PushFailsLine
<1>8. CASE /\ request' = [request EXCEPT ![h].failed = TRUE]
           /\ UNCHANGED <<tab, outcome, conn, queue, pushes, broken>>
  BY <1>1, <1>2, <1>8, FailedLine
<1>9. \/ AlreadyProcessed(h) \/ Execute(h) \/ PushFails(h)
      \/ /\ request' = [request EXCEPT ![h].failed = TRUE]
         /\ UNCHANGED <<tab, outcome, conn, queue, pushes, broken>>
  BY DEF Serve, MutatorFails, OutOfOrder, DatabaseFails, RejectedAgain
<1> QED
  BY <1>5, <1>6, <1>7, <1>8, <1>9

LEMMA EndsLine ==
    ASSUME InLine, Confirmed', NEW p \in Pushers, Ends(p)
    PROVE  InLine'
<1>1. /\ alive' = alive \ {p} /\ current' = None /\ Holders(p) = {} /\ request[p] = Resting
      /\ lmids' = lmids /\ tab' = tab /\ conn' = conn /\ queue' = queue /\ pushes' = pushes
      /\ request' = request /\ broken' = broken
  BY DEF Ends, Working, db, tabs
<1>2. Serves'
  <2>1. \A c \in Clients : conn'[c].pusher \in alive' \cup {None}
    BY <1>1 DEF InLine, Serves, Holders
  <2> QED
    BY <1>1, <2>1 DEF InLine, Serves
<1>3. Queues' = Queues /\ Senders' = Senders
  BY <1>1 DEF Queues, Senders
<1> QED
  BY <1>1, <1>2, <1>3 DEF InLine

LEMMA CrashLine ==
    ASSUME InLine, Confirmed', Crash
    PROVE  InLine'
<1>1. PICK h \in Handlers :
         request' = [g \in Handlers |-> IF g = Orphan THEN request[h] ELSE Resting]
  BY DEF Crash
<1>2. /\ queue' = [p \in Pushers |-> << >>] /\ pushes' = [p \in Pushers |-> << >>]
      /\ alive' = {} /\ current' = None /\ lmids' = lmids /\ broken' = broken
      /\ conn' = [c \in Clients |-> Gone(conn[c])]
  BY DEF Crash, db, Gone
<1>3. \A p \in Pushers : request'[p] = Resting /\ pushes'[p] = << >> /\ queue'[p] = << >>
  BY <1>1, <1>2, FlowAssumption DEF Handlers
<1>4. request'[Orphan] = request[h]
  BY <1>1 DEF Handlers
<1>5. \A c \in Clients : conn'[c].pusher = None /\ conn'[c].live = FALSE
  <2>1. \A c \in Clients : conn[c] \in Connection
    BY LineTypes DEF InLine
  <2> QED
    BY <1>2, <2>1 DEF Gone, Cut, Connection
<1>6. Serves'
  BY <1>2, <1>3, <1>5 DEF Serves, Idle, InLine
<1>7. ASSUME broken = FALSE
      PROVE  Queues' /\ Senders'
  <2>1. Queues
    BY <1>7 DEF InLine
  <2>2. OrphanLed(lmids, request[h])
    BY <2>1 DEF Queues, OrphanLed, Lined, Handlers
  <2>3. \A p \in Pushers : Lined(lmids', request'[p], pushes'[p], queue'[p])
    BY <1>3, EmptyLined
  <2>4. Queues'
    BY <1>2, <1>4, <2>2, <2>3 DEF Queues, OrphanLed
  <2>5. Senders'
    BY <1>5 DEF Senders
  <2> QED
    BY <2>4, <2>5
<1> QED
  BY <1>2, <1>6, <1>7 DEF InLine, Serves

\* A new connection has sent nothing yet.
LEMMA ConnectLine ==
    ASSUME InLine, Confirmed', NEW c \in Clients, Connect(c)
    PROVE  InLine'
<1>1. PICK p \in Serving(c) : /\ alive' = alive \cup {p} /\ current' = p
                              /\ conn'[c].pusher = p
  <2>1. conn \in [Clients -> Connection]
    BY DEF InLine, Confirmed, Flow, Kept
  <2> QED
    BY <2>1 DEF Connect
<1>2. p \in Pushers
  BY <1>1 DEF InLine, Serves, Serving
<1>3. /\ lmids' = lmids /\ queue' = queue /\ pushes' = pushes /\ request' = request /\ broken' = broken
  BY DEF Connect, db
<1>4. \A d \in Clients : d # c => tab'[d] = tab[d] /\ conn'[d] = conn[d]
  <2>1. conn \in [Clients -> Connection] /\ tab \in [Clients -> Tab]
    BY DEF InLine, Confirmed, Flow, Kept
  <2> QED
    BY <2>1 DEF Connect
<1>5. tab'[c].sent = NoMutations
  <2>1. tab \in [Clients -> Tab]
    BY DEF InLine, Confirmed, Flow, Kept
  <2> DEFINE t == tab[c]
             u == [t EXCEPT !.tracked = t.received, !.sent = NoMutations]
  <2>2. t \in Tab
    BY <2>1
  <2>3. tab'[c] = u \/ tab'[c] = Paused(t)
    BY <2>1 DEF Connect
  <2>4. u.sent = NoMutations /\ Paused(t).sent = NoMutations
    BY <2>2 DEF Paused, Disconnected, Tab
  <2> HIDE DEF u, t
  <2> QED
    BY <2>3, <2>4
<1>6. Serves'
  <2>1. \A d \in Clients : conn'[d].pusher \in alive' \cup {None}
    BY <1>1, <1>4 DEF InLine, Serves
  <2> QED
    BY <1>1, <1>2, <1>3, <2>1 DEF InLine, Serves
<1>7. ASSUME broken = FALSE
      PROVE  Queues' /\ Senders'
  <2>1. Queues /\ Senders
    BY <1>7 DEF InLine
  <2>2. ASSUME NEW d \in Clients, conn'[d].live
        PROVE  Sends(lmids', tab'[d].sent, request'[conn'[d].pusher], pushes'[conn'[d].pusher],
                     Joined(queue'[conn'[d].pusher], d, conn'[d].ws))
    <3>1. CASE d = c
      <4>1. \A e \in Clients : NoMutations[e] <= lmids[e]
        BY LineTypes DEF InLine, NoMutations
      <4> QED
        BY <1>3, <1>5, <3>1, <4>1 DEF Sends
    <3>2. CASE d # c
      BY <1>3, <1>4, <2>1, <2>2, <3>2 DEF Senders
    <3> QED
      BY <3>1, <3>2
  <2>3. Queues'
    BY <1>3, <2>1 DEF Queues
  <2> QED
    BY <2>2, <2>3 DEF Senders
<1> QED
  BY <1>3, <1>6, <1>7 DEF InLine, Serves


\* What a connection sends next is ready, since the one before it is in the
\* snapshot, or done, or was sent on the same connection.
LEMMA SentIsReady ==
    ASSUME Confirmed, NEW c \in Clients, NEW d \in Clients, NEW K, NEW m,
           m = [client |-> d, id |-> Sent(c, d) + 1],
           tab[c].sent[d] <= lmids[d] \/ [client |-> d, id |-> tab[c].sent[d]] \in K
    PROVE  m \in Mutation /\ Ready(lmids, m, K)
<1> DEFINE s == tab[c].sent[d]
           l == Lmid(tab[c].snap, d)
<1>1. /\ s \in Nat /\ l \in Nat /\ l <= lmids[d] /\ lmids[d] \in Nat
  <2>1. tab[c].snap \in 0..Len(log)
    BY Bounds
  <2> QED
    BY <2>1, LineTypes, LmidIsCount, CountBound
<1>2. Sent(c, d) \in {s, l} /\ Sent(c, d) \in Nat
  BY <1>1 DEF Sent, Larger
<1>3. m.client = d /\ m.id = Sent(c, d) + 1 /\ m \in Mutation
  BY <1>2 DEF Mutation
<1> HIDE DEF s, l
<1>4. CASE Sent(c, d) <= lmids[d]
  BY <1>1, <1>2, <1>3, <1>4 DEF Ready
<1>5. CASE ~(Sent(c, d) <= lmids[d])
  <2>1. Sent(c, d) = s /\ ~(s <= lmids[d])
    BY <1>1, <1>2, <1>5
  <2>2. Before(m) = [client |-> d, id |-> tab[c].sent[d]]
    BY <1>1, <1>3, <2>1 DEF Before, s
  <2> QED
    BY <1>3, <2>1, <2>2 DEF Ready, s
<1> QED
  BY <1>3, <1>4, <1>5

\* A mutation joins those that wait; if the pusher rests, it goes on with them.
LEMMA PushAt ==
    ASSUME InLine, NEW c \in Clients, NEW p \in Pushers, NEW m \in Mutation,
           NEW r, NEW t, NEW q, NEW e, r = request[p], t = pushes[p], q = queue[p],
           e = Enqueued(q, c, m),
           IF request[p] = Resting THEN Go(p, << >>, e, request)
           ELSE queue' = [queue EXCEPT ![p] = e] /\ UNCHANGED <<pushes, request>>
    PROVE  /\ Idle(request'[p], pushes'[p], queue'[p])
           /\ Settled(lmids, Past(r)) =>
                 Onward(lmids, lmids, r, t, e, request'[p], pushes'[p], queue'[p])
           /\ \A g \in Handlers \ {p} : request'[g] = request[g]
           /\ \A g \in Pushers \ {p} : pushes'[g] = pushes[g] /\ queue'[g] = queue[g]
<1>1. /\ r \in Request(Mutation) /\ t \in Seq(Batch(Mutation)) /\ q \in Seq(Group(Mutation))
      /\ conn[c].ws \in Nat /\ Grows(lmids, lmids)
  BY LineTypes DEF InLine
<1>2. e \in Seq(Group(Mutation))
  BY <1>1, EnqueuedKeeps
<1>3. DOMAIN request = Handlers /\ DOMAIN queue = Pushers
  BY DEF InLine, Confirmed, Flow, UnderWay, UnderWayIn
<1>4. CASE r = Resting
  <2>1. t = << >>
    BY <1>4 DEF InLine, Serves, Idle
  <2>2. PICK u : u = GoNext(t, e)
    OBVIOUS
  <2>3. Go(p, t, e, request)
    BY <1>4, <2>1
  <2>4. /\ request'[p] = GoRequest(u) /\ pushes'[p] = GoTaken(u) /\ queue'[p] = GoQueue(t, e)
        /\ \A g \in Handlers \ {p} : request'[g] = request[g]
        /\ \A g \in Pushers \ {p} : pushes'[g] = pushes[g] /\ queue'[g] = queue[g]
    BY <1>3, <2>2, <2>3, GoAt DEF InLine
  <2>5. Settled(lmids, Held(r.muts))
    <3>1. Held(r.muts) = {}
      BY <1>4, EmptySeq DEF Held, Resting
    <3> QED
      BY <3>1 DEF Settled
  <2>6. /\ Onward(lmids, lmids, r, t, e, GoRequest(u), GoTaken(u), GoQueue(t, e))
        /\ Idle(GoRequest(u), GoTaken(u), GoQueue(t, e))
    BY <1>1, <1>2, <2>2, <2>5, OnwardGo
  <2> QED
    BY <2>4, <2>6
<1>5. CASE r # Resting
  <2>1. queue' = [queue EXCEPT ![p] = e] /\ pushes' = pushes /\ request' = request
    BY <1>5
  <2>2. queue'[p] = e /\ \A g \in Pushers \ {p} : queue'[g] = queue[g]
    BY <1>3, <2>1
  <2>3. Idle(request'[p], pushes'[p], queue'[p])
    BY <1>5, <2>1 DEF Idle
  <2>4. ASSUME Settled(lmids, Past(r))
        PROVE  Onward(lmids, lmids, r, t, e, r, t, e)
    BY <1>1, <1>2, <2>4, OnwardSame
  <2> QED
    BY <2>1, <2>2, <2>3, <2>4
<1> QED
  BY <1>4, <1>5


\* A connection sends its next mutation: its pusher has all that it sent before.
LEMMA PushLine ==
    ASSUME InLine, Confirmed', NEW c \in Clients, Push(c)
    PROVE  InLine'
<1>1. conn[c].live /\ conn' = conn /\ alive' = alive /\ current' = current
      /\ lmids' = lmids /\ broken' = broken
  BY DEF Push, db
<1>2. PICK p : p = conn[c].pusher
  OBVIOUS
<1>3. p \in Pushers /\ p \in alive
  BY <1>1, <1>2, LineTypes, FlowAssumption DEF InLine, Serves
<1>4. PICK d \in Clients :
        /\ tab' = [tab EXCEPT ![c].sent[d] = Sent(c, d) + 1]
        /\ LET m == [client |-> d, id |-> Sent(c, d) + 1] IN
              IF request[p] = Resting THEN Go(p, << >>, Enqueued(queue[p], c, m), request)
              ELSE /\ queue' = [queue EXCEPT ![p] = Enqueued(@, c, m)]
                   /\ UNCHANGED <<pushes, request>>
  BY <1>2 DEF Push
<1>5. PICK m : m = [client |-> d, id |-> Sent(c, d) + 1]
  OBVIOUS
<1>6. PICK r, t, q, e, w : r = request[p] /\ t = pushes[p] /\ q = queue[p]
                           /\ e = Enqueued(q, c, m) /\ w = conn[c].ws
  OBVIOUS
<1>7. m \in Mutation /\ m.client = d /\ m.id = Sent(c, d) + 1
  BY <1>5, SentIsReady DEF InLine
<1>8. IF request[p] = Resting THEN Go(p, << >>, e, request)
      ELSE queue' = [queue EXCEPT ![p] = e] /\ UNCHANGED <<pushes, request>>
  BY <1>4, <1>5, <1>6
<1>9. /\ Idle(request'[p], pushes'[p], queue'[p])
      /\ Settled(lmids, Past(r)) =>
            Onward(lmids, lmids, r, t, e, request'[p], pushes'[p], queue'[p])
      /\ \A g \in Handlers \ {p} : request'[g] = request[g]
      /\ \A g \in Pushers \ {p} : pushes'[g] = pushes[g] /\ queue'[g] = queue[g]
  BY <1>3, <1>6, <1>7, <1>8, PushAt
<1>10. Serves'
  <2>1. \A g \in Pushers : g = p \/ (g \in Pushers \ {p} /\ g \in Handlers \ {p})
    BY DEF Handlers
  <2>2. \A g \in Pushers : Idle(request'[g], pushes'[g], queue'[g])
    BY <1>9, <2>1 DEF InLine, Serves
  <2>3. \A g \in Pushers \ alive : request'[g] = Resting
    BY <1>3, <1>9, <2>1 DEF InLine, Serves
  <2> QED
    BY <1>1, <2>2, <2>3 DEF InLine, Serves
<1>11. ASSUME broken = FALSE
       PROVE  Queues' /\ Senders'
  <2>1. Queues /\ Senders /\ Lined(lmids, r, t, q) /\ Settled(lmids, Past(r)) /\ Apart(q)
    BY <1>3, <1>6, <1>11 DEF InLine, Queues, Lined, Apart
  <2>2. /\ q \in Seq(Group(Mutation)) /\ w \in Nat /\ tab[c] \in Tab
        /\ tab[c].sent \in [Clients -> Nat] /\ lmids \in [Clients -> Nat]
        /\ Grows(lmids, lmids)
    BY <1>3, <1>6, LineTypes DEF InLine
  <2>3. (\E g \in 1..Len(q) : JoinedAt(q, e, c, w, m, g)) \/ JoinedLast(q, e, c, w, m)
    BY <1>6, <1>7, <2>1, <2>2, EnqueuedWays
  <2>4. Sends(lmids, tab[c].sent, r, t, Joined(q, c, w))
    BY <1>1, <1>2, <1>6, <2>1 DEF Senders
  <2>5. PICK K : K = Held(r.muts) \cup Taken(t, Len(t)) \cup Joined(q, c, w)
    OBVIOUS
  <2>6. Ready(lmids, m, K)
    <3>1. tab[c].sent[d] <= lmids[d] \/ [client |-> d, id |-> tab[c].sent[d]] \in K
      BY <2>4, <2>5 DEF Sends
    <3> QED
      BY <1>5, <3>1, SentIsReady DEF InLine
  <2>7. Lined(lmids, r, t, e)
    BY <1>7, <2>1, <2>2, <2>3, <2>5, <2>6, LinedEnqueued
  <2>8. m \in Joined(e, c, w) /\ \A x, v : Joined(q, x, v) \subseteq Joined(e, x, v)
    BY <1>7, <2>2, <2>3, JoinedGrows
  <2>9. Onward(lmids, lmids, r, t, e, request'[p], pushes'[p], queue'[p])
    BY <1>9, <2>1
  <2>10. /\ \A x \in Clients \ {c} : tab'[x].sent = tab[x].sent
         /\ tab'[c].sent = [tab[c].sent EXCEPT ![d] = m.id]
    <3>1. tab \in [Clients -> Tab]
      BY DEF InLine, Confirmed, Flow, Kept
    <3>2. tab' = [tab EXCEPT ![c] = [tab[c] EXCEPT !.sent = [tab[c].sent EXCEPT ![d] = m.id]]]
      BY <1>4, <1>7, <3>1
    <3> QED
      BY <2>2, <3>1, <3>2 DEF Tab
  <2>11. ASSUME NEW x \in Clients, conn[x].live
         PROVE  Sends(lmids, tab'[x].sent, request'[conn[x].pusher], pushes'[conn[x].pusher],
                      Joined(queue'[conn[x].pusher], x, conn[x].ws))
    <3>1. /\ Sends(lmids, tab[x].sent, request[conn[x].pusher], pushes[conn[x].pusher],
                   Joined(queue[conn[x].pusher], x, conn[x].ws))
          /\ conn[x].pusher \in Pushers /\ tab[x].sent \in [Clients -> Nat]
      BY <2>1, <2>11, LineTypes DEF Senders, InLine
    <3>2. CASE x = c
      <4>1. PICK s : s = [tab[c].sent EXCEPT ![d] = m.id]
        OBVIOUS
      <4>2. s \in [Clients -> Nat]
        BY <1>7, <2>2, <4>1 DEF Mutation
      <4>3. ASSUME NEW y \in Clients
            PROVE  s[y] <= lmids[y]
                   \/ [client |-> y, id |-> s[y]] \in Held(r.muts) \cup Taken(t, Len(t)) \cup Joined(e, c, w)
        <5>1. CASE y = d
          <6>1. [client |-> y, id |-> s[y]] = m
            BY <1>5, <2>2, <4>1, <5>1
          <6> QED
            BY <2>8, <6>1
        <5>2. CASE y # d
          <6>1. s[y] = tab[c].sent[y]
            BY <2>2, <4>1, <5>2
          <6> QED
            BY <2>4, <2>8, <6>1 DEF Sends
        <5> QED
          BY <5>1, <5>2
      <4>4. Sends(lmids, s, r, t, Joined(e, c, w))
        BY <4>3 DEF Sends
      <4>5. Sends(lmids, s, request'[p], pushes'[p], Joined(queue'[p], c, w))
        BY <2>9, <4>2, <4>4 DEF Onward
      <4> QED
        BY <1>2, <1>6, <2>10, <3>2, <4>1, <4>5
    <3>3. CASE x # c /\ conn[x].pusher = p
      <4>1. PICK s, v : s = tab[x].sent /\ v = conn[x].ws
        OBVIOUS
      <4>2. Sends(lmids, s, r, t, Joined(q, x, v)) /\ s \in [Clients -> Nat]
        BY <1>6, <3>1, <3>3, <4>1
      <4>3. Joined(q, x, v) \subseteq Joined(e, x, v)
        BY <2>8
      <4>4. Sends(lmids, s, r, t, Joined(e, x, v))
        BY <4>2, <4>3 DEF Sends
      <4>5. Sends(lmids, s, request'[p], pushes'[p], Joined(queue'[p], x, v))
        BY <2>9, <4>2, <4>4 DEF Onward
      <4> QED
        BY <2>10, <3>3, <4>1, <4>5
    <3>4. CASE x # c /\ conn[x].pusher # p
      <4>1. PICK g : g = conn[x].pusher
        OBVIOUS
      <4>2. g \in Handlers \ {p} /\ g \in Pushers \ {p}
        BY <3>1, <3>4, <4>1 DEF Handlers
      <4>3. request'[g] = request[g] /\ pushes'[g] = pushes[g] /\ queue'[g] = queue[g]
        BY <1>9, <4>2
      <4> QED
        BY <2>10, <3>1, <3>4, <4>1, <4>3
    <3> QED
      BY <3>2, <3>3, <3>4
  <2>12. Queues'
    <3>1. Lined(lmids, request'[p], pushes'[p], queue'[p])
      BY <2>7, <2>9 DEF Onward
    <3>2. request'[Orphan] = request[Orphan]
      BY <1>3, <1>9, FlowAssumption DEF Handlers
    <3>3. ASSUME NEW g \in Pushers, g # p
          PROVE  request'[g] = request[g] /\ pushes'[g] = pushes[g] /\ queue'[g] = queue[g]
      BY <1>9, <3>3 DEF Handlers
    <3> QED
      BY <1>1, <2>1, <3>1, <3>2, <3>3 DEF Queues
  <2> QED
    BY <1>1, <2>11, <2>12 DEF Senders
<1> QED
  BY <1>1, <1>10, <1>11 DEF InLine, Serves


LEMMA InLineHolds ==
    ASSUME InLine, Confirmed', [Next]_vars
    PROVE  InLine'
<1>1. ASSUME NEW c \in Clients,
             \/ Open(c) \/ MakeMutation(c) \/ Persist(c) \/ Close(c) \/ Drop(c) \/ Resume(c)
             \/ Connect(c) \/ HangUp(c) \/ Push(c) \/ Playback(c)
      PROVE  InLine'
  <2>1. CASE Open(c) \/ MakeMutation(c) \/ Persist(c) \/ Close(c) \/ Drop(c) \/ Resume(c) \/ HangUp(c)
    <3>1. Stay /\ UNCHANGED <<db, server, broken>>
      BY <2>1, TabStays, Zenon DEF InLine
    <3> QED
      BY <3>1, QuietLine
  <2>2. CASE Playback(c)
    <3>1. Stay /\ UNCHANGED <<db, server, broken>>
      BY <2>2, PlaybackStays DEF InLine
    <3> QED
      BY <3>1, QuietLine
  <2>3. CASE Connect(c)
    BY <2>3, ConnectLine
  <2>4. CASE Push(c)
    BY <2>4, PushLine
  <2> QED
    BY <1>1, <2>1, <2>2, <2>3, <2>4, Zenon
<1>2. ASSUME NEW p \in Pushers, RequestFails(p) \/ Ends(p)
      PROVE  InLine'
  BY <1>2, RequestFailsLine, EndsLine
<1>3. ASSUME NEW h \in Handlers, Serve(h) \/ DatabaseFails(h) \/ RejectedAgain(h)
      PROVE  InLine'
  BY <1>3, ServeLine
<1>4. CASE (\E v \in 1..Len(log) : StartPoke(v)) \/ EndPoke \/ PokeFails
  <2>1. Stay /\ UNCHANGED <<db, server, broken>>
    BY <1>4, ViewsStay, Zenon DEF InLine
  <2> QED
    BY <2>1, QuietLine
<1>5. CASE Crash
  BY <1>5, CrashLine
<1>6. CASE UNCHANGED vars
  <2>1. UNCHANGED <<db, server, broken>> /\ tab' = tab /\ conn' = conn
    BY <1>6 DEF vars, tabs
  <2>2. Stay
    <3>1. \A c \in Clients : conn[c] \in Connection
      BY LineTypes DEF InLine
    <3> QED
      BY <2>1, <3>1, StaysWays DEF Stay
  <2> QED
    BY <2>1, <2>2, QuietLine
<1> QED
  BY <1>1, <1>2, <1>3, <1>4, <1>5, <1>6, Zenon DEF Next

LEMMA InLineInit ==
    ASSUME Init
    PROVE  InLine
<1>1. /\ conn = [c \in Clients |-> NoConnection] /\ queue = [p \in Pushers |-> << >>]
      /\ pushes = [p \in Pushers |-> << >>] /\ request = [h \in Handlers |-> Resting]
      /\ alive = {} /\ current = None /\ broken = FALSE
  BY DEF Init
<1>2. NoConnection.pusher = None /\ NoConnection.live = FALSE
  BY DEF NoConnection
<1>3. Confirmed
  BY ConfirmedInit
<1>4. \A p \in Pushers : Lined(lmids, request[p], pushes[p], queue[p])
  <2>1. \A p \in Pushers : request[p] = Resting /\ pushes[p] = << >> /\ queue[p] = << >>
    BY <1>1 DEF Handlers
  <2> QED
    BY <2>1, EmptyLined
<1>5. OrphanLed(lmids, request[Orphan])
  BY <1>1, OrphanRests DEF Handlers
<1>6. Queues
  BY <1>4, <1>5 DEF Queues, OrphanLed
<1>7. Senders
  BY <1>1, <1>2 DEF Senders
<1>8. Serves
  BY <1>1, <1>2 DEF Serves, Idle, Handlers
<1> QED
  BY <1>3, <1>6, <1>7, <1>8 DEF InLine

\* Connections have running pushers, and as long as no push fails what waits for
\* them, what they have taken and what they and the API server work on is in order
\* (mutagen/pusher.ts run, combinePushes).
THEOREM InLineTheorem == Spec => []InLine
<1>1. Init => InLine
  BY InLineInit
<1>2. InLine /\ Confirmed' /\ [Next]_vars => InLine'
  BY InLineHolds
<1> QED
  BY <1>1, <1>2, ConfirmedTheorem, PTL DEF Spec

\* As long as no push fails the API server never meets a mutation ahead of its
\* turn, for any number of tabs, pushers, mutations and faults (zero.ts #pusher,
\* pusher.ts combinePushes).
THEOREM NoGapTheorem == Spec => []NoGap
<1>1. ASSUME InLine
      PROVE  NoGap
  <2> SUFFICES ASSUME ~broken, NEW h \in Handlers, Working(h)
               PROVE  ~(Current(h).id > Expected(Current(h)))
    BY DEF NoGap, Gap
  <2>1. PICK r, m : r = request[h] /\ m = Current(h)
    OBVIOUS
  <2>2. r \in Request(Mutation) /\ r # Resting
    BY <1>1, <2>1, LineTypes DEF InLine, Working, Handlers
  <2>3. r.muts \in Seq(Mutation) /\ Len(r.muts) \in Nat /\ r.done \in Nat /\ r.done < Len(r.muts)
    BY <2>2, PastType
  <2>4. m = r.muts[r.done + 1] /\ m \in Mutation
    BY <2>1, <2>2, CurrentAt DEF Current
  <2>5. Settled(lmids, Past(r)) /\ Led(lmids, r.muts, {})
    BY <1>1, <2>1 DEF InLine, Queues, Lined, Handlers
  <2>6. Ready(lmids, m, Past(r))
    <3>1. r.done + 1 \in 1..Len(r.muts) /\ (r.done + 1) - 1 = r.done
      BY <2>3
    <3>2. Ready(lmids, r.muts[r.done + 1], {} \cup {r.muts[i] : i \in 1..((r.done + 1) - 1)})
      BY <2>5, <3>1 DEF Led
    <3>3. {} \cup {r.muts[i] : i \in 1..((r.done + 1) - 1)} = Past(r)
      BY <3>1 DEF Past
    <3> QED
      BY <2>4, <3>2, <3>3
  <2>7. m.id \in Nat /\ m.client \in Clients /\ lmids[m.client] \in Nat
    BY <1>1, <2>4, LineTypes DEF InLine, Mutation
  <2>8. m.id <= lmids[m.client] + 1
    <3>1. CASE Before(m) \in Past(r)
      <4>1. Before(m).id <= lmids[Before(m).client]
        BY <2>5, <3>1 DEF Settled
      <4> QED
        BY <2>7, <4>1 DEF Before
    <3> QED
      BY <2>6, <3>1 DEF Ready
  <2> QED
    BY <2>1, <2>7, <2>8 DEF Expected
<1> QED
  BY <1>1, InLineTheorem, PTL


-----------------------------------------------------------------------------
(* Bounds. *)

\* Tabs make no more than they may, send no more than was made, and there are no
\* more faults than there may be.
Bounded ==
    /\ InLine
    /\ \A c \in Clients : Made(c) <= Limit[c]
    /\ \A c, d \in Clients : tab[c].sent[d] <= Made(d)
    /\ used \in [persists : Nat, faults : 0..MaxFaults]

SentSame == \A c \in Clients : tab'[c].sent \in {tab[c].sent, NoMutations}
MadeSame == \A c \in Clients : Made(c)' = Made(c)

LEMMA SentFields ==
    ASSUME NEW t \in Tab
    PROVE  /\ Disconnected(t).sent = NoMutations /\ Paused(t).sent = NoMutations
           /\ Resumed(t).sent = t.sent
           /\ \A n : /\ [t EXCEPT !.buffer = n].sent = t.sent
                     /\ [t EXCEPT !.received = n].sent = t.sent
BY DEF Disconnected, Paused, Resumed, Tab

LEMMA SentTabs ==
    ASSUME Confirmed, NEW c \in Clients,
           \/ Open(c) \/ MakeMutation(c) \/ Persist(c) \/ Close(c) \/ Drop(c) \/ Resume(c)
           \/ Connect(c) \/ HangUp(c) \/ Playback(c)
    PROVE  SentSame
<1>1. tab \in [Clients -> Tab] /\ tab[c] \in Tab
  BY DEF Confirmed, Flow, Kept
<1>2. CASE MakeMutation(c) \/ Persist(c) \/ HangUp(c)
  <2>1. tab' = tab
    BY <1>2 DEF MakeMutation, Persist, HangUp, tabs
  <2> QED
    BY <2>1 DEF SentSame
<1>3. CASE Open(c) \/ Close(c)
  <2>1. \E u : u.sent = NoMutations /\ tab' = [tab EXCEPT ![c] = u]
    <3>1. /\ [Blank EXCEPT !.state = "open", !.snap = perdag.snap, !.loaded = perdag.made].sent = NoMutations
          /\ [Blank EXCEPT !.state = "closed"].sent = NoMutations
      BY DEF Blank
    <3> QED
      BY <1>3, <3>1 DEF Open, Close
  <2> QED
    BY <1>1, <2>1 DEF SentSame
<1>4. CASE Drop(c) \/ Resume(c)
  <2>1. tab' \in {[tab EXCEPT ![c] = Disconnected(tab[c])], [tab EXCEPT ![c] = Paused(tab[c])],
                  [tab EXCEPT ![c] = Resumed(tab[c])]}
    BY <1>1, <1>4 DEF Drop, Resume, Resumed
  <2> QED
    BY <1>1, <2>1, SentFields DEF SentSame
<1>5. CASE Connect(c)
  <2> DEFINE t == tab[c]
             u == [t EXCEPT !.tracked = t.received, !.sent = NoMutations]
  <2>1. tab' = [tab EXCEPT ![c] = u] \/ tab' = [tab EXCEPT ![c] = Paused(t)]
    BY <1>1, <1>5 DEF Connect
  <2>2. u.sent = NoMutations /\ Paused(t).sent = NoMutations
    BY <1>1, SentFields DEF Tab
  <2> HIDE DEF u
  <2> QED
    BY <1>1, <2>1, <2>2 DEF SentSame
<1>6. CASE Playback(c)
  <2> DEFINE t == tab[c]
             lmid == Lmid(t.buffer, c)
             moved == [t EXCEPT !.snap = t.buffer, !.buffer = 0]
             told == [moved EXCEPT !.tracked = lmid]
  <2>1. tab' \in {[tab EXCEPT ![c] = moved], [tab EXCEPT ![c] = Paused(moved)], [tab EXCEPT ![c] = told]}
    BY <1>6 DEF Playback
  <2>2. moved \in Tab /\ moved.sent = t.sent
    BY <1>1 DEF Tab
  <2>3. Paused(moved).sent = NoMutations
    <3> HIDE DEF moved
    <3> QED
      BY <2>2, SentFields
  <2>4. told.sent = t.sent
    <3> HIDE DEF moved, lmid
    <3> QED
      BY <2>2 DEF Tab
  <2> HIDE DEF moved, told, t
  <2> QED
    BY <1>1, <2>1, <2>2, <2>3, <2>4 DEF SentSame, t
<1> QED
  BY <1>2, <1>3, <1>4, <1>5, <1>6

LEMMA SentFanOut ==
    ASSUME Confirmed, NEW p, NEW muts, FanOut(p, muts)
    PROVE  SentSame
<1>1. \A c \in Clients : tab[c] \in Tab /\ tab'[c] \in {Paused(tab[c]), tab[c]}
  BY LineTypes DEF FanOut
<1> QED
  BY <1>1, SentFields DEF SentSame

LEMMA SentCases ==
    ASSUME Confirmed, [Next]_vars
    PROVE  SentSame \/ \E c \in Clients : Push(c)
<1>1. ASSUME NEW c \in Clients,
             \/ Open(c) \/ MakeMutation(c) \/ Persist(c) \/ Close(c) \/ Drop(c) \/ Resume(c)
             \/ Connect(c) \/ HangUp(c) \/ Push(c) \/ Playback(c)
      PROVE  SentSame \/ Push(c)
  BY <1>1, SentTabs, Zenon
<1>2. ASSUME tab' = tab
      PROVE  SentSame
  BY <1>2 DEF SentSame
<1>3. ASSUME NEW p \in Pushers, RequestFails(p) \/ Ends(p)
      PROVE  SentSame
  <2>1. tab' = tab \/ FanOut(p, request[p].muts)
    BY <1>3 DEF RequestFails, Ends, tabs
  <2> QED
    BY <1>2, <2>1, SentFanOut
<1>4. ASSUME NEW h \in Handlers, Serve(h) \/ DatabaseFails(h) \/ RejectedAgain(h)
      PROVE  SentSame
  <2>1. tab' = tab \/ PushFails(h)
    BY <1>4 DEF Serve, AlreadyProcessed, Execute, MutatorFails, OutOfOrder, DatabaseFails, RejectedAgain
  <2>2. PushFails(h) => tab' = tab \/ \E muts : FanOut(h, muts)
    BY DEF PushFails
  <2> QED
    BY <1>2, <2>1, <2>2, SentFanOut
<1>5. ASSUME NEW v \in 1..Len(log), StartPoke(v)
      PROVE  SentSame
  <2>1. ASSUME NEW c \in Clients
        PROVE  tab'[c].sent = tab[c].sent
    <3>1. tab'[c] \in {Informed(c, v), tab[c]} /\ tab[c] \in Tab
      BY <1>5, LineTypes DEF StartPoke
    <3>2. Informed(c, v).sent = tab[c].sent
      BY <3>1, SentFields DEF Informed
    <3> QED
      BY <3>1, <3>2
  <2> QED
    BY <2>1 DEF SentSame
<1>6. CASE EndPoke
  <2>1. ASSUME NEW c \in Clients
        PROVE  tab'[c].sent = tab[c].sent
    <3>1. tab'[c] \in {[tab[c] EXCEPT !.buffer = poke.to], tab[c]} /\ tab[c] \in Tab
      BY <1>6, LineTypes DEF EndPoke
    <3>2. [tab[c] EXCEPT !.buffer = poke.to].sent = tab[c].sent
      BY <3>1, SentFields
    <3> QED
      BY <3>1, <3>2
  <2> QED
    BY <2>1 DEF SentSame
<1>7. CASE PokeFails \/ Crash
  <2>1. \A c \in Clients : tab[c] \in Tab /\ tab'[c] \in {Disconnected(tab[c]), tab[c]}
    BY <1>7, LineTypes DEF PokeFails, Crash
  <2> QED
    BY <2>1, SentFields DEF SentSame
<1>8. CASE UNCHANGED vars
  BY <1>2, <1>8 DEF vars, tabs
<1> QED
  BY <1>1, <1>3, <1>4, <1>5, <1>6, <1>7, <1>8, Zenon DEF Next


\* Only a mutation that is made adds to what a tab has made.
LEMMA MadeTabs ==
    ASSUME Confirmed, NEW c \in Clients, Open(c) \/ Persist(c) \/ Close(c) \/ Connect(c) \/ Playback(c)
    PROVE  MadeSame
<1>1. outcome \in [Clients -> Seq(Results)] /\ outcome[c] \in Seq(Results)
  BY DEF Confirmed, Flow, Kept
<1>2. ASSUME NEW r, Len(r) = Len(outcome[c]), outcome' = [outcome EXCEPT ![c] = r]
      PROVE  MadeSame
  BY <1>1, <1>2 DEF MadeSame, Made
<1>3. CASE Open(c) \/ Persist(c)
  <2>1. outcome' = outcome
    BY <1>3 DEF Open, Persist
  <2> QED
    BY <2>1 DEF MadeSame, Made
<1>4. CASE Close(c)
  <2>1. outcome' = [outcome EXCEPT ![c] = AllSettled(outcome[c])]
    BY <1>4 DEF Close
  <2> QED
    BY <1>1, <1>2, <2>1, AllSettledKeeps
<1>5. CASE Connect(c)
  <2> DEFINE s == UpTo(outcome[c], tab[c].received, "assumed")
  <2>1. \/ outcome' = [outcome EXCEPT ![c] = outcome[c]]
        \/ outcome' = [outcome EXCEPT ![c] = s]
        \/ outcome' = [outcome EXCEPT ![c] = AllSettled(outcome[c])]
    BY <1>5 DEF Connect
  <2>2. Len(s) = Len(outcome[c])
    BY <1>1, SettleKeeps DEF UpTo, Results
  <2> HIDE DEF s
  <2> QED
    BY <1>1, <1>2, <2>1, <2>2, AllSettledKeeps
<1>6. CASE Playback(c)
  <2> DEFINE t == tab[c]
             lmid == Lmid(t.buffer, c)
             known == WithResults(c, outcome[c], t.snap, t.buffer)
  <2>1. \/ outcome' = [outcome EXCEPT ![c] = outcome[c]]
        \/ outcome' = [outcome EXCEPT ![c] = AllSettled(known)]
        \/ outcome' = [outcome EXCEPT ![c] = known]
        \/ outcome' = [outcome EXCEPT ![c] = Told(c, t, lmid)]
    BY <1>1, <1>6 DEF Playback
  <2>2. known \in Seq(Results) /\ Len(known) = Len(outcome[c])
    <3>1. "app" \in Results
      BY DEF Results
    <3> QED
      BY <1>1, <3>1, SettleKeeps DEF WithResults
  <2>3. Len(Told(c, t, lmid)) = Len(outcome[c])
    <3>1. "success" \in Results
      BY DEF Results
    <3> QED
      BY <2>2, <3>1, SettleKeeps DEF Told, UpTo
  <2> HIDE DEF known, lmid, t
  <2> QED
    BY <1>2, <2>1, <2>2, <2>3, AllSettledKeeps
<1> QED
  BY <1>3, <1>4, <1>5, <1>6

LEMMA MadeCases ==
    ASSUME Confirmed, Confirmed', [Next]_vars
    PROVE  MadeSame \/ \E c \in Clients : MakeMutation(c)
<1>1. ASSUME Calms
      PROVE  MadeSame
  <2>1. SameMade
    BY <1>1, CalmMade DEF Confirmed
  <2> QED
    BY <2>1 DEF SameMade, MadeSame, Made
<1>2. ASSUME NEW c \in Clients,
             Open(c) \/ MakeMutation(c) \/ Persist(c) \/ Close(c) \/ Connect(c) \/ Playback(c)
      PROVE  MadeSame \/ MakeMutation(c)
  BY <1>2, MadeTabs, Zenon
<1>3. ASSUME (\E v \in 1..Len(log) : StartPoke(v)) \/ EndPoke
      PROVE  MadeSame
  <2>1. outcome' = outcome
    BY <1>3 DEF StartPoke, EndPoke
  <2> QED
    BY <2>1 DEF MadeSame, Made
<1> QED
  BY <1>1, <1>2, <1>3, CalmCases, Zenon DEF Moves

LEMMA UsedHolds ==
    ASSUME used \in [persists : Nat, faults : 0..MaxFaults], [Next]_vars
    PROVE  used' \in [persists : Nat, faults : 0..MaxFaults]
<1>0. MaxFaults \in Nat
  BY FlowAssumption
<1>1. ASSUME Fault
      PROVE  used' \in [persists : Nat, faults : 0..MaxFaults]
  BY <1>0, <1>1 DEF Fault
<1>2. ASSUME NEW c \in Clients, Persist(c)
      PROVE  used' \in [persists : Nat, faults : 0..MaxFaults]
  BY <1>2 DEF Persist
<1>3. ASSUME NEW c \in Clients,
             \/ Open(c) \/ MakeMutation(c) \/ Close(c) \/ Drop(c) \/ Resume(c)
             \/ Connect(c) \/ HangUp(c) \/ Push(c) \/ Playback(c)
      PROVE  Fault \/ used' = used
  BY <1>3 DEF Open, MakeMutation, Close, Drop, Resume, Connect, HangUp, Push, Playback
<1>4. ASSUME NEW p \in Pushers, RequestFails(p) \/ Ends(p)
      PROVE  Fault \/ used' = used
  BY <1>4 DEF RequestFails, Ends
<1>5. ASSUME NEW h \in Handlers, Serve(h) \/ DatabaseFails(h) \/ RejectedAgain(h)
      PROVE  Fault \/ used' = used
  BY <1>5 DEF Serve, AlreadyProcessed, Execute, MutatorFails, OutOfOrder, DatabaseFails, RejectedAgain
<1>6. ASSUME (\E v \in 1..Len(log) : StartPoke(v)) \/ EndPoke \/ PokeFails \/ Crash
      PROVE  Fault \/ used' = used
  BY <1>6 DEF StartPoke, EndPoke, PokeFails, Crash
<1>7. ASSUME UNCHANGED vars
      PROVE  used' = used
  BY <1>7 DEF vars
<1>8. \/ Fault \/ used' = used \/ \E c \in Clients : Persist(c)
  BY <1>3, <1>4, <1>5, <1>6, <1>7, Zenon DEF Next
<1> QED
  BY <1>1, <1>2, <1>8


LEMMA BoundedHolds ==
    ASSUME Bounded, InLine', [Next]_vars
    PROVE  Bounded'
<1>1. /\ \A c \in Clients : Made(c) \in Nat /\ Made(c)' \in Nat /\ Limit[c] \in Nat
      /\ \A c \in Clients : tab[c].sent \in [Clients -> Nat] /\ tab'[c].sent \in [Clients -> Nat]
      /\ tab \in [Clients -> Tab]
  <2>1. /\ \A c \in Clients : outcome'[c] \in Seq(Results)
        /\ tab \in [Clients -> Tab] /\ tab' \in [Clients -> Tab]
    BY DEF Bounded, InLine, Confirmed, Flow, Kept, Tab, Results
  <2>2. \A c \in Clients : Made(c) \in Nat /\ Made(c)' \in Nat
    BY <2>1, MadeType, LenProperties DEF Bounded, InLine, Confirmed, Made
  <2>3. \A c \in Clients : tab[c].sent \in [Clients -> Nat] /\ tab'[c].sent \in [Clients -> Nat]
    BY <2>1 DEF Tab
  <2> QED
    BY <2>1, <2>2, <2>3, FlowAssumption
<1>2. used' \in [persists : Nat, faults : 0..MaxFaults]
  BY UsedHolds DEF Bounded
<1>3. MadeSame \/ \E c \in Clients : MakeMutation(c)
  BY MadeCases DEF Bounded, InLine
<1>4. ASSUME NEW c \in Clients
      PROVE  Made(c) <= Made(c)' /\ Made(c)' <= Limit[c]
  <2>1. CASE MadeSame
    BY <1>1, <2>1 DEF MadeSame, Bounded
  <2>2. ASSUME NEW d \in Clients, MakeMutation(d)
        PROVE  Made(c) <= Made(c)' /\ Made(c)' <= Limit[c]
    <3>1. outcome \in [Clients -> Seq(Results)] /\ outcome[d] \in Seq(Results)
      BY DEF Bounded, InLine, Confirmed, Flow, Kept
    <3>2. outcome' = [outcome EXCEPT ![d] = Append(outcome[d], "pending")] /\ Made(d) < Limit[d]
      BY <2>2 DEF MakeMutation
    <3>3. Len(Append(outcome[d], "pending")) = Len(outcome[d]) + 1
      BY <3>1, AppendProperties DEF Results
    <3>4. Made(d)' = Made(d) + 1 /\ (c # d => Made(c)' = Made(c))
      BY <3>1, <3>2, <3>3 DEF Made
    <3> QED
      BY <1>1, <3>2, <3>4 DEF Bounded
  <2> QED
    BY <1>3, <2>1, <2>2
<1>5. ASSUME NEW c \in Clients, NEW d \in Clients
      PROVE  tab'[c].sent[d] <= Made(d)'
  <2>1. tab[c].sent[d] \in Nat /\ tab[c].sent[d] <= Made(d)
    BY <1>1 DEF Bounded
  <2>2. CASE SentSame
    <3>1. tab'[c].sent = tab[c].sent \/ tab'[c].sent = NoMutations
      BY <2>2 DEF SentSame
    <3>2. NoMutations[d] = 0
      BY DEF NoMutations
    <3> QED
      BY <1>1, <1>4, <2>1, <3>1, <3>2
  <2>3. ASSUME NEW e \in Clients, Push(e)
        PROVE  tab'[c].sent[d] <= Made(d)'
    <3>1. PICK f \in Clients : Unsent(e, f) /\ tab' = [tab EXCEPT ![e].sent[f] = Sent(e, f) + 1]
      BY <2>3 DEF Push
    <3>2. tab[e].loaded[f] \in Nat /\ tab[e].loaded[f] <= Made(f)
      BY DEF Bounded, InLine, Confirmed, Flow, Kept, Progress
    <3>3. Sent(e, f) \in Nat
      <4>1. tab[e].snap \in Nat /\ tab[e].sent[f] \in Nat
        BY <1>1 DEF Tab
      <4> QED
        BY <4>1, LmidType DEF Sent, Larger
    <3>4. Sent(e, f) + 1 <= Made(f)
      BY <1>1, <3>1, <3>2, <3>3 DEF Unsent
    <3>5. tab' = [tab EXCEPT ![e] = [tab[e] EXCEPT !.sent = [tab[e].sent EXCEPT ![f] = Sent(e, f) + 1]]]
      BY <1>1, <3>1
    <3>6. /\ c # e => tab'[c].sent = tab[c].sent
          /\ tab'[e].sent = [tab[e].sent EXCEPT ![f] = Sent(e, f) + 1]
      BY <1>1, <3>5 DEF Tab
    <3>7. tab'[c].sent[d] = tab[c].sent[d] \/ (d = f /\ tab'[c].sent[d] = Sent(e, f) + 1)
      BY <1>1, <3>6
    <3> QED
      BY <1>1, <1>4, <2>1, <3>3, <3>4, <3>7
  <2> QED
    BY <2>2, <2>3, SentCases DEF Bounded, InLine
<1> QED
  BY <1>2, <1>4, <1>5 DEF Bounded

LEMMA BoundedInit ==
    ASSUME Init
    PROVE  Bounded
<1>1. /\ tab = [c \in Clients |-> Blank] /\ outcome = [c \in Clients |-> << >>]
      /\ used = [persists |-> 0, faults |-> 0]
  BY DEF Init
<1>2. /\ Blank.sent = NoMutations /\ \A d \in Clients : NoMutations[d] = 0
      /\ MaxFaults \in Nat /\ \A c \in Clients : Limit[c] \in Nat
  BY FlowAssumption DEF Blank, NoMutations
<1>3. \A c \in Clients : Made(c) = 0
  BY <1>1, EmptySeq DEF Made
<1> QED
  BY <1>1, <1>2, <1>3, InLineInit DEF Bounded

LEMMA BoundedTypes ==
    ASSUME Bounded
    PROVE  TypeOK
<1>1. /\ \A c \in Clients : Made(c) \in Nat /\ lmids[c] \in 0..Made(c)
      /\ log \in Seq(Entry) /\ DOMAIN log = 1..Len(log)
  BY Bounds, LenProperties DEF Bounded, InLine, Confirmed, Flow, Logged
<1>2. ASSUME NEW i \in DOMAIN log
      PROVE  /\ log[i].client \in Clients /\ log[i].id \in 1..Made(log[i].client)
             /\ log[i].res \in {"applied", "failed"}
  <2>1. log[i] \in Entry
    BY <1>1, ElementOfSeq
  <2>2. log[i].client \in Clients /\ log[i].id \in Nat /\ log[i].res \in {"applied", "failed"}
    BY <2>1 DEF Entry
  <2>3. log[i].id \in 1..lmids[log[i].client]
    BY <2>2 DEF Bounded, InLine, Confirmed, Flow, Logged, Promise!Committed
  <2> QED
    BY <1>1, <2>2, <2>3
<1>3. {replica, cvr, poke.to, perdag.snap} \subseteq 0..Len(log)
  BY DEF Bounded, InLine, Confirmed, Positions
<1>4. ASSUME NEW c \in Clients
      PROVE  /\ tab[c].state \in {"new", "open", "paused", "closed"}
             /\ {tab[c].snap, tab[c].buffer, conn[c].base} \subseteq 0..Len(log)
             /\ {tab[c].received, tab[c].tracked} \subseteq 0..lmids[c]
             /\ \A d \in Clients : {tab[c].loaded[d], tab[c].sent[d]} \subseteq 0..Made(d)
             /\ perdag.made[c] \in 0..Made(c)
             /\ outcome[c] \in Seq({"pending", "success", "assumed", "app", "zero"})
             /\ Made(c) <= Limit[c]
             /\ conn[c].pusher \in Pushers \cup {None}
             /\ conn[c].live => tab[c].state = "open" /\ conn[c].pusher \in alive
  <2>1. tab[c] \in Tab /\ conn[c] \in Connection /\ outcome[c] \in Seq(Results)
    BY DEF Bounded, InLine, Confirmed, Flow, Kept
  <2>2. {tab[c].snap, tab[c].buffer, conn[c].base} \subseteq 0..Len(log)
    BY DEF Bounded, InLine, Confirmed, Positions
  <2>3. {tab[c].received, tab[c].tracked} \subseteq 0..lmids[c]
    BY Bounds DEF Bounded, InLine
  <2>4. \A d \in Clients : {tab[c].loaded[d], tab[c].sent[d]} \subseteq 0..Made(d)
    <3>1. \A d \in Clients : tab[c].loaded[d] \in 0..Made(d)
      BY <1>1 DEF Bounded, InLine, Confirmed, Flow, Kept, Progress
    <3>2. \A d \in Clients : tab[c].sent[d] \in 0..Made(d)
      BY <1>1, <2>1 DEF Bounded, Tab
    <3> QED
      BY <3>1, <3>2
  <2>5. perdag.made[c] \in 0..Made(c)
    BY <1>1 DEF Bounded, InLine, Confirmed, Flow, Kept, Progress
  <2>6. conn[c].live => tab[c].state = "open" /\ conn[c].pusher \in alive
    BY <2>1, FlowAssumption DEF Bounded, InLine, Confirmed, Serves, Connection
  <2> QED
    BY <2>1, <2>2, <2>3, <2>4, <2>5, <2>6 DEF Bounded, Tab, Connection, Results
<1>5. ASSUME NEW p \in Pushers
      PROVE  /\ ~Working(p) => queue[p] = << >> /\ pushes[p] = << >>
             /\ p \notin alive => ~Working(p) /\ Holders(p) = {}
  <2>1. ~Working(p) => queue[p] = << >> /\ pushes[p] = << >>
    BY DEF Bounded, InLine, Serves, Idle, Working
  <2>2. p \notin alive => ~Working(p) /\ Holders(p) = {}
    BY FlowAssumption DEF Bounded, InLine, Serves, Working, Holders
  <2> QED
    BY <2>1, <2>2
<1>6. current \in alive \cup {None} /\ broken \in BOOLEAN /\ used.faults <= MaxFaults
  BY FlowAssumption DEF Bounded, InLine, Serves
<1> QED
  BY <1>1, <1>2, <1>3, <1>4, <1>5, <1>6 DEF TypeOK

\* Every variable keeps its type: positions are prefixes of the log, nothing is
\* confirmed, sent or taken over that was not made, connections have running
\* pushers and pushers that rest have nothing to do (mutagen/pusher.ts,
\* zero-client zero.ts, mutation-tracker.ts).
THEOREM TypeTheorem == Spec => []TypeOK
<1>1. Init => Bounded
  BY BoundedInit
<1>2. Bounded /\ InLine' /\ [Next]_vars => Bounded'
  BY BoundedHolds
<1>3. Bounded => TypeOK
  BY BoundedTypes
<1> QED
  BY <1>1, <1>2, <1>3, InLineTheorem, PTL DEF Spec

=============================================================================
