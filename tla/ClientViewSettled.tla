------------------------- MODULE ClientViewSettled -------------------------
(***************************************************************************)
(* That a client is current once its syncers have nothing left to do, for  *)
(* any number of clients and syncers and any mix of faults, unless a view- *)
(* syncer goes on after one of its operations failed (Survivors).          *)
(*                                                                         *)
(* The invariant of ClientViewProofs says what is true of a CVR, of rows   *)
(* and of pokes, none of it that anything is ever sent.  What is added     *)
(* here says why nothing is left out: a message that was taken up has made *)
(* the run loop ready or is that of the operation under way, pipelines     *)
(* that are not synced wait for a replica that is behind the CVR, and an   *)
(* operation ends with a poke of everybody who is connected.               *)
(***************************************************************************)
EXTENDS ClientViewProofs

-----------------------------------------------------------------------------
(* What is added to the invariant. *)

\* A connection the syncer has taken up.
Heard(y) == y.ws # 0 /\ y.msg # "init"

\* The operation is that of a client's own message, on this or on another
\* connection.
Asks(o, c) == o.pc # "idle" /\ ~o.run /\ o.c = c

Reached(o, h) ==
    \A c \in Clients : Heard(h[c]) => c \in DOMAIN o.pokers /\ o.pokers[c] = h[c].ws

\* What was asked of a syncer is under way, or has made its run loop ready; the
\* operation under way pokes everybody who was heard.
Attending(x, o, h) ==
    /\ o.pc # "idle" /\ ~o.run => o.c \in Clients
    /\ o.pc = "config" => ~o.run
    /\ o.pc \in {"flush", "catchup"} => x.synced \/ o.run
    /\ \A c \in Clients : h[c].ws # 0 =>
          /\ h[c].msg = "none" => x.ready \/ (Asks(o, c) /\ o.ws = h[c].ws)
          /\ Asks(o, c) /\ o.ws # h[c].ws => h[c].msg = "init"
    /\ o.pc = "catchup" \/ (o.pc = "flush" /\ ~o.advance) =>
          Reached(o, h) /\ o.to \in Version /\ AtMost(o.from, o.to)

\* The clients of a syncer that goes by the current CVR are at it.
Abreast(x, o, h, d) ==
    x.cvr = d.version =>
        /\ o.pc = "idle" /\ x.synced => \A c \in Clients : Heard(h[c]) => h[c].base = x.cvr
        /\ o.pc = "flush" /\ o.advance =>
              Reached(o, h) /\ \A c \in Clients : Heard(h[c]) => h[c].base = x.cvr

\* A syncer whose pipelines are not synced waits for its replica.
Trailing(x, o, d) ==
    /\ x.state = "none" => x.pv = 0
    /\ x.state = "up" /\ ~x.synced /\ o.pc \in {"idle", "config"} /\ x.pv > 0 =>
          x.pv < d.version[1]

\* Every query of a CVR has been hydrated.
Even(cr) == cr.queries = cr.got

Complete(x, o, cv) ==
    /\ x.cvr # NoVersion /\ ((x.synced /\ o.pc \in {"idle", "config"}) \/ o.pc = "catchup") =>
          Even(cv[x.cvr])
    /\ o.pc = "flush" => /\ o.queries = o.got /\ Desired(cv[o.from]) \subseteq o.queries
                         /\ ~o.writes => Even(cv[o.from])

Serving(x, o, h, d, cv) ==
    Attending(x, o, h) /\ Abreast(x, o, h, d) /\ Trailing(x, o, d) /\ Complete(x, o, cv)

\* A client that is connected has a handler, which knows where the client is;
\* alone in its group it is not forgotten.
Linked(cl, x, o, y, cv, w, c) ==
    /\ cl.ws # 0 /\ x.state = "up" /\ y.ws = cl.ws /\ y.base = cl.cookie
    /\ Clients = {c} /\ y.msg = "none" /\ o.pc # "config" =>
          x.cvr # NoVersion /\ cv[x.cvr].desired[c] = w

Listed(cr) == Desired(cr) \subseteq cr.queries

Settling ==
    /\ \A v \in DOMAIN cvrs : Listed(cvrs[v])
    /\ \A s \in Syncers : Serving(syncer[s], op[s], handler[s], db, cvrs)
    /\ \A c \in Clients : client[c].on =>
          \E s \in Syncers :
             client[c].at = s /\ Linked(client[c], syncer[s], op[s], handler[s][c], cvrs, wants[c], c)

-----------------------------------------------------------------------------
(* A step of one syncer leaves the others as they were. *)

LEMMA ServingGrown ==
    ASSUME NEW lg, NEW cv, NEW more, NEW to \in Version, NEW cr, Grown(cv, more, to, cr),
           NEW d, Committed(cv, d.version, lg), Less(d.version, to), NEW e, e.version = to,
           NEW x, NEW o, Working(x, o, cv, lg), x.pv \in Nat, NEW h, Serving(x, o, h, d, cv)
    PROVE  Serving(x, o, h, e, more)
<1>1. /\ x.cvr \in {NoVersion} \cup DOMAIN cv
      /\ o.pc = "flush" => o.from \in DOMAIN cv
      /\ o.pc = "catchup" => x.cvr \in {o.from, o.to}
  BY DEF Working
<1>2. \A v \in DOMAIN cv : more[v] = cv[v] /\ v # to
  BY DEF Grown
<1>3. x.cvr # e.version
  BY <1>1, <1>2, NoVersionFirst
<1>4. d.version[1] <= to[1] /\ d.version[1] \in Nat /\ to[1] \in Nat
  <2>1. d.version \in Version
    BY CommittedFacts DEF Committed
  <2> QED
    BY <2>1 DEF Less, Version
<1>5. Abreast(x, o, h, e)
  BY <1>3 DEF Abreast
<1>6. Trailing(x, o, e)
  BY <1>4 DEF Serving, Trailing
<1>7. Complete(x, o, more)
  BY <1>1, <1>2 DEF Serving, Complete
<1> QED
  BY <1>5, <1>6, <1>7 DEF Serving

LEMMA ServingSame ==
    ASSUME NEW x, NEW o, NEW h, NEW d, NEW cv, Serving(x, o, h, d, cv), NEW e, e.version = d.version
    PROVE  Serving(x, o, h, e, cv)
BY DEF Serving, Abreast, Trailing

LEMMA SettlingParts ==
    ASSUME Settling, NEW s \in Syncers
    PROVE  /\ Serving(syncer[s], op[s], handler[s], db, cvrs)
           /\ Attending(syncer[s], op[s], handler[s]) /\ Abreast(syncer[s], op[s], handler[s], db)
           /\ Trailing(syncer[s], op[s], db) /\ Complete(syncer[s], op[s], cvrs)
           /\ \A v \in DOMAIN cvrs : Listed(cvrs[v])
           /\ \A c \in Clients : client[c].on =>
                 /\ client[c].at \in Syncers
                 /\ client[c].at = s =>
                       /\ Linked(client[c], syncer[s], op[s], handler[s][c], cvrs, wants[c], c)
                       /\ Connected(s, c)
BY DEF Settling, Serving, Linked, Connected

\* The CVR stays the same, or is followed by another.
Onward ==
    \/ cvrs' = cvrs /\ db'.version = db.version
    \/ \E to \in Version : \E cr :
          Grown(cvrs, cvrs', to, cr) /\ Less(db.version, to) /\ db'.version = to /\ Listed(cr)

\* What a step of a syncer has to see to: its own state, and the clients that
\* are with it afterwards.
Turned(s, y, o, hs) ==
    /\ syncer' = [syncer EXCEPT ![s] = y] /\ op' = [op EXCEPT ![s] = o]
    /\ handler' = [handler EXCEPT ![s] = hs] /\ wants' = wants
    /\ Serving(y, o, hs, db', cvrs')
    /\ \A c \in Clients : client'[c].on =>
          \/ client'[c].at = s /\ Linked(client'[c], y, o, hs[c], cvrs', wants[c], c)
          \/ client[c].at # s /\ client'[c] = client[c]

LEMMA SyncerSettles ==
    ASSUME IInv, Settling, NEW s \in Syncers, NEW y, NEW o, NEW hs, Turned(s, y, o, hs), Onward
    PROVE  Settling'
<1>1. /\ Kinds /\ Committed(cvrs, db.version, log) /\ NoVersion \notin DOMAIN cvrs
      /\ \A t \in Syncers : /\ syncer[t] \in Syncing /\ syncer[t].pv \in Nat
                            /\ Working(syncer[t], op[t], cvrs, log)
                            /\ syncer[t].cvr \in {NoVersion} \cup DOMAIN cvrs
  <2>1. /\ Kinds /\ Committed(cvrs, db.version, log)
        /\ \A t \in Syncers : syncer[t] \in Syncing /\ Working(syncer[t], op[t], cvrs, log)
    BY Parts DEF Coherent, Going
  <2>2. NoVersion \notin DOMAIN cvrs
    BY <2>1, CommittedFacts
  <2> QED
    BY <2>1, <2>2 DEF Syncing, Working
<1>2. /\ syncer'[s] = y /\ op'[s] = o /\ handler'[s] = hs
      /\ \A t \in Syncers \ {s} : syncer'[t] = syncer[t] /\ op'[t] = op[t] /\ handler'[t] = handler[t]
  BY <1>1 DEF Kinds, Turned
<1>3. \A v \in DOMAIN cvrs : v \in DOMAIN cvrs' /\ cvrs'[v] = cvrs[v]
  BY DEF Grown, Onward
<1>4. \A v \in DOMAIN cvrs' : Listed(cvrs'[v])
  BY SettlingParts DEF Grown, Onward
<1>5. ASSUME NEW t \in Syncers
      PROVE  Serving(syncer'[t], op'[t], handler'[t], db', cvrs')
  <2>1. CASE t = s
    BY <1>2, <2>1 DEF Turned
  <2>2. CASE t # s
    <3>1. PICK x, u, h : x = syncer[t] /\ u = op[t] /\ h = handler[t]
      OBVIOUS
    <3>2. PICK e, more : e = db' /\ more = cvrs'
      OBVIOUS
    <3>3. Serving(x, u, h, db, cvrs) /\ Working(x, u, cvrs, log) /\ x.pv \in Nat
      BY <1>1, <3>1, SettlingParts
    <3>4. CASE cvrs' = cvrs /\ db'.version = db.version
      <4>1. Serving(x, u, h, e, cvrs)
        BY <3>2, <3>3, <3>4, ServingSame
      <4> QED
        BY <1>2, <2>2, <3>1, <3>2, <3>4, <4>1
    <3>5. CASE \E to \in Version : \E cr :
                 Grown(cvrs, cvrs', to, cr) /\ Less(db.version, to) /\ db'.version = to
      <4>1. PICK to \in Version : \E cr :
               Grown(cvrs, more, to, cr) /\ Less(db.version, to) /\ e.version = to
        BY <3>2, <3>5
      <4>2. PICK cr : Grown(cvrs, more, to, cr) /\ Less(db.version, to) /\ e.version = to
        BY <4>1
      <4>3. Serving(x, u, h, e, more)
        BY <1>1, <3>3, <4>2, ServingGrown
      <4> QED
        BY <1>2, <2>2, <3>1, <3>2, <4>3
    <3> QED
      BY <3>4, <3>5 DEF Onward
  <2> QED
    BY <2>1, <2>2
<1>6. ASSUME NEW c \in Clients, client'[c].on
      PROVE  \E t \in Syncers :
                /\ client'[c].at = t
                /\ Linked(client'[c], syncer'[t], op'[t], handler'[t][c], cvrs', wants'[c], c)
  <2>1. CASE client'[c].at = s /\ Linked(client'[c], y, o, hs[c], cvrs', wants[c], c)
    BY <1>2, <2>1 DEF Turned
  <2>2. CASE client[c].at # s /\ client'[c] = client[c]
    <3>1. PICK t \in Syncers :
             /\ client[c].at = t
             /\ Linked(client[c], syncer[t], op[t], handler[t][c], cvrs, wants[c], c)
      BY <1>6, <2>2 DEF Settling
    <3>2. Linked(client[c], syncer[t], op[t], handler[t][c], cvrs', wants[c], c)
      BY <1>1, <1>3, <3>1 DEF Linked
    <3> QED
      BY <1>2, <2>2, <3>1, <3>2 DEF Turned
  <2> QED
    BY <1>6, <2>1, <2>2 DEF Turned
<1> QED
  BY <1>4, <1>5, <1>6 DEF Settling

\* A poker whose client was not ahead leaves its handler at the end of the poke.
LEMMA HandlersRaised ==
    ASSUME Kinds, NEW s \in Syncers, NEW o, NEW f, NEW after, after = HandlersAfter(s, o, f)
    PROVE  /\ after = [handler EXCEPT ![s] = after[s]]
           /\ \A c \in Clients :
                 /\ after[s][c].ws = handler[s][c].ws /\ after[s][c].msg = handler[s][c].msg
                 /\ Heard(after[s][c]) <=> Heard(handler[s][c])
                 /\ after[s][c].base = IF c \in Served(s, o) /\ Ends(handler[s][c], o, f)
                                       THEN f ELSE handler[s][c].base
<1> DEFINE hs == [c \in Clients |->
              LET h == handler[s][c] IN
              IF c \in Served(s, o) /\ Ends(h, o, f)
              THEN [h EXCEPT !.base = f, !.poked = TRUE] ELSE h]
<1>1. handler \in [Syncers -> [Clients -> Handler]]
  BY DEF Kinds
<1>2. after = [handler EXCEPT ![s] = hs]
  BY DEF HandlersAfter
<1>3. ASSUME NEW c \in Clients
      PROVE  /\ hs[c].ws = handler[s][c].ws /\ hs[c].msg = handler[s][c].msg
             /\ hs[c].base = IF c \in Served(s, o) /\ Ends(handler[s][c], o, f)
                             THEN f ELSE handler[s][c].base
  BY <1>1 DEF Handler
<1> HIDE DEF hs
<1> QED
  BY <1>1, <1>2, <1>3 DEF Heard

LEMMA PokeEnds ==
    ASSUME NEW h, NEW o, NEW f \in Cookie, h.base \in Cookie, AtMost(h.base, f), ~Ends(h, o, f)
    PROVE  h.base = f
<1>1. CASE Quiet(h, o, f)
  BY <1>1 DEF Quiet
<1>2. CASE AtMost(f, h.base)
  BY <1>2, VersionOrder
<1> QED
  BY <1>1, <1>2 DEF Ends

\* A client and its handler end a poke at the same version.
LEMMA PokesLink ==
    ASSUME Kinds, NEW s \in Syncers, NEW o, NEW f, client' = ClientsAfter(s, o, f),
           NEW hs, hs = HandlersAfter(s, o, f)[s], NEW c \in Clients, client'[c].on,
           client[c].on /\ client[c].at = s =>
              Connected(s, c) /\ handler[s][c].base = client[c].cookie
    PROVE  /\ client[c].on
           /\ client[c].at = s => /\ client'[c].at = s /\ client'[c].ws = client[c].ws
                                  /\ hs[c].base = client'[c].cookie
           /\ client[c].at # s => client'[c] = client[c]
<1>1. PICK after : after = HandlersAfter(s, o, f)
  OBVIOUS
<1>2. hs[c].base = IF c \in Served(s, o) /\ Ends(handler[s][c], o, f)
                   THEN f ELSE handler[s][c].base
  BY <1>1, HandlersRaised
<1>3. client[c] \in Client /\ client \in [Clients -> Client]
  BY DEF Kinds
<1>4. PICK h : h = handler[s][c]
  OBVIOUS
<1>5. PICK cl : cl = client[c]
  OBVIOUS
<1>6. cl \in Client
  BY <1>3, <1>5
<1>7. client'[c] = IF c \notin Served(s, o) \/ ~Connected(s, c) \/ Quiet(h, o, f) THEN cl
                   ELSE IF ~Ends(h, o, f) THEN Dangling(s, c)
                   ELSE Apply(cl, h.base, Newer(o.patches, h.base), f)
  BY <1>4, <1>5 DEF ClientsAfter
<1>8. CASE c \notin Served(s, o) \/ ~Connected(s, c) \/ Quiet(h, o, f)
  <2>1. client'[c] = cl
    BY <1>7, <1>8
  <2>2. Quiet(h, o, f) => ~Ends(h, o, f)
    BY DEF Ends
  <2> QED
    BY <1>2, <1>4, <1>5, <1>8, <2>1, <2>2
<1>9. CASE c \in Served(s, o) /\ Connected(s, c) /\ ~Quiet(h, o, f) /\ ~Ends(h, o, f)
  <2>1. client'[c] = [cl EXCEPT !.receiving = Connected(s, c) \/ @]
    BY <1>5, <1>7, <1>9 DEF Dangling
  <2>2. /\ client'[c].on = cl.on /\ client'[c].at = cl.at /\ client'[c].ws = cl.ws
        /\ client'[c].cookie = cl.cookie
    BY <1>6, <2>1 DEF Client
  <2>3. cl.at = s /\ cl.on
    BY <1>5, <1>9 DEF Connected
  <2> QED
    BY <1>2, <1>4, <1>5, <1>9, <2>2, <2>3
<1>10. CASE c \in Served(s, o) /\ Connected(s, c) /\ Ends(h, o, f)
  <2>1. client'[c] = Apply(cl, h.base, Newer(o.patches, h.base), f)
    BY <1>7, <1>10 DEF Ends
  <2>2. cl.at = s /\ cl.on
    BY <1>5, <1>10 DEF Connected
  <2>3. ~Off(cl).on
    BY <1>6 DEF Off, Client
  <2>4. /\ client'[c].at = cl.at /\ client'[c].ws = cl.ws /\ client'[c].cookie = f
    BY <1>6, <2>1, <2>3 DEF Apply, Client
  <2> QED
    BY <1>2, <1>4, <1>5, <1>10, <2>2, <2>4
<1> QED
  BY <1>8, <1>9, <1>10 DEF Ends

-----------------------------------------------------------------------------
(* The environment, and what fails. *)

\* Handlers that go away leave nothing undone, nor does a syncer that stops.
LEMMA ServingFewer ==
    ASSUME NEW x, NEW o, NEW h, NEW d, NEW cv, Serving(x, o, h, d, cv),
           NEW g, \A c \in Clients : g[c] = h[c] \/ g[c] = NoHandler,
           NEW y, y.cvr = x.cvr, y.pv = x.pv, y.synced = x.synced, y.ready = x.ready,
           y.state \in {x.state, "stopped"}
    PROVE  Serving(y, o, g, d, cv)
<1>1. NoHandler.ws = 0 /\ ~Heard(NoHandler)
  BY NoHandlerFacts DEF Heard
<1>2. Attending(y, o, g)
  BY <1>1 DEF Serving, Attending, Reached
<1>3. Abreast(y, o, g, d)
  BY <1>1 DEF Serving, Abreast, Reached
<1>4. Trailing(y, o, d) /\ Complete(y, o, cv)
  BY DEF Serving, Trailing, Complete
<1> QED
  BY <1>2, <1>3, <1>4 DEF Serving

\* Steps that touch nothing of what a client waits for.
LEMMA QuietSettles ==
    ASSUME Settling, UNCHANGED <<cvrs, syncer, handler, op, client, wants>>,
           db'.version = db.version
    PROVE  Settling'
<1>1. ASSUME NEW s \in Syncers
      PROVE  Serving(syncer[s], op[s], handler[s], db', cvrs)
  <2>1. PICK x, o, h, e : x = syncer[s] /\ o = op[s] /\ h = handler[s] /\ e = db'
    OBVIOUS
  <2>2. Serving(x, o, h, db, cvrs)
    BY <2>1, SettlingParts
  <2>3. Serving(x, o, h, e, cvrs)
    BY <2>1, <2>2, ServingSame
  <2> QED
    BY <2>1, <2>3
<1> QED
  BY <1>1 DEF Settling

\* A syncer that only claims, and notes what it claimed.
LEMMA ClaimSettles ==
    ASSUME IInv, Settling, NEW s \in Syncers, NEW n \in Nat,
           syncer' = [syncer EXCEPT ![s].claim = n], db'.version = db.version,
           UNCHANGED <<cvrs, handler, op, client, wants>>
    PROVE  Settling'
<1>1. PICK x : x = syncer[s]
  OBVIOUS
<1>2. PICK y : y = [x EXCEPT !.claim = n]
  OBVIOUS
<1>3. x \in Syncing
  BY <1>1, Parts
<1>4. /\ y.cvr = x.cvr /\ y.pv = x.pv /\ y.synced = x.synced /\ y.ready = x.ready
      /\ y.state = x.state
  BY <1>2, <1>3 DEF Syncing
<1>5. PICK o, h, e : o = op[s] /\ h = handler[s] /\ e = db'
  OBVIOUS
<1>6. Serving(x, o, h, db, cvrs)
  BY <1>1, <1>5, SettlingParts
<1>7. Serving(y, o, h, e, cvrs)
  <2>1. Serving(y, o, h, db, cvrs)
    BY <1>4, <1>6, ServingFewer
  <2> QED
    BY <1>5, <2>1, ServingSame
<1>8. /\ syncer' = [syncer EXCEPT ![s] = y] /\ op' = [op EXCEPT ![s] = o]
      /\ handler' = [handler EXCEPT ![s] = h]
  BY <1>1, <1>2, <1>5, Unmoved
<1>9. ASSUME NEW c \in Clients, client'[c].on
      PROVE  \/ client'[c].at = s /\ Linked(client'[c], y, o, h[c], cvrs', wants[c], c)
             \/ client[c].at # s /\ client'[c] = client[c]
  BY <1>1, <1>4, <1>5, <1>9, SettlingParts DEF Linked
<1>10. Serving(y, o, h, db', cvrs')
  BY <1>5, <1>7
<1>11. cvrs' = cvrs /\ db'.version = db.version /\ wants' = wants
  OBVIOUS
<1>12. Turned(s, y, o, h)
  BY <1>8, <1>9, <1>10, <1>11 DEF Turned
<1>13. Onward
  BY <1>11 DEF Onward
<1> QED
  BY <1>12, <1>13, SyncerSettles

LEMMA ConnectSettles ==
    ASSUME IInv, Settling, NEW c \in Clients, NEW s \in Syncers, Connect(c, s)
    PROVE  Settling'
<1>1. PICK now : now = used.connects + 1
  OBVIOUS
<1>2. PICK x : x = syncer[s]
  OBVIOUS
<1>3. PICK y : y = [x EXCEPT !.state = "up", !.lct = now]
  OBVIOUS
<1>4. PICK new : new = [ws |-> now, base |-> client[c].cookie, poked |-> FALSE, msg |-> "init"]
  OBVIOUS
<1>5. PICK h, hs : h = handler[s] /\ hs = [h EXCEPT ![c] = new]
  OBVIOUS
<1>6. PICK o : o = op[s]
  OBVIOUS
<1>7. /\ x.state \in {"none", "up"}
      /\ syncer' = [syncer EXCEPT ![s].state = "up", ![s].lct = now]
      /\ handler' = [handler EXCEPT ![s][c] = new]
      /\ client' = [client EXCEPT ![c].on = TRUE, ![c].at = s, ![c].ws = now,
                                  ![c].receiving = FALSE]
      /\ UNCHANGED <<log, cvrs, db, pending, op, wants>>
  BY <1>1, <1>2, <1>4 DEF Connect
<1>8. /\ Kinds /\ x \in Syncing /\ h \in [Clients -> Handler] /\ client \in [Clients -> Client]
      /\ now # 0
  BY <1>1, <1>2, <1>5, Parts DEF Kinds
<1>9. /\ y.cvr = x.cvr /\ y.pv = x.pv /\ y.synced = x.synced /\ y.ready = x.ready /\ y.state = "up"
      /\ y.cvr = x.cvr /\ y.pv \in Nat
  BY <1>3, <1>8 DEF Syncing
<1>10. hs[c] = new /\ \A d \in Clients \ {c} : hs[d] = h[d]
  BY <1>5, <1>8
<1>11. new.msg = "init" /\ new.ws = now /\ new.base = client[c].cookie /\ ~Heard(new)
  BY <1>4 DEF Heard
<1>12. /\ Serving(x, o, h, db, cvrs) /\ Attending(x, o, h) /\ Abreast(x, o, h, db)
       /\ Trailing(x, o, db) /\ Complete(x, o, cvrs)
  BY <1>2, <1>5, <1>6, SettlingParts
<1>13. Serving(y, o, hs, db, cvrs)
  <2>1. Attending(y, o, hs)
    BY <1>9, <1>10, <1>11, <1>12 DEF Attending, Reached
  <2>2. Abreast(y, o, hs, db)
    BY <1>9, <1>10, <1>11, <1>12 DEF Abreast, Reached
  <2>3. Trailing(y, o, db)
    BY <1>7, <1>9, <1>12 DEF Trailing
  <2>4. Complete(y, o, cvrs)
    BY <1>9, <1>12 DEF Complete
  <2> QED
    BY <2>1, <2>2, <2>3, <2>4 DEF Serving
<1>14. /\ syncer' = [syncer EXCEPT ![s] = y] /\ op' = [op EXCEPT ![s] = o]
       /\ handler' = [handler EXCEPT ![s] = hs]
  <2>1. syncer' = [syncer EXCEPT ![s] = y]
    BY <1>2, <1>3, <1>7, <1>8 DEF Kinds
  <2>2. op' = [op EXCEPT ![s] = o]
    BY <1>6, <1>7, Unmoved
  <2>3. handler' = [handler EXCEPT ![s] = hs]
    BY <1>5, <1>7, <1>8 DEF Kinds
  <2> QED
    BY <2>1, <2>2, <2>3
<1>15. ASSUME NEW d \in Clients, client'[d].on
       PROVE  \/ client'[d].at = s /\ Linked(client'[d], y, o, hs[d], cvrs', wants[d], d)
              \/ client[d].at # s /\ client'[d] = client[d]
  <2>1. CASE d = c
    <3>1. PICK cl : cl = client'[d]
      OBVIOUS
    <3>2. cl.at = s /\ cl.ws = now /\ cl.cookie = client[c].cookie
      BY <1>7, <1>8, <2>1, <3>1 DEF Client
    <3>3. Linked(cl, y, o, new, cvrs, wants[d], d)
      BY <1>8, <1>9, <1>11, <3>2 DEF Linked
    <3> QED
      BY <1>7, <1>10, <2>1, <3>1, <3>2, <3>3
  <2>2. CASE d # c
    <3>1. client'[d] = client[d] /\ client[d].on
      BY <1>7, <1>8, <1>15, <2>2
    <3>2. client[d].at = s => Linked(client[d], x, o, h[d], cvrs, wants[d], d)
      BY <1>2, <1>5, <1>6, <3>1, SettlingParts
    <3>3. client[d].at = s => Linked(client[d], y, o, hs[d], cvrs, wants[d], d)
      BY <1>9, <1>10, <2>2, <3>2 DEF Linked
    <3> QED
      BY <1>7, <3>1, <3>3
  <2> QED
    BY <2>1, <2>2
<1>16. cvrs' = cvrs /\ db' = db /\ db'.version = db.version /\ wants' = wants
  BY <1>7
<1>17. Serving(y, o, hs, db', cvrs')
  BY <1>13, <1>16
<1>18. Turned(s, y, o, hs)
  BY <1>14, <1>15, <1>16, <1>17 DEF Turned
<1>19. Onward
  BY <1>16 DEF Onward
<1> QED
  BY <1>18, <1>19, SyncerSettles

LEMMA ChangeDesiredSettles ==
    ASSUME IInv, Settling, NEW c \in Clients, ChangeDesired(c)
    PROVE  Settling'
<1>1. /\ \E q \in Queries : wants' = [wants EXCEPT ![c] = IF q \in @ THEN @ \ {q} ELSE @ \cup {q}]
      /\ handler' = [s \in Syncers |->
            IF Connected(s, c) /\ handler[s][c].msg = "none"
            THEN [handler[s] EXCEPT ![c].msg = "change"] ELSE handler[s]]
      /\ UNCHANGED <<log, cvrs, db, syncer, pending, op, client>>
  BY DEF ChangeDesired
<1>2. Kinds
  BY Parts
<1>3. ASSUME NEW s \in Syncers
      PROVE  /\ \A d \in Clients \ {c} : handler'[s][d] = handler[s][d]
             /\ handler'[s][c].ws = handler[s][c].ws /\ handler'[s][c].base = handler[s][c].base
             /\ handler'[s][c].msg = IF Connected(s, c) /\ handler[s][c].msg = "none"
                                     THEN "change" ELSE handler[s][c].msg
  BY <1>1, <1>2 DEF Kinds, Handler
<1>4. ASSUME NEW s \in Syncers
      PROVE  Serving(syncer[s], op[s], handler'[s], db, cvrs)
  <2>1. PICK x, o, h, g : x = syncer[s] /\ o = op[s] /\ h = handler[s] /\ g = handler'[s]
    OBVIOUS
  <2>2. /\ Attending(x, o, h) /\ Abreast(x, o, h, db) /\ Trailing(x, o, db) /\ Complete(x, o, cvrs)
    BY <2>1, SettlingParts
  <2>3. \A d \in Clients : /\ g[d].ws = h[d].ws /\ g[d].base = h[d].base
                           /\ g[d].msg = h[d].msg \/ (h[d].msg = "none" /\ g[d].msg = "change")
    BY <1>3, <2>1
  <2>4. \A d \in Clients : Heard(g[d]) <=> Heard(h[d])
    BY <2>3 DEF Heard
  <2>5. Attending(x, o, g)
    BY <2>2, <2>3, <2>4 DEF Attending, Reached
  <2>6. Abreast(x, o, g, db)
    BY <2>2, <2>3, <2>4 DEF Abreast, Reached
  <2> QED
    BY <2>1, <2>2, <2>5, <2>6 DEF Serving
<1>5. ASSUME NEW d \in Clients, client[d].on
      PROVE  \E s \in Syncers :
                /\ client[d].at = s
                /\ Linked(client[d], syncer[s], op[s], handler'[s][d], cvrs, wants'[d], d)
  <2>1. PICK s \in Syncers :
           /\ client[d].at = s
           /\ Linked(client[d], syncer[s], op[s], handler[s][d], cvrs, wants[d], d)
    BY <1>5 DEF Settling
  <2>2. Connected(s, d)
    BY <1>5, <2>1, SettlingParts
  <2>3. CASE d # c
    BY <1>1, <1>2, <1>3, <2>1, <2>3 DEF Kinds
  <2>4. CASE d = c
    BY <1>3, <2>1, <2>2, <2>4 DEF Linked
  <2> QED
    BY <2>3, <2>4
<1> QED
  BY <1>1, <1>4, <1>5, SettlingParts DEF Settling

\* A step of a syncer that only loses clients.
Losing(s, y, o, hs) ==
    /\ syncer' = [syncer EXCEPT ![s] = y] /\ op' = [op EXCEPT ![s] = o]
    /\ handler' = [handler EXCEPT ![s] = hs] /\ UNCHANGED <<cvrs, db, wants>>
    /\ Serving(y, o, hs, db, cvrs)
    /\ \A c \in Clients : client'[c].on =>
          /\ client[c].on /\ client'[c].at = client[c].at
          /\ client[c].at # s => client'[c] = client[c]
          /\ client[c].at = s =>
                /\ client'[c].ws = client[c].ws /\ client'[c].cookie = client[c].cookie
                /\ hs[c] = handler[s][c] /\ y.state = syncer[s].state
                /\ \/ y.cvr = syncer[s].cvr /\ o = op[s]
                   \/ Clients = {c} => handler[s][c].msg # "none"

LEMMA LosingSettles ==
    ASSUME IInv, Settling, NEW s \in Syncers, NEW y, NEW o, NEW hs, Losing(s, y, o, hs)
    PROVE  Settling'
<1>1. /\ syncer' = [syncer EXCEPT ![s] = y] /\ op' = [op EXCEPT ![s] = o]
      /\ handler' = [handler EXCEPT ![s] = hs] /\ cvrs' = cvrs /\ db' = db /\ wants' = wants
      /\ Serving(y, o, hs, db, cvrs)
  BY DEF Losing
<1>2. ASSUME NEW c \in Clients, client'[c].on
      PROVE  \/ client'[c].at = s /\ Linked(client'[c], y, o, hs[c], cvrs', wants[c], c)
             \/ client[c].at # s /\ client'[c] = client[c]
  <2>1. CASE client[c].at # s
    BY <1>2, <2>1 DEF Losing
  <2>2. CASE client[c].at = s
    <3>1. /\ client[c].on /\ client'[c].at = s
          /\ client'[c].ws = client[c].ws /\ client'[c].cookie = client[c].cookie
          /\ hs[c] = handler[s][c] /\ y.state = syncer[s].state
          /\ \/ y.cvr = syncer[s].cvr /\ o = op[s]
             \/ Clients = {c} => handler[s][c].msg # "none"
      BY <1>2, <2>2 DEF Losing
    <3>2. Linked(client[c], syncer[s], op[s], handler[s][c], cvrs, wants[c], c)
      BY <2>2, <3>1, SettlingParts
    <3>3. Linked(client'[c], y, o, hs[c], cvrs, wants[c], c)
      BY <3>1, <3>2 DEF Linked
    <3> QED
      BY <1>1, <3>1, <3>3
  <2> QED
    BY <2>1, <2>2
<1>3. Serving(y, o, hs, db', cvrs')
  BY <1>1
<1>4. Turned(s, y, o, hs)
  BY <1>1, <1>2, <1>3 DEF Turned
<1>5. Onward
  BY <1>1 DEF Onward
<1> QED
  BY <1>4, <1>5, SyncerSettles

LEMMA NoticeSettles ==
    ASSUME IInv, Settling, NEW c \in Clients, NEW s \in Syncers, Notice(s, c)
    PROVE  Settling'
<1>1. PICK x, o, h : x = syncer[s] /\ o = op[s] /\ h = handler[s]
  OBVIOUS
<1>2. PICK hs : hs = [h EXCEPT ![c] = NoHandler]
  OBVIOUS
<1>3. /\ ~Connected(s, c) /\ handler' = [handler EXCEPT ![s][c] = NoHandler]
      /\ UNCHANGED <<cvrs, db, syncer, op, client, wants>>
  BY DEF Notice
<1>4. h \in [Clients -> Handler] /\ handler \in [Syncers -> [Clients -> Handler]]
  BY <1>1, Parts DEF Kinds
<1>5. hs[c] = NoHandler /\ \A d \in Clients \ {c} : hs[d] = h[d]
  BY <1>2, <1>4
<1>6. handler' = [handler EXCEPT ![s] = hs]
  BY <1>1, <1>2, <1>3, <1>4
<1>7. syncer' = [syncer EXCEPT ![s] = x] /\ op' = [op EXCEPT ![s] = o]
  BY <1>1, <1>3, Unmoved
<1>8. Serving(x, o, hs, db, cvrs)
  <2>1. Serving(x, o, h, db, cvrs)
    BY <1>1, SettlingParts
  <2> QED
    BY <1>5, <2>1, ServingFewer
<1>9. ASSUME NEW d \in Clients, client'[d].on
      PROVE  client'[d] = client[d] /\ (client[d].at = s => hs[d] = handler[s][d])
  BY <1>1, <1>3, <1>5, <1>9, SettlingParts
<1>10. Losing(s, x, o, hs)
  BY <1>1, <1>3, <1>6, <1>7, <1>8, <1>9 DEF Losing
<1> QED
  BY <1>10, LosingSettles

\* When everybody at a syncer is cut off, nobody stays.
LEMMA NobodyStays ==
    ASSUME IInv, Settling, NEW s \in Syncers, NEW c \in Clients,
           \/ client' = HungUp(s)
           \/ \E lost : RunFails(s, lost),
           client'[c].on
    PROVE  client[c].on /\ client[c].at # s /\ client'[c] = client[c]
<1>1. client[c] \in Client /\ client \in [Clients -> Client]
  BY Parts DEF Kinds
<1>2. PICK cl : cl = HungUp(s)[c]
  OBVIOUS
<1>3. cl = IF Connected(s, c) THEN [client[c] EXCEPT !.on = FALSE, !.receiving = FALSE]
           ELSE client[c]
  BY <1>2 DEF HungUp, Off
<1>4. cl \in Client
  BY <1>1, <1>3 DEF Client
<1>5. client'[c] = cl \/ \E lost : client'[c] = [cl EXCEPT !.lost = @ \/ (lost /\ Connected(s, c))]
  BY <1>2 DEF RunFails
<1>6. client'[c].on = cl.on
  BY <1>4, <1>5 DEF Client
<1>7. ~Connected(s, c)
  BY <1>1, <1>3, <1>6 DEF Client
<1>8. client'[c] = client[c]
  BY <1>1, <1>3, <1>5, <1>7 DEF Client
<1> QED
  BY <1>7, <1>8, SettlingParts

\* A syncer that stops, by itself or because its run loop failed.
LEMMA StoppedSettles ==
    ASSUME IInv, Settling, NEW s \in Syncers, NEW y, syncer' = [syncer EXCEPT ![s] = y],
           NEW o, op' = [op EXCEPT ![s] = o], handler' = [handler EXCEPT ![s] = NoHandlers],
           Serving(y, o, NoHandlers, db, cvrs),
           \/ client' = HungUp(s)
           \/ \E lost : RunFails(s, lost),
           UNCHANGED <<cvrs, db, wants>>
    PROVE  Settling'
<1>1. \A c \in Clients : client'[c].on =>
         client[c].on /\ client[c].at # s /\ client'[c] = client[c]
  BY NobodyStays
<1>2. PICK hs : hs = NoHandlers
  OBVIOUS
<1>3. Losing(s, y, o, hs)
  BY <1>1, <1>2 DEF Losing
<1> QED
  BY <1>3, LosingSettles

LEMMA NobodyServed ==
    ASSUME Settling, NEW s \in Syncers,
           NEW y, y.cvr = syncer[s].cvr, y.pv = syncer[s].pv, y.synced = syncer[s].synced,
           y.ready = syncer[s].ready, y.state = "stopped"
    PROVE  Serving(y, op[s], NoHandlers, db, cvrs)
<1>1. PICK x, o, h, g : x = syncer[s] /\ o = op[s] /\ h = handler[s] /\ g = NoHandlers
  OBVIOUS
<1>2. Serving(x, o, h, db, cvrs)
  BY <1>1, SettlingParts
<1>3. \A c \in Clients : g[c] = NoHandler
  BY <1>1, NoHandlerFacts
<1>4. Serving(y, o, g, db, cvrs)
  BY <1>1, <1>2, <1>3, ServingFewer
<1> QED
  BY <1>1, <1>4

LEMMA StopSettles ==
    ASSUME IInv, Settling, NEW s \in Syncers, Stop(s)
    PROVE  Settling'
<1>1. PICK y : y = [syncer[s] EXCEPT !.state = "stopped"]
  OBVIOUS
<1>2. syncer[s] \in Syncing
  BY Parts
<1>3. /\ y.cvr = syncer[s].cvr /\ y.pv = syncer[s].pv /\ y.synced = syncer[s].synced
      /\ y.ready = syncer[s].ready /\ y.state = "stopped"
  BY <1>1, <1>2 DEF Syncing
<1>4. Serving(y, op[s], NoHandlers, db, cvrs)
  BY <1>3, NobodyServed
<1>5. /\ syncer' = [syncer EXCEPT ![s] = y] /\ op' = [op EXCEPT ![s] = op[s]]
      /\ handler' = [handler EXCEPT ![s] = NoHandlers] /\ client' = HungUp(s)
      /\ UNCHANGED <<cvrs, db, wants>>
  BY <1>1, Unmoved DEF Stop
<1>6. PICK o : o = op[s]
  OBVIOUS
<1> QED
  BY <1>4, <1>5, <1>6, StoppedSettles

LEMMA CrashSettles ==
    ASSUME IInv, Settling, NEW s \in Syncers, Crash(s)
    PROVE  Settling'
<1>1. PICK y : y = [Fresh EXCEPT !.state = "crashed"]
  OBVIOUS
<1>2. y.cvr = NoVersion /\ y.pv = 0 /\ ~y.synced /\ ~y.ready /\ y.state = "crashed"
  BY <1>1 DEF Fresh
<1>3. /\ syncer' = [syncer EXCEPT ![s] = y] /\ op' = [op EXCEPT ![s] = Idle]
      /\ handler' = [handler EXCEPT ![s] = NoHandlers] /\ client' = HungUp(s)
      /\ UNCHANGED <<cvrs, db, wants>>
  BY <1>1 DEF Crash
<1>4. Serving(y, Idle, NoHandlers, db, cvrs)
  <2>1. \A c \in Clients : NoHandlers[c].ws = 0
    BY NoHandlerFacts
  <2>2. Attending(y, Idle, NoHandlers)
    BY <2>1, IdleFacts DEF Attending
  <2>3. Abreast(y, Idle, NoHandlers, db) /\ Trailing(y, Idle, db) /\ Complete(y, Idle, cvrs)
    BY <1>2, IdleFacts DEF Abreast, Trailing, Complete
  <2> QED
    BY <2>2, <2>3 DEF Serving
<1>5. PICK o : o = Idle
  OBVIOUS
<1> QED
  BY <1>3, <1>4, <1>5, StoppedSettles

LEMMA OwnershipSettles ==
    ASSUME IInv, Settling, NEW s \in Syncers, Claim(s) \/ RetryLoad(s)
    PROVE  Settling'
<1>1. syncer[s] \in Syncing /\ syncer \in [Syncers -> Syncing]
  BY Parts DEF Kinds
<1>2. CASE Claim(s)
  <2>1. /\ syncer' = [syncer EXCEPT ![s].claim = 0] /\ db'.version = db.version
        /\ UNCHANGED <<cvrs, handler, op, client, wants>>
    <3>1. db \in Database
      BY Parts DEF Kinds
    <3> QED
      BY <1>2, <3>1 DEF Claim, Database
  <2> QED
    BY <2>1, ClaimSettles
<1>3. CASE RetryLoad(s)
  <2>1. PICK n : n = syncer[s].lct
    OBVIOUS
  <2>2. n \in Nat
    BY <1>1, <2>1 DEF Syncing
  <2>3. syncer' = [syncer EXCEPT ![s].claim = n]
    BY <1>1, <1>3, <2>1 DEF RetryLoad, Claiming
  <2>4. db'.version = db.version /\ UNCHANGED <<cvrs, handler, op, client, wants>>
    BY <1>3 DEF RetryLoad
  <2> QED
    BY <2>2, <2>3, <2>4, ClaimSettles
<1> QED
  BY <1>2, <1>3

\* What a client that is failed leaves behind.
Parted(s, c, hs) ==
    /\ handler' = [handler EXCEPT ![s] = hs]
    /\ hs[c] = NoHandler /\ \A d \in Clients \ {c} : hs[d] = handler[s][d]
    /\ \A d \in Clients : client'[d].on => client'[d] = client[d] /\ (client[d].at = s => d # c)

LEMMA ClientGoes ==
    ASSUME IInv, Settling, NEW s \in Syncers, NEW c \in Clients,
           NEW lost \in BOOLEAN, ClientFails(s, c, lost),
           NEW hs, hs = [handler[s] EXCEPT ![c] = NoHandler]
    PROVE  Parted(s, c, hs)
<1>1. /\ handler' = [handler EXCEPT ![s][c] = NoHandler]
      /\ client' = IF ~Connected(s, c) THEN client
                   ELSE [client EXCEPT ![c] = [Off(@) EXCEPT !.lost = lost]]
  BY DEF ClientFails
<1>2. /\ handler \in [Syncers -> [Clients -> Handler]] /\ client \in [Clients -> Client]
      /\ client[c] \in Client
  BY Parts DEF Kinds
<1>3. ~[Off(client[c]) EXCEPT !.lost = lost].on
  BY <1>2 DEF Off, Client
<1>4. ASSUME NEW d \in Clients, client'[d].on
      PROVE  client'[d] = client[d] /\ (client[d].at = s => d # c)
  <2>1. CASE Connected(s, c)
    BY <1>1, <1>2, <1>3, <1>4, <2>1
  <2>2. CASE ~Connected(s, c)
    BY <1>1, <1>4, <2>2, SettlingParts
  <2> QED
    BY <2>1, <2>2
<1> QED
  BY <1>1, <1>2, <1>4 DEF Parted

\* An operation that fails takes its client, or everybody, with it.
LEMMA FailedServes ==
    ASSUME NEW x, NEW o, NEW h, NEW d, NEW cv, Serving(x, o, h, d, cv), d.version # NoVersion,
           o.pc \in {"idle", "config", "flush", "catchup"},
           NEW g, \A c \in Clients : g[c] = NoHandler \/
                     (g[c] = h[c] /\ ~(Asks(o, c) /\ o.ws = h[c].ws)),
           NEW y, y.cvr = NoVersion, y.pv = x.pv, y.synced = x.synced, y.ready = x.ready,
           y.state \in {x.state, "stopped"}, o.run => y.state # "up"
    PROVE  Serving(y, Idle, g, d, cv)
<1>1. NoHandler.ws = 0
  BY NoHandlerFacts
<1>2. Attending(y, Idle, g)
  BY <1>1, IdleFacts DEF Serving, Attending, Asks
<1>3. Abreast(y, Idle, g, d) /\ Complete(y, Idle, cv)
  BY IdleFacts DEF Abreast, Complete
<1>4. Trailing(y, Idle, d)
  BY IdleFacts DEF Serving, Attending, Trailing
<1> QED
  BY <1>2, <1>3, <1>4 DEF Serving

LEMMA LatestExists ==
    ASSUME IInv
    PROVE  db.version \in DOMAIN cvrs /\ db.version # NoVersion /\ Committed(cvrs, db.version, log)
<1>1. Committed(cvrs, db.version, log) /\ db.version \in DOMAIN cvrs
  BY Parts DEF Coherent, Committed
<1> QED
  BY <1>1, CommittedFacts

LEMMA LoadedSame ==
    ASSUME IInv, NEW s \in Syncers, NEW me, me = Loaded(s)
    PROVE  /\ me \in Syncing /\ me.pv = syncer[s].pv /\ me.synced = syncer[s].synced
           /\ me.ready = syncer[s].ready /\ me.state = syncer[s].state
           /\ syncer[s].cvr # NoVersion => me = syncer[s]
<1>1. syncer[s] \in Syncing /\ db \in Database
  BY Parts DEF Kinds
<1>2. PICK x : x = Claiming(s)
  OBVIOUS
<1>3. x = syncer[s] \/ x = [syncer[s] EXCEPT !.claim = syncer[s].lct]
  BY <1>2 DEF Claiming
<1>4. /\ x \in Syncing /\ x.pv = syncer[s].pv /\ x.synced = syncer[s].synced
      /\ x.ready = syncer[s].ready /\ x.state = syncer[s].state
  BY <1>1, <1>3 DEF Syncing
<1>5. me = syncer[s] \/ (syncer[s].cvr = NoVersion /\ me = [x EXCEPT !.cvr = db.version])
  BY <1>2 DEF Loaded, HasCvr
<1> QED
  BY <1>1, <1>4, <1>5 DEF Syncing, Database, Cookie

LEMMA LoadFailsSettles ==
    ASSUME IInv, Settling, NEW s \in Syncers, LoadFails(s)
    PROVE  Settling'
<1>1. UNCHANGED <<cvrs, db, op, wants>>
  BY DEF LoadFails
<1>2. op[s] = Idle /\ op' = [op EXCEPT ![s] = Idle]
  BY <1>1, Unmoved DEF LoadFails, Called, Woken, Free
<1>3. CASE \E c \in Clients : ClientFails(s, c, ~Deposed(s)) /\ UNCHANGED syncer
  <2>1. PICK c \in Clients : ClientFails(s, c, ~Deposed(s)) /\ UNCHANGED syncer
    BY <1>3
  <2>2. PICK hs : hs = [handler[s] EXCEPT ![c] = NoHandler]
    OBVIOUS
  <2>3. PICK lost : lost = ~Deposed(s)
    OBVIOUS
  <2>4. ClientFails(s, c, lost) /\ lost \in BOOLEAN
    BY <2>1, <2>3
  <2>5. /\ handler' = [handler EXCEPT ![s] = hs]
        /\ hs[c] = NoHandler /\ \A d \in Clients \ {c} : hs[d] = handler[s][d]
        /\ \A d \in Clients : client'[d].on =>
              /\ client'[d] = client[d] /\ (client[d].at = s => d # c)
    <3>1. Parted(s, c, hs)
      BY <2>2, <2>4, ClientGoes
    <3> QED
      BY <3>1 DEF Parted
  <2>6. PICK x, o, h : x = syncer[s] /\ o = Idle /\ h = handler[s]
    OBVIOUS
  <2>7. Serving(x, o, hs, db, cvrs)
    <3>1. Serving(x, o, h, db, cvrs)
      BY <1>2, <2>6, SettlingParts
    <3>2. \A d \in Clients : hs[d] = h[d] \/ hs[d] = NoHandler
      BY <2>5, <2>6
    <3> QED
      BY <3>1, <3>2, ServingFewer
  <2>8. syncer' = [syncer EXCEPT ![s] = x]
    BY <2>1, <2>6, Unmoved
  <2>9. Losing(s, x, o, hs)
    BY <1>1, <1>2, <2>5, <2>6, <2>7, <2>8 DEF Losing
  <2> QED
    BY <2>9, LosingSettles
<1>4. CASE RunFails(s, ~Deposed(s)) /\ syncer' = [syncer EXCEPT ![s].state = "stopped"]
  <2>1. PICK y : y = [syncer[s] EXCEPT !.state = "stopped"]
    OBVIOUS
  <2>2. syncer[s] \in Syncing
    BY Parts
  <2>3. /\ y.cvr = syncer[s].cvr /\ y.pv = syncer[s].pv /\ y.synced = syncer[s].synced
        /\ y.ready = syncer[s].ready /\ y.state = "stopped"
    BY <2>1, <2>2 DEF Syncing
  <2>4. Serving(y, Idle, NoHandlers, db, cvrs)
    BY <1>2, <2>3, NobodyServed
  <2>5. PICK o : o = Idle
    OBVIOUS
  <2>6. handler' = [handler EXCEPT ![s] = NoHandlers] /\ syncer' = [syncer EXCEPT ![s] = y]
    BY <1>4, <2>1 DEF RunFails
  <2>7. \E lost : RunFails(s, lost)
    BY <1>4
  <2> QED
    BY <1>1, <1>2, <2>4, <2>5, <2>6, <2>7, StoppedSettles
<1> QED
  BY <1>3, <1>4 DEF LoadFails

LEMMA RefuseSettles ==
    ASSUME IInv, Settling, NEW c \in Clients, NEW s \in Syncers, Refuse(s, c)
    PROVE  Settling'
<1>1. PICK me : me = Loaded(s)
  OBVIOUS
<1>2. PICK y : y = [me EXCEPT !.cvr = NoVersion]
  OBVIOUS
<1>3. /\ ClientFails(s, c, TRUE) /\ UNCHANGED <<cvrs, db, op, wants>>
      /\ syncer' = [syncer EXCEPT ![s] = y]
      /\ op[s] = Idle
  BY <1>1, <1>2 DEF Refuse, Called, Free
<1>4. PICK hs : hs = [handler[s] EXCEPT ![c] = NoHandler]
  OBVIOUS
<1>5. /\ handler' = [handler EXCEPT ![s] = hs]
      /\ hs[c] = NoHandler /\ \A d \in Clients \ {c} : hs[d] = handler[s][d]
      /\ \A d \in Clients : client'[d].on =>
            /\ client'[d] = client[d] /\ (client[d].at = s => d # c)
  <2>1. Parted(s, c, hs)
    BY <1>3, <1>4, ClientGoes
  <2> QED
    BY <2>1 DEF Parted
<1>6. PICK x, o, h : x = syncer[s] /\ o = Idle /\ h = handler[s]
  OBVIOUS
<1>7. /\ y.cvr = NoVersion /\ y.pv = x.pv /\ y.synced = x.synced /\ y.ready = x.ready
      /\ y.state = x.state
  <2>1. /\ me \in Syncing /\ me.pv = x.pv /\ me.synced = x.synced /\ me.ready = x.ready
        /\ me.state = x.state
    BY <1>1, <1>6, LoadedSame
  <2> QED
    BY <1>2, <2>1 DEF Syncing
<1>8. Serving(y, o, hs, db, cvrs)
  <2>1. Serving(x, o, h, db, cvrs)
    BY <1>3, <1>6, SettlingParts
  <2>2. o.pc = "idle" /\ ~o.run
    BY <1>6, IdleFacts
  <2>3. \A d \in Clients : hs[d] = NoHandler \/ (hs[d] = h[d] /\ ~(Asks(o, d) /\ o.ws = h[d].ws))
    BY <1>5, <1>6, <2>2 DEF Asks
  <2>4. Serving(y, Idle, hs, db, cvrs)
    BY <1>7, <2>1, <2>2, <2>3, LatestExists, FailedServes
  <2> QED
    BY <1>6, <2>4
<1>9. op' = [op EXCEPT ![s] = o]
  BY <1>3, <1>6, Unmoved
<1>10. ASSUME NEW d \in Clients, client'[d].on
       PROVE  /\ client[d].on /\ client'[d].at = client[d].at
              /\ client[d].at # s => client'[d] = client[d]
              /\ client[d].at = s =>
                    /\ client'[d].ws = client[d].ws /\ client'[d].cookie = client[d].cookie
                    /\ hs[d] = handler[s][d] /\ y.state = syncer[s].state
                    /\ Clients # {d}
  BY <1>5, <1>6, <1>7, <1>10
<1>11. Losing(s, y, o, hs)
  BY <1>3, <1>5, <1>8, <1>9, <1>10 DEF Losing
<1> QED
  BY <1>11, LosingSettles

LEMMA OperationFailsSettles ==
    ASSUME IInv, Settling, NEW s \in Syncers, op[s].pc # "idle", NEW cache, OperationFails(s, cache),
           UNCHANGED <<cvrs, db, wants>>
    PROVE  Settling'
<1>1. PICK x, o, h : x = syncer[s] /\ o = op[s] /\ h = handler[s]
  OBVIOUS
<1>2. PICK mine \in BOOLEAN : mine <=> handler[s][o.c].ws = o.ws
  OBVIOUS
<1>3. PICK me : me = [x EXCEPT !.cvr = NoVersion, !.cache = cache]
  OBVIOUS
<1>4. /\ op' = [op EXCEPT ![s] = Idle]
      /\ IF o.run
         THEN RunFails(s, FALSE) /\ syncer' = [syncer EXCEPT ![s] = [me EXCEPT !.state =
                                        IF @ = "up" THEN "stopped" ELSE @]]
         ELSE /\ syncer' = [syncer EXCEPT ![s] = me]
              /\ handler' = IF mine THEN [handler EXCEPT ![s][o.c] = NoHandler] ELSE handler
              /\ client' = [c \in Clients |->
                    IF c = o.c /\ mine /\ Connected(s, c) THEN Off(client[c])
                    ELSE IF c \in Served(s, o) /\ Started(handler[s][c], o)
                    THEN Dangling(s, c) ELSE client[c]]
  BY <1>1, <1>2, <1>3 DEF OperationFails
<1>5. /\ x \in Syncing /\ Working(x, o, cvrs, log)
      /\ handler \in [Syncers -> [Clients -> Handler]] /\ client \in [Clients -> Client]
  BY <1>1, Parts DEF Kinds, Going
<1>6. /\ me.cvr = NoVersion /\ me.pv = x.pv /\ me.synced = x.synced /\ me.ready = x.ready
      /\ me.state = x.state /\ "state" \in DOMAIN me
  BY <1>3, <1>5 DEF Syncing
<1>7. /\ Serving(x, o, h, db, cvrs) /\ Attending(x, o, h) /\ o.pc # "idle"
      /\ o.pc \in {"idle", "config", "flush", "catchup"}
  BY <1>1, <1>5, SettlingParts DEF Working
<1>8. CASE o.run
  <2>1. PICK y : y = [me EXCEPT !.state = IF @ = "up" THEN "stopped" ELSE @]
    OBVIOUS
  <2>2. /\ y.cvr = NoVersion /\ y.pv = x.pv /\ y.synced = x.synced /\ y.ready = x.ready
        /\ y.state \in {x.state, "stopped"} /\ y.state # "up"
    BY <1>6, <2>1
  <2>3. PICK g : g = NoHandlers
    OBVIOUS
  <2>4. \A c \in Clients : g[c] = NoHandler
    BY <2>3, NoHandlerFacts
  <2>5. Serving(y, Idle, g, db, cvrs)
    BY <1>7, <2>2, <2>4, LatestExists, FailedServes
  <2>6. PICK u : u = Idle
    OBVIOUS
  <2>7. /\ syncer' = [syncer EXCEPT ![s] = y] /\ op' = [op EXCEPT ![s] = u]
        /\ handler' = [handler EXCEPT ![s] = NoHandlers] /\ \E lost : RunFails(s, lost)
        /\ Serving(y, u, NoHandlers, db, cvrs)
    BY <1>4, <1>8, <2>1, <2>3, <2>5, <2>6 DEF RunFails
  <2> QED
    BY <2>7, StoppedSettles
<1>9. CASE ~o.run
  <2>1. o.c \in Clients
    BY <1>7, <1>9 DEF Attending
  <2>2. PICK hs : hs = IF mine THEN [h EXCEPT ![o.c] = NoHandler] ELSE h
    OBVIOUS
  <2>3. \A c \in Clients : hs[c] = IF c = o.c /\ mine THEN NoHandler ELSE h[c]
    BY <1>1, <1>5, <2>2
  <2>4. handler' = [handler EXCEPT ![s] = hs]
    BY <1>1, <1>4, <1>5, <1>9, <2>2
  <2>5. Serving(me, Idle, hs, db, cvrs)
    <3>1. \A c \in Clients : hs[c] = NoHandler \/
             (hs[c] = h[c] /\ ~(Asks(o, c) /\ o.ws = h[c].ws))
      BY <1>1, <1>2, <2>3 DEF Asks
    <3> QED
      BY <1>6, <1>7, <1>9, <3>1, LatestExists, FailedServes
  <2>6. ASSUME NEW c \in Clients, client'[c].on
        PROVE  /\ client[c].on /\ client'[c].at = client[c].at
               /\ client[c].at # s => client'[c] = client[c]
               /\ client[c].at = s =>
                     /\ client'[c].ws = client[c].ws /\ client'[c].cookie = client[c].cookie
                     /\ hs[c] = handler[s][c] /\ me.state = syncer[s].state
                     /\ Clients = {c} => handler[s][c].msg # "none"
    <3>1. client[c] \in Client
      BY <1>5
    <3>2. PICK cl : cl = client[c]
      OBVIOUS
    <3>3. ~(c = o.c /\ mine /\ Connected(s, c))
      <4>1. ~Off(cl).on
        BY <3>1, <3>2 DEF Off, Client
      <4> QED
        BY <1>4, <1>9, <2>6, <3>2, <4>1
    <3>4. client'[c] = cl \/ client'[c] = [cl EXCEPT !.receiving = Connected(s, c) \/ @]
      BY <1>4, <1>9, <3>2, <3>3 DEF Dangling
    <3>5. /\ client'[c].on = cl.on /\ client'[c].at = cl.at /\ client'[c].ws = cl.ws
          /\ client'[c].cookie = cl.cookie
      BY <3>1, <3>2, <3>4 DEF Client
    <3>6. cl.at # s => client'[c] = cl
      BY <3>1, <3>2, <3>4 DEF Client, Connected
    <3>7. ASSUME cl.at = s
          PROVE  /\ hs[c] = handler[s][c]
                 /\ Clients = {c} => handler[s][c].msg # "none"
      <4>1. Connected(s, c) /\ handler[s][c].ws # 0
        BY <2>6, <3>2, <3>5, <3>7, SettlingParts DEF Linked
      <4>2. ~(c = o.c /\ mine)
        BY <3>3, <4>1
      <4>3. ASSUME Clients = {c}
            PROVE  handler[s][c].msg # "none"
        <5>1. o.c = c /\ ~mine
          BY <2>1, <4>2, <4>3
        <5>2. Asks(o, c) /\ o.ws # h[c].ws
          BY <1>1, <1>2, <1>7, <1>9, <5>1 DEF Asks
        <5> QED
          BY <1>1, <1>7, <4>1, <5>2 DEF Attending
      <4> QED
        BY <1>1, <2>3, <4>2, <4>3
    <3> QED
      BY <1>1, <1>6, <2>6, <3>2, <3>5, <3>6, <3>7
  <2>7. PICK u : u = Idle
    OBVIOUS
  <2>8. Losing(s, me, u, hs)
    BY <1>4, <1>9, <2>4, <2>5, <2>6, <2>7 DEF Losing
  <2> QED
    BY <2>8, LosingSettles
<1> QED
  BY <1>8, <1>9

LEMMA FailuresSettle ==
    ASSUME IInv, Settling, NEW s \in Syncers, FlushFails(s) \/ CatchupFails(s)
    PROVE  Settling'
<1>1. CASE FlushFails(s)
  <2>1. PICK cache : cache = None
    OBVIOUS
  <2>2. op[s].pc # "idle" /\ OperationFails(s, cache) /\ UNCHANGED <<cvrs, db, wants>>
    BY <1>1, <2>1 DEF FlushFails
  <2> QED
    BY <2>2, OperationFailsSettles
<1>2. CASE CatchupFails(s)
  <2>1. PICK cache : cache = syncer[s].cache
    OBVIOUS
  <2>2. op[s].pc # "idle" /\ OperationFails(s, cache) /\ UNCHANGED <<cvrs, db, wants>>
    BY <1>2, <2>1 DEF CatchupFails
  <2> QED
    BY <2>2, OperationFailsSettles
<1> QED
  BY <1>1, <1>2

-----------------------------------------------------------------------------
(* Operations that start. *)

\* What #syncQueryPipelineSet starts from, and what it leaves to be flushed and
\* poked: everything the CVR lists is hydrated, everybody connected is poked.
Launching(me, v, cr, who) ==
    /\ me \in Syncing /\ Beginning(who) /\ v \in Version
    /\ cr.got \subseteq cr.queries /\ me.hydrated \subseteq cr.got /\ Listed(cr)

Launched(me, v, cr, h, who, y, o) ==
    /\ y.state = me.state /\ y.cvr = v /\ y.pv = me.pv /\ y.synced = me.synced /\ y.ready = me.ready
    /\ o.c = who.c /\ o.ws = who.ws /\ o.run = who.run /\ o.from = v /\ ~o.advance
    /\ o.pokers = [c \in {d \in Clients : h[d].ws # 0} |-> h[c].ws]
    /\ o.to \in Version /\ AtMost(v, o.to)
    /\ o.pc \in {"flush", "catchup"}
    /\ o.pc = "catchup" => Even(cr)
    /\ o.pc = "flush" => /\ o.queries = o.got /\ Desired(cr) \subseteq o.queries
                         /\ ~o.writes => Even(cr)

LEMMA SyncLaunches ==
    ASSUME NEW s \in Syncers, NEW me, NEW v, NEW cr, NEW cache, NEW hs, NEW who,
           Sync(s, me, v, cr, cache, hs, who), Launching(me, v, cr, who), NEW h, h = hs[s]
    PROVE  \E y : \E o : /\ syncer' = [syncer EXCEPT ![s] = y] /\ op' = [op EXCEPT ![s] = o]
                         /\ Launched(me, v, cr, h, who, y, o)
<1>1. PICK expired \in SUBSET (cr.queries \ Desired(cr)) :
       LET adds == (cr.queries \ expired) \ me.hydrated
           to == IF me.pv > v[1] THEN <<me.pv, 0>> ELSE OneAfter(v)
           received == [r \in Rows |-> IF r \in Hits(adds, log[me.pv]) THEN log[me.pv][r] ELSE 0]
           new == Resynced(cache, adds, expired, log[me.pv], to)
           rows == Changes(cache, new)
           requeried == expired # {} \/ ~(adds \subseteq cr.got)
           sockets == [c \in {d \in Clients : hs[s][d].ws # 0} |-> hs[s][c].ws]
           next == [me EXCEPT !.cvr = v]
       IN IF adds \cup expired = {}
          THEN /\ op' = [op EXCEPT ![s] = [who EXCEPT !.pc = "catchup", !.from = v, !.to = v,
                                                      !.pokers = sockets]]
               /\ syncer' = [syncer EXCEPT ![s] = next]
          ELSE /\ op' = [op EXCEPT ![s] = [who EXCEPT !.pc = "flush", !.from = v, !.to = to,
                            !.bad = me.pv < v[1], !.noted = requeried,
                            !.writes = requeried \/ rows # None,
                            !.queries = cr.queries \ expired, !.got = (cr.got \ expired) \cup adds,
                            !.adds = adds, !.rows = rows, !.pokers = sockets,
                            !.patches = Patches(cache, new, received, to)]]
               /\ syncer' = [syncer EXCEPT ![s] =
                                [next EXCEPT !.cache = cache,
                                             !.hydrated = (@ \ expired) \cup adds]]
  BY DEF Sync
<1> DEFINE adds == (cr.queries \ expired) \ me.hydrated
           to == IF me.pv > v[1] THEN <<me.pv, 0>> ELSE OneAfter(v)
           received == [r \in Rows |-> IF r \in Hits(adds, log[me.pv]) THEN log[me.pv][r] ELSE 0]
           new == Resynced(cache, adds, expired, log[me.pv], to)
           rows == Changes(cache, new)
           requeried == expired # {} \/ ~(adds \subseteq cr.got)
           sockets == [c \in {d \in Clients : hs[s][d].ws # 0} |-> hs[s][c].ws]
           patches == Patches(cache, new, received, to)
           writes == requeried \/ rows # None
           queries == cr.queries \ expired
           got == (cr.got \ expired) \cup adds
           next == [me EXCEPT !.cvr = v]
           rest == [who EXCEPT !.pc = "catchup", !.from = v, !.to = v, !.pokers = sockets]
           update == [who EXCEPT !.pc = "flush", !.from = v, !.to = to, !.bad = me.pv < v[1],
                           !.noted = requeried, !.writes = writes, !.queries = queries,
                           !.got = got, !.adds = adds, !.rows = rows, !.pokers = sockets,
                           !.patches = patches]
           updating == [next EXCEPT !.cache = cache, !.hydrated = (@ \ expired) \cup adds]
<1>2. /\ me \in Syncing /\ DOMAIN who = DOMAIN Idle /\ ~who.advance
      /\ cr.got \subseteq cr.queries /\ me.hydrated \subseteq cr.got /\ Desired(cr) \subseteq cr.queries
  BY DEF Launching, Beginning, Listed
<1>3. to \in Version /\ Less(v, to) /\ v \in Version
  <2>1. v \in Version /\ v[1] \in Nat /\ me.pv \in Nat
    BY DEF Launching, Syncing, Version
  <2> QED
    BY <2>1, VersionNext
<1>4. sockets = [c \in {d \in Clients : h[d].ws # 0} |-> h[c].ws]
  OBVIOUS
<1>5. CASE adds \cup expired = {}
  <2>1. op' = [op EXCEPT ![s] = rest] /\ syncer' = [syncer EXCEPT ![s] = next]
    BY <1>1, <1>5
  <2>2. Even(cr)
    BY <1>2, <1>5 DEF Even
  <2> HIDE DEF sockets, adds
  <2>3. PICK y, o : y = next /\ o = rest
    OBVIOUS
  <2>4. /\ y.state = me.state /\ y.cvr = v /\ y.pv = me.pv /\ y.synced = me.synced
        /\ y.ready = me.ready
    BY <1>2, <2>3 DEF Syncing
  <2>5. /\ o.c = who.c /\ o.ws = who.ws /\ o.run = who.run /\ o.from = v /\ ~o.advance
        /\ o.pokers = sockets /\ o.pc = "catchup" /\ o.to = v
    BY <1>2, <2>3, IdleFacts
  <2>6. Launched(me, v, cr, h, who, y, o)
    BY <1>4, <1>3, <2>2, <2>4, <2>5 DEF Launched, AtMost
  <2> QED
    BY <2>1, <2>3, <2>6
<1>6. CASE adds \cup expired # {}
  <2>1. op' = [op EXCEPT ![s] = update] /\ syncer' = [syncer EXCEPT ![s] = updating]
    BY <1>1, <1>6
  <2>2. /\ queries = got /\ Desired(cr) \subseteq queries
        /\ expired = {} /\ adds \subseteq cr.got => Even(cr)
    BY <1>2 DEF Even
  <2>3. ~writes => Even(cr)
    BY <2>2
  <2> HIDE DEF sockets, adds, to, received, new, rows, requeried, patches, writes, queries, got
  <2>4. PICK y, o : y = updating /\ o = update
    OBVIOUS
  <2>5. /\ y.state = me.state /\ y.cvr = v /\ y.pv = me.pv /\ y.synced = me.synced
        /\ y.ready = me.ready
    BY <1>2, <2>4 DEF Syncing
  <2>6. /\ o.c = who.c /\ o.ws = who.ws /\ o.run = who.run /\ o.from = v /\ ~o.advance
        /\ o.pokers = sockets /\ o.pc = "flush" /\ o.queries = queries /\ o.got = got
        /\ o.writes = writes /\ o.to = to
    BY <1>2, <2>4, IdleFacts
  <2>7. Launched(me, v, cr, h, who, y, o)
    BY <1>4, <1>3, <2>2, <2>3, <2>5, <2>6 DEF Launched, AtMost
  <2> QED
    BY <2>1, <2>4, <2>7
<1> QED
  BY <1>5, <1>6

LEMMA LaunchedServes ==
    ASSUME NEW me, NEW v, NEW cr, NEW h, NEW who, NEW y, NEW o, Launched(me, v, cr, h, who, y, o),
           me.synced \/ who.run, ~who.run => who.c \in Clients,
           \A c \in Clients : h[c].ws # 0 =>
              /\ h[c].msg = "none" => me.ready \/ (~who.run /\ who.c = c /\ who.ws = h[c].ws)
              /\ ~who.run /\ who.c = c /\ who.ws # h[c].ws => h[c].msg = "init",
           me.state = "none" => me.pv = 0, NEW d, NEW more, more[v] = cr
    PROVE  Serving(y, o, h, d, more)
<1>1. /\ y.state = me.state /\ y.cvr = v /\ y.pv = me.pv /\ y.synced = me.synced /\ y.ready = me.ready
      /\ o.c = who.c /\ o.ws = who.ws /\ o.run = who.run /\ o.from = v /\ ~o.advance
      /\ o.pokers = [c \in {d1 \in Clients : h[d1].ws # 0} |-> h[c].ws]
      /\ o.pc \in {"flush", "catchup"} /\ o.pc # "idle" /\ o.pc # "config"
      /\ o.to \in Version /\ AtMost(o.from, o.to)
      /\ o.pc = "catchup" => Even(cr)
      /\ o.pc = "flush" => /\ o.queries = o.got /\ Desired(cr) \subseteq o.queries
                           /\ ~o.writes => Even(cr)
  BY DEF Launched
<1>2. Reached(o, h)
  BY <1>1 DEF Reached, Heard
<1>3. Attending(y, o, h)
  BY <1>1, <1>2 DEF Attending, Asks
<1>4. Abreast(y, o, h, d) /\ Trailing(y, o, d) /\ Complete(y, o, more)
  BY <1>1 DEF Abreast, Trailing, Complete
<1> QED
  BY <1>3, <1>4 DEF Serving

\* Free of an operation, and not without the CVR its pipelines are of.
LEMMA FreeFacts ==
    ASSUME IInv, Settling, ~Survivors, NEW s \in Syncers, Free(s), Loads(s), NEW me, me = Loaded(s),
           NEW v, v = me.cvr, NEW cr, cr = cvrs[v]
    PROVE  /\ me \in Syncing /\ me.cvr = v /\ me.state = "up" /\ op[s] = Idle
           /\ me.pv = syncer[s].pv /\ me.synced = syncer[s].synced /\ me.ready = syncer[s].ready
           /\ v \in DOMAIN cvrs /\ v \in Version /\ v # NoVersion
           /\ syncer[s].cvr # NoVersion => me = syncer[s]
           /\ cr.got \subseteq cr.queries /\ cr.queries \subseteq Queries /\ Listed(cr)
           /\ me.synced => me = syncer[s] /\ Even(cr) /\ me.hydrated = cr.got
<1>1. PICK cache : cache = CacheOf(s)
  OBVIOUS
<1>2. /\ me \in Syncing /\ me.cvr = v /\ me.state = "up" /\ op[s] = Idle
      /\ Going(me, Idle, pending[s], db, cvrs, log)
      /\ v \in DOMAIN cvrs /\ v \in Version /\ v # NoVersion
      /\ Recording(cr, v, cvrs, log)
  BY <1>1, TurnFacts
<1>3. /\ me.pv = syncer[s].pv /\ me.synced = syncer[s].synced /\ me.ready = syncer[s].ready
      /\ syncer[s].cvr # NoVersion => me = syncer[s]
  BY LoadedSame
<1>4. syncer[s].synced => syncer[s].cvr # NoVersion
  BY DEF Free, Stranded
<1>5. Listed(cr)
  BY <1>2, SettlingParts
<1>6. ASSUME me.synced
      PROVE  Even(cr) /\ me.hydrated = cr.got
  <2>1. Complete(me, Idle, cvrs)
    BY <1>2, <1>3, <1>4, <1>6, SettlingParts
  <2> QED
    BY <1>2, <1>6, <2>1, IdleFacts DEF Complete, Going, Working
<1> QED
  BY <1>2, <1>3, <1>4, <1>5, <1>6 DEF Recording, Cvr

LEMMA ServeSettles ==
    ASSUME IInv, Settling, ~Survivors, NEW c \in Clients, NEW s \in Syncers, Serve(s, c)
    PROVE  Settling'
<1>1. PICK me, v, cr : me = Loaded(s) /\ v = me.cvr /\ cr = cvrs[v]
  OBVIOUS
<1>2. PICK x, h : x = syncer[s] /\ h = handler[s]
  OBVIOUS
<1>3. PICK who : who = ClientOp(c, h[c].ws)
  OBVIOUS
<1>4. PICK hs : hs = [h EXCEPT ![c].msg = "none"]
  OBVIOUS
<1>5. /\ UNCHANGED <<cvrs, db, client, wants>> /\ Free(s) /\ Loads(s)
      /\ handler' = [handler EXCEPT ![s][c].msg = "none"]
      /\ IF cr.desired[c] # wants[c]
         THEN /\ op' = [op EXCEPT ![s] = [who EXCEPT !.pc = "config", !.from = v,
                                                     !.to = OneAfter(v)]]
              /\ syncer' = [syncer EXCEPT ![s] = me]
         ELSE IF me.synced
         THEN Sync(s, me, v, cr, CacheOf(s), handler', who)
         ELSE op' = op /\ syncer' = [syncer EXCEPT ![s] = [me EXCEPT !.ready = TRUE]]
  BY <1>1, <1>2, <1>3 DEF Serve, Called
<1>6. /\ me \in Syncing /\ me.cvr = v /\ me.state = "up" /\ op[s] = Idle
      /\ me.pv = x.pv /\ me.synced = x.synced /\ me.ready = x.ready
      /\ v \in DOMAIN cvrs /\ v \in Version /\ v # NoVersion /\ x.state = "up"
      /\ cr.got \subseteq cr.queries /\ Listed(cr)
      /\ me.synced => me = x /\ Even(cr) /\ me.hydrated = cr.got
  <2>1. x.state = "up"
    BY <1>2, <1>5 DEF Free
  <2>2. Free(s) /\ Loads(s)
    BY <1>5
  <2> QED
    BY <1>1, <1>2, <2>1, <2>2, FreeFacts
<1>7. /\ handler' = [handler EXCEPT ![s] = hs] /\ handler'[s] = hs
      /\ hs[c].msg = "none" /\ hs[c].ws = h[c].ws /\ hs[c].base = h[c].base
      /\ \A d \in Clients \ {c} : hs[d] = h[d]
  <2>1. handler \in [Syncers -> [Clients -> Handler]] /\ h[c] \in Handler
    BY <1>2, Parts DEF Kinds
  <2> QED
    BY <1>2, <1>4, <1>5, <2>1 DEF Handler
<1>8. Attending(x, Idle, h) /\ Trailing(x, Idle, db)
  BY <1>2, <1>6, SettlingParts
<1>9. \A d \in Clients : h[d].ws # 0 /\ h[d].msg = "none" => me.ready
  BY <1>6, <1>8, IdleFacts DEF Attending, Asks
<1>10. who.pc = "idle" /\ who.c = c /\ who.ws = h[c].ws /\ ~who.run /\ Beginning(who)
  BY <1>3, Beginnings DEF ClientOp, Idle
<1>11. \E y : \E o :
          /\ syncer' = [syncer EXCEPT ![s] = y] /\ op' = [op EXCEPT ![s] = o]
          /\ Serving(y, o, hs, db, cvrs) /\ y.state = "up"
          /\ o.pc = "config" \/ (y.cvr = v /\ cr.desired[c] = wants[c])
  <2>1. CASE cr.desired[c] # wants[c]
    <3>1. PICK o : o = [who EXCEPT !.pc = "config", !.from = v, !.to = OneAfter(v)]
      OBVIOUS
    <3>2. /\ o.pc = "config" /\ o.from = v /\ o.c = c /\ o.ws = h[c].ws /\ ~o.run
      BY <1>10, <3>1, IdleFacts DEF Beginning
    <3>3. Attending(me, o, hs)
      BY <1>7, <1>9, <3>2 DEF Attending, Asks
    <3>4. Abreast(me, o, hs, db)
      BY <3>2 DEF Abreast
    <3>5. Trailing(me, o, db)
      BY <1>6, <1>8, <3>2, IdleFacts DEF Trailing
    <3>6. Complete(me, o, cvrs)
      BY <1>1, <1>6, <3>2 DEF Complete
    <3>7. Serving(me, o, hs, db, cvrs)
      BY <3>3, <3>4, <3>5, <3>6 DEF Serving
    <3>8. syncer' = [syncer EXCEPT ![s] = me] /\ op' = [op EXCEPT ![s] = o]
      BY <1>5, <2>1, <3>1
    <3> QED
      BY <1>6, <3>2, <3>7, <3>8
  <2>2. CASE cr.desired[c] = wants[c] /\ me.synced
    <3>1. PICK both, cache : both = handler' /\ cache = CacheOf(s)
      OBVIOUS
    <3>2. Sync(s, me, v, cr, cache, both, who) /\ hs = both[s]
      BY <1>5, <1>7, <2>2, <3>1
    <3>3. Launching(me, v, cr, who)
      BY <1>6, <1>10, <2>2 DEF Launching
    <3>4. PICK y : \E o : /\ syncer' = [syncer EXCEPT ![s] = y] /\ op' = [op EXCEPT ![s] = o]
                          /\ Launched(me, v, cr, hs, who, y, o)
      BY <3>2, <3>3, SyncLaunches
    <3>5. PICK o : /\ syncer' = [syncer EXCEPT ![s] = y] /\ op' = [op EXCEPT ![s] = o]
                   /\ Launched(me, v, cr, hs, who, y, o)
      BY <3>4
    <3>6. \A d \in Clients : hs[d].ws # 0 =>
             /\ hs[d].msg = "none" => me.ready \/ (~who.run /\ who.c = d /\ who.ws = hs[d].ws)
             /\ ~who.run /\ who.c = d /\ who.ws # hs[d].ws => hs[d].msg = "init"
      BY <1>7, <1>9, <1>10
    <3>7. Serving(y, o, hs, db, cvrs)
      BY <1>1, <1>6, <1>10, <2>2, <3>5, <3>6, LaunchedServes
    <3>8. y.state = "up" /\ y.cvr = v
      BY <1>6, <3>5 DEF Launched
    <3> QED
      BY <2>2, <3>5, <3>7, <3>8
  <2>3. CASE cr.desired[c] = wants[c] /\ ~me.synced
    <3>1. PICK y, o : y = [me EXCEPT !.ready = TRUE] /\ o = Idle
      OBVIOUS
    <3>2. op' = [op EXCEPT ![s] = o] /\ syncer' = [syncer EXCEPT ![s] = y]
      BY <1>5, <1>6, <2>3, <3>1, Unmoved
    <3>3. y.cvr = v /\ y.state = "up" /\ y.pv = x.pv /\ y.synced = FALSE /\ y.ready = TRUE
          /\ o.pc = "idle"
      BY <1>6, <2>3, <3>1, IdleFacts DEF Syncing
    <3>4. Attending(y, o, hs) /\ Abreast(y, o, hs, db) /\ Complete(y, o, cvrs)
      BY <3>3 DEF Attending, Abreast, Complete, Asks
    <3>5. Trailing(y, o, db)
      BY <1>6, <1>8, <2>3, <3>3, IdleFacts DEF Trailing
    <3> QED
      BY <2>3, <3>2, <3>3, <3>4, <3>5 DEF Serving
  <2> QED
    BY <2>1, <2>2, <2>3
<1>12. PICK y : \E o :
          /\ syncer' = [syncer EXCEPT ![s] = y] /\ op' = [op EXCEPT ![s] = o]
          /\ Serving(y, o, hs, db, cvrs) /\ y.state = "up"
          /\ o.pc = "config" \/ (y.cvr = v /\ cr.desired[c] = wants[c])
  BY <1>11
<1>13. PICK o :
          /\ syncer' = [syncer EXCEPT ![s] = y] /\ op' = [op EXCEPT ![s] = o]
          /\ Serving(y, o, hs, db, cvrs) /\ y.state = "up"
          /\ o.pc = "config" \/ (y.cvr = v /\ cr.desired[c] = wants[c])
  BY <1>12
<1>14. ASSUME NEW d \in Clients, client'[d].on
       PROVE  \/ client'[d].at = s /\ Linked(client'[d], y, o, hs[d], cvrs', wants[d], d)
              \/ client[d].at # s /\ client'[d] = client[d]
  <2>1. client'[d] = client[d] /\ cvrs' = cvrs
    BY <1>5
  <2>2. client[d].at = s => Linked(client[d], x, op[s], h[d], cvrs, wants[d], d)
    BY <1>2, <1>14, <2>1, SettlingParts
  <2>3. ASSUME client[d].at = s
        PROVE  Linked(client[d], y, o, hs[d], cvrs, wants[d], d)
    <3>1. /\ client[d].ws # 0 /\ hs[d].ws = client[d].ws /\ hs[d].base = client[d].cookie
      BY <1>7, <2>2, <2>3 DEF Linked
    <3>2. ASSUME Clients = {d}, o.pc # "config"
          PROVE  y.cvr # NoVersion /\ cvrs[y.cvr].desired[d] = wants[d]
      BY <1>1, <1>6, <1>13, <3>2
    <3> QED
      BY <1>13, <3>1, <3>2 DEF Linked
  <2> QED
    BY <2>1, <2>2, <2>3
<1>15. Serving(y, o, hs, db', cvrs')
  BY <1>5, <1>13
<1>16. Turned(s, y, o, hs)
  BY <1>5, <1>7, <1>13, <1>14, <1>15 DEF Turned
<1>17. Onward
  BY <1>5 DEF Onward
<1> QED
  BY <1>16, <1>17, SyncerSettles

\* A turn of the run loop leaves the handlers and the clients alone.
LEMMA TurnSettles ==
    ASSUME IInv, Settling, NEW s \in Syncers, NEW y, syncer' = [syncer EXCEPT ![s] = y],
           NEW o, op' = [op EXCEPT ![s] = o], Serving(y, o, handler[s], db, cvrs),
           op[s] = Idle, y.state = "up", o.pc # "config",
           syncer[s].cvr # NoVersion => y.cvr = syncer[s].cvr,
           UNCHANGED <<cvrs, db, handler, client, wants>>
    PROVE  Settling'
<1>1. PICK x, h : x = syncer[s] /\ h = handler[s]
  OBVIOUS
<1>2. ASSUME NEW d \in Clients, client'[d].on
      PROVE  \/ client'[d].at = s /\ Linked(client'[d], y, o, h[d], cvrs', wants[d], d)
             \/ client[d].at # s /\ client'[d] = client[d]
  <2>1. client[d].at = s => Linked(client[d], x, Idle, h[d], cvrs, wants[d], d)
    BY <1>1, <1>2, SettlingParts
  <2>2. client[d].at = s => Linked(client[d], y, o, h[d], cvrs, wants[d], d)
    BY <1>1, <2>1, IdleFacts DEF Linked
  <2> QED
    BY <2>2
<1>3. handler' = [handler EXCEPT ![s] = h]
  BY <1>1, Unmoved
<1>4. Turned(s, y, o, h)
  BY <1>1, <1>2, <1>3 DEF Turned
<1>5. Onward
  BY DEF Onward
<1> QED
  BY <1>4, <1>5, SyncerSettles

LEMMA HydrateSettles ==
    ASSUME IInv, Settling, ~Survivors, NEW s \in Syncers, Free(s), Loads(s), syncer[s].ready,
           NEW now \in Nat, Hydrate(s, Loaded(s), now),
           UNCHANGED <<cvrs, db, handler, client, wants>>
    PROVE  Settling'
<1>1. PICK me, v, cr : me = Loaded(s) /\ v = me.cvr /\ cr = cvrs[v]
  OBVIOUS
<1>2. PICK x, h : x = syncer[s] /\ h = handler[s]
  OBVIOUS
<1>3. /\ me \in Syncing /\ me.cvr = v /\ me.state = "up" /\ op[s] = Idle /\ me.ready
      /\ v \in DOMAIN cvrs /\ v \in Version /\ v # NoVersion
      /\ x.cvr # NoVersion => me = x
      /\ cr.got \subseteq cr.queries /\ cr.queries \subseteq Queries /\ Listed(cr)
  BY <1>1, <1>2, FreeFacts
<1>4. PICK at : at = [me EXCEPT !.pv = now, !.synced = FALSE]
  OBVIOUS
<1>5. PICK unchanged : unchanged = IF v[1] = now THEN cr.got \cap Desired(cr) ELSE {}
  OBVIOUS
<1>6. /\ at \in Syncing /\ at.cvr = v /\ at.pv = now /\ ~at.synced /\ at.state = "up" /\ at.ready
  BY <1>3, <1>4 DEF Syncing
<1>7. IF now < v[1] THEN syncer' = [syncer EXCEPT ![s] = at] /\ op' = op
      ELSE Sync(s, [at EXCEPT !.hydrated = unchanged], v, cr, CacheOf(s), handler, RunOp)
  BY <1>1, <1>4, <1>5, <1>6 DEF Hydrate
<1>8. CASE now < v[1]
  <2>1. PICK o : o = Idle
    OBVIOUS
  <2>2. syncer' = [syncer EXCEPT ![s] = at] /\ op' = [op EXCEPT ![s] = o]
    BY <1>3, <1>7, <1>8, <2>1, Unmoved
  <2>3. o.pc = "idle"
    BY <2>1, IdleFacts
  <2>4. now < db.version[1]
    <3>1. AtMost(v, db.version) /\ db.version \in Version
      BY <1>3, LatestExists, CommittedFacts
    <3> QED
      BY <1>3, <1>8, <3>1 DEF AtMost, Less, Version
  <2>5. Attending(at, o, h) /\ Abreast(at, o, h, db) /\ Trailing(at, o, db) /\ Complete(at, o, cvrs)
    BY <1>6, <2>3, <2>4 DEF Attending, Abreast, Trailing, Complete, Asks
  <2>6. Serving(at, o, handler[s], db, cvrs)
    BY <1>2, <2>5 DEF Serving
  <2>7. op[s] = Idle /\ at.state = "up" /\ o.pc # "config"
        /\ (syncer[s].cvr # NoVersion => at.cvr = syncer[s].cvr)
    BY <1>1, <1>2, <1>3, <1>6, <2>3
  <2> QED
    BY <2>2, <2>6, <2>7, TurnSettles
<1>9. CASE ~(now < v[1])
  <2>1. PICK up, who : up = [at EXCEPT !.hydrated = unchanged] /\ who = RunOp
    OBVIOUS
  <2>2. PICK both, cache : both = handler /\ cache = CacheOf(s)
    OBVIOUS
  <2>3. Sync(s, up, v, cr, cache, both, who) /\ h = both[s]
    BY <1>2, <1>7, <1>9, <2>1, <2>2
  <2>4. unchanged \subseteq cr.got
    BY <1>5
  <2>5. /\ up \in Syncing /\ up.hydrated = unchanged /\ up.state = "up" /\ up.ready
    BY <1>3, <1>6, <2>1, <2>4 DEF Syncing
  <2>6. Beginning(who) /\ who.run
    BY <2>1, Beginnings DEF RunOp, Idle
  <2>7. Launching(up, v, cr, who)
    BY <1>3, <2>4, <2>5, <2>6 DEF Launching
  <2>8. PICK y : \E o : /\ syncer' = [syncer EXCEPT ![s] = y] /\ op' = [op EXCEPT ![s] = o]
                        /\ Launched(up, v, cr, h, who, y, o)
    BY <2>3, <2>7, SyncLaunches
  <2>9. PICK o : /\ syncer' = [syncer EXCEPT ![s] = y] /\ op' = [op EXCEPT ![s] = o]
                 /\ Launched(up, v, cr, h, who, y, o)
    BY <2>8
  <2>10. Serving(y, o, h, db, cvrs)
    BY <1>1, <2>5, <2>6, <2>9, LaunchedServes
  <2>11. y.state = "up" /\ y.cvr = v /\ o.pc # "config"
    BY <2>5, <2>9 DEF Launched
  <2>12. /\ Serving(y, o, handler[s], db, cvrs) /\ op[s] = Idle
         /\ syncer[s].cvr # NoVersion => y.cvr = syncer[s].cvr
    BY <1>1, <1>2, <1>3, <2>10, <2>11
  <2> QED
    BY <2>9, <2>11, <2>12, TurnSettles
<1> QED
  BY <1>8, <1>9

LEMMA AdvanceSettles ==
    ASSUME IInv, Settling, ~Survivors, NEW s \in Syncers, Free(s), Loads(s), syncer[s].ready,
           syncer[s].synced, NEW now \in Nat, syncer[s].pv < now, Advance(s, Loaded(s), now),
           UNCHANGED <<cvrs, db, handler, client, wants>>
    PROVE  Settling'
<1>1. PICK me, v, cr : me = Loaded(s) /\ v = me.cvr /\ cr = cvrs[v]
  OBVIOUS
<1>2. PICK x, h : x = syncer[s] /\ h = handler[s]
  OBVIOUS
<1>3. /\ x \in Syncing /\ me = x /\ me.cvr = v /\ x.cvr = v /\ x.state = "up" /\ op[s] = Idle
      /\ x.ready /\ x.synced /\ x.pv \in Nat /\ x.pv < now
      /\ v \in DOMAIN cvrs /\ v \in Version /\ v # NoVersion
      /\ Even(cr) /\ Listed(cr)
  BY <1>1, <1>2, FreeFacts DEF Syncing
<1>4. PICK cache, to : cache = CacheOf(s) /\ to = Later(v, now)
  OBVIOUS
<1>5. PICK new : new = Advanced(cache, me.hydrated, log[me.pv], log[now], to)
  OBVIOUS
<1>6. PICK current : current = {c \in Clients : LET k == handler[s][c] IN
                      k.ws # 0 /\ (k.base = v \/ (k.base = NoVersion /\ v = EmptyVersion))}
  OBVIOUS
<1>7. PICK sockets : sockets = Sockets(s, current \cap Pokers(s, to))
  OBVIOUS
<1>8. PICK writes : writes = (Changes(cache, new) # None)
  OBVIOUS
<1>9. PICK o : o = [RunOp EXCEPT !.pc = "flush", !.advance = TRUE,
                     !.from = v, !.to = to, !.bad = now < v[1], !.writes = writes,
                     !.queries = cr.queries, !.got = cr.got, !.rows = Changes(cache, new),
                     !.patches = Patches(cache, new, log[now], to), !.pokers = sockets]
  OBVIOUS
<1>10. PICK y : y = [x EXCEPT !.pv = now, !.cache = IF DOMAIN new = {} THEN @ ELSE cache]
  OBVIOUS
<1>11. op' = [op EXCEPT ![s] = o] /\ syncer' = [syncer EXCEPT ![s] = y]
  BY <1>1, <1>3, <1>4, <1>5, <1>6, <1>7, <1>8, <1>9, <1>10 DEF Advance
<1>12. /\ o.pc = "flush" /\ o.advance /\ o.from = v /\ o.queries = cr.queries /\ o.got = cr.got
       /\ o.pokers = sockets /\ o.run
  BY <1>9, IdleFacts DEF RunOp
<1>13. /\ y.cvr = v /\ y.pv = now /\ y.synced /\ y.ready /\ y.state = "up"
  BY <1>3, <1>10 DEF Syncing
<1>14. /\ Attending(x, Idle, h) /\ Abreast(x, Idle, h, db)
  BY <1>2, <1>3, SettlingParts
<1>15. Attending(y, o, h)
  BY <1>12, <1>13 DEF Attending, Asks
<1>16. Abreast(y, o, h, db)
  <2>1. ASSUME v = db.version, NEW c \in Clients, Heard(h[c])
        PROVE  h[c].base = v /\ c \in DOMAIN o.pokers /\ o.pokers[c] = h[c].ws
    <3>1. h[c].base = v /\ h[c].ws # 0
      BY <1>3, <1>14, <2>1, IdleFacts DEF Abreast, Heard
    <3>2. v[1] <= x.pv
      <4>1. Going(x, Idle, pending[s], db, cvrs, log)
        BY <1>2, <1>3, Parts
      <4> QED
        BY <1>3, <2>1, <4>1, IdleFacts DEF Going, Current, Pipes
    <3>3. Less(v, to)
      <4>1. v[1] < now /\ to = <<now, 0>>
        BY <1>3, <1>4, <3>2 DEF Later, Version
      <4> QED
        BY <4>1 DEF Less
    <3>4. c \in current \cap Pokers(s, to)
      BY <1>2, <1>6, <3>1, <3>3 DEF Pokers
    <3> QED
      BY <1>2, <1>7, <1>12, <3>1, <3>4 DEF Sockets
  <2> QED
    BY <1>12, <1>13, <2>1 DEF Abreast, Reached
<1>17. Trailing(y, o, db) /\ Complete(y, o, cvrs)
  BY <1>1, <1>3, <1>12, <1>13 DEF Trailing, Complete, Listed, Even
<1>18. Serving(y, o, handler[s], db, cvrs)
  BY <1>2, <1>15, <1>16, <1>17 DEF Serving
<1>19. o.pc # "config" /\ (syncer[s].cvr # NoVersion => y.cvr = syncer[s].cvr)
  BY <1>2, <1>3, <1>12, <1>13
<1> QED
  BY <1>3, <1>11, <1>13, <1>18, <1>19, TurnSettles

LEMMA RunSettles ==
    ASSUME IInv, Settling, ~Survivors, NEW s \in Syncers, Run(s)
    PROVE  Settling'
<1>1. /\ Free(s) /\ Loads(s) /\ syncer[s].ready
      /\ UNCHANGED <<cvrs, db, handler, client, wants>>
  BY DEF Run, Woken
<1>2. syncer[s].pv \in Nat /\ Tip \in Nat
  BY Parts DEF Syncing, Kinds, Logged, Tip
<1>3. PICK now \in (syncer[s].pv + 1)..Tip :
         \/ syncer[s].synced /\ Advance(s, Loaded(s), now)
         \/ Hydrate(s, Loaded(s), now)
  BY DEF Run
<1>4. now \in Nat /\ syncer[s].pv < now
  BY <1>2, <1>3
<1> QED
  BY <1>1, <1>3, <1>4, AdvanceSettles, HydrateSettles

-----------------------------------------------------------------------------
(* Operations that end in a poke. *)

\* The clients of a syncer are poked to a version, and what its CVR says of them
\* has not changed for the worse.
Poked(s, p, f, hs, y, d) ==
    /\ client' = ClientsAfter(s, p, f) /\ hs = HandlersAfter(s, p, f)[s]
    /\ y.state = syncer[s].state
    /\ Clients = {d} /\ client[d].on /\ client[d].at = s /\ handler[s][d].msg = "none" =>
          y.cvr # NoVersion /\ cvrs'[y.cvr].desired[d] = wants[d]

LEMMA PokedClients ==
    ASSUME IInv, Settling, NEW s \in Syncers, NEW p, NEW f, NEW hs, NEW y, NEW o,
           NEW d \in Clients, Poked(s, p, f, hs, y, d), client'[d].on
    PROVE  \/ client'[d].at = s /\ Linked(client'[d], y, o, hs[d], cvrs', wants[d], d)
           \/ client[d].at # s /\ client'[d] = client[d]
<1>1. Kinds
  BY Parts
<1>2. client[d].on /\ client[d].at = s =>
         /\ Linked(client[d], syncer[s], op[s], handler[s][d], cvrs, wants[d], d)
         /\ Connected(s, d) /\ handler[s][d].base = client[d].cookie
  BY SettlingParts DEF Linked
<1>3. /\ client[d].on
      /\ client[d].at = s => /\ client'[d].at = s /\ client'[d].ws = client[d].ws
                             /\ hs[d].base = client'[d].cookie
      /\ client[d].at # s => client'[d] = client[d]
  BY <1>1, <1>2, PokesLink DEF Poked
<1>4. hs[d].ws = handler[s][d].ws /\ hs[d].msg = handler[s][d].msg
  <2>1. PICK after : after = HandlersAfter(s, p, f)
    OBVIOUS
  <2> QED
    BY <1>1, <2>1, HandlersRaised DEF Poked
<1>5. ASSUME client[d].at = s
      PROVE  Linked(client'[d], y, o, hs[d], cvrs', wants[d], d)
  BY <1>2, <1>3, <1>4, <1>5 DEF Linked, Poked
<1> QED
  BY <1>3, <1>5

\* The handlers of a syncer after a poke.
LEMMA PokedHandlers ==
    ASSUME IInv, NEW s \in Syncers, NEW p, NEW f, handler' = HandlersAfter(s, p, f),
           NEW hs, hs = HandlersAfter(s, p, f)[s]
    PROVE  /\ handler' = [handler EXCEPT ![s] = hs]
           /\ \A c \in Clients :
                 /\ hs[c].ws = handler[s][c].ws /\ hs[c].msg = handler[s][c].msg
                 /\ Heard(hs[c]) <=> Heard(handler[s][c])
                 /\ hs[c].base = IF c \in Served(s, p) /\ Ends(handler[s][c], p, f)
                                 THEN f ELSE handler[s][c].base
<1>1. PICK after : after = HandlersAfter(s, p, f)
  OBVIOUS
<1>2. Kinds
  BY Parts
<1> QED
  BY <1>1, <1>2, HandlersRaised

\* A CVR after a client's desired queries are recorded in it.
Recasting(old, cr, c, queries) ==
    /\ old \in Cvr /\ Listed(old) /\ c \in Clients /\ queries \in SUBSET Queries
    /\ cr = [old EXCEPT !.desired[c] = queries, !.queries = @ \cup queries]

LEMMA ConfigListed ==
    ASSUME NEW old, NEW cr, NEW c, NEW queries, Recasting(old, cr, c, queries)
    PROVE  /\ Listed(cr) /\ cr.got = old.got /\ cr.desired[c] = queries
           /\ old.got \subseteq old.queries => cr.got \subseteq cr.queries
<1>1. /\ cr.queries = old.queries \cup queries /\ cr.got = old.got
      /\ cr.desired = [old.desired EXCEPT ![c] = queries]
      /\ old.desired \in [Clients -> {Unknown} \cup SUBSET Queries]
      /\ Listed(old) /\ c \in Clients
  BY DEF Cvr, Recasting
<1>2. ASSUME NEW q \in Desired(cr)
      PROVE  q \in cr.queries
  <2>1. PICK d \in Clients : q \in cr.desired[d] /\ q \in Queries
    BY <1>2 DEF Desired
  <2>2. CASE d = c
    BY <1>1, <2>1, <2>2
  <2>3. CASE d # c
    <3>1. q \in old.desired[d]
      BY <1>1, <2>1, <2>3
    <3>2. q \in Desired(old)
      BY <2>1, <3>1 DEF Desired
    <3> QED
      BY <1>1, <3>2 DEF Listed
  <2> QED
    BY <2>2, <2>3
<1> QED
  BY <1>1, <1>2 DEF Listed

LEMMA FlushConfigSettles ==
    ASSUME IInv, Settling, NEW s \in Syncers, FlushConfig(s)
    PROVE  Settling'
<1>1. PICK x, h, o : x = syncer[s] /\ h = handler[s] /\ o = op[s]
  OBVIOUS
<1>2. PICK from, to : from = o.from /\ to = o.to
  OBVIOUS
<1>3. PICK c, queries, old : c = o.c /\ queries = wants[c] /\ old = cvrs[from]
  OBVIOUS
<1>4. PICK cr : cr = [old EXCEPT !.desired[c] = queries, !.queries = @ \cup queries]
  OBVIOUS
<1>5. PICK current : current = {d \in Pokers(s, to) :
                       handler[s][d].base = from
                       \/ (handler[s][d].base = NoVersion /\ from = EmptyVersion)}
  OBVIOUS
<1>6. PICK poke : poke = [o EXCEPT !.noted = TRUE, !.pokers = Sockets(s, current)]
  OBVIOUS
<1>7. PICK me : me = [x EXCEPT !.cvr = to, !.cache = CacheOf(s)]
  OBVIOUS
<1>8. PICK who : who = ClientOp(c, o.ws)
  OBVIOUS
<1>9. /\ o.pc = "config" /\ ~Conflict(s, o)
      /\ Commit(s, o, cr, None, Flushing(s))
      /\ client' = ClientsAfter(s, poke, to)
      /\ handler' = HandlersAfter(s, poke, to)
      /\ IF me.synced THEN Sync(s, me, to, cr, CacheOf(s), handler', who)
         ELSE /\ op' = [op EXCEPT ![s] = Idle]
              /\ syncer' = [syncer EXCEPT ![s] = [me EXCEPT !.ready = TRUE]]
      /\ wants' = wants
  BY <1>1, <1>2, <1>3, <1>4, <1>5, <1>6, <1>7, <1>8 DEF FlushConfig
<1>10. /\ Kinds /\ x \in Syncing /\ Working(x, o, cvrs, log)
  BY <1>1, Parts DEF Going
<1>11. /\ db.version = from /\ x.cvr = from /\ from \in DOMAIN cvrs /\ to = OneAfter(from)
       /\ c \in Clients /\ queries \in SUBSET Queries
       /\ x.synced => x.hydrated = old.got
  BY <1>2, <1>3, <1>9, <1>10, LatestExists DEF Working, Conflict, Kinds
<1>12. /\ Committed(cvrs, from, log) /\ from \in Version /\ Recording(old, from, cvrs, log)
  BY <1>3, <1>11, LatestExists, CommittedFacts
<1>13. to \in Version /\ Less(from, to) /\ to[1] = from[1] /\ to # NoVersion
  BY <1>11, <1>12, VersionNext, NoVersionFirst
<1>14. Listed(cr) /\ cr.got = old.got /\ cr.desired[c] = queries /\ cr.got \subseteq cr.queries
  <2>1. old \in Cvr /\ old.got \subseteq old.queries /\ Listed(old)
    BY <1>3, <1>11, <1>12, SettlingParts DEF Recording
  <2>2. Recasting(old, cr, c, queries)
    BY <1>4, <1>11, <2>1 DEF Recasting
  <2> QED
    BY <2>1, <2>2, ConfigListed
<1>15. PICK more, e : more = cvrs' /\ e = db'
  OBVIOUS
<1>16. Grown(cvrs, more, to, cr) /\ e.version = to /\ more[to] = cr
  <2>1. more = cvrs ++ [v \in {to} |-> cr] /\ e.version = to
    BY <1>2, <1>9, <1>15 DEF Commit
  <2>2. Grown(cvrs, more, to, cr)
    BY <1>11, <1>12, <1>13, <2>1, Growth
  <2> QED
    BY <2>1, <2>2 DEF Grown
<1>17. PICK hs : hs = HandlersAfter(s, poke, to)[s]
  OBVIOUS
<1>18. /\ handler' = [handler EXCEPT ![s] = hs] /\ handler'[s] = hs
       /\ \A d \in Clients : hs[d].ws = h[d].ws /\ hs[d].msg = h[d].msg
  BY <1>1, <1>9, <1>17, PokedHandlers
<1>19. /\ me.cvr = to /\ me.pv = x.pv /\ me.synced = x.synced /\ me.ready = x.ready
       /\ me.state = x.state /\ me.hydrated = x.hydrated /\ DOMAIN me = DOMAIN x
  BY <1>7, <1>10 DEF Syncing
<1>20. Attending(x, o, h) /\ Trailing(x, o, db) /\ ~o.run
  BY <1>1, <1>9, SettlingParts DEF Attending
<1>21. \E y : \E u : /\ syncer' = [syncer EXCEPT ![s] = y] /\ op' = [op EXCEPT ![s] = u]
                     /\ Serving(y, u, hs, e, more) /\ y.state = x.state /\ y.cvr = to
  <2>1. CASE me.synced
    <3>1. PICK both, cache : both = handler' /\ cache = CacheOf(s)
      OBVIOUS
    <3>2. Sync(s, me, to, cr, cache, both, who) /\ hs = both[s]
      BY <1>9, <1>18, <2>1, <3>1
    <3>3. /\ Beginning(who) /\ who.c = c /\ who.ws = o.ws /\ ~who.run
      BY <1>8, Beginnings DEF ClientOp, Idle
    <3>4. me \in Syncing
      <4>1. CacheOf(s) \in [Rows -> Rec]
        BY CacheTyped
      <4> QED
        BY <1>7, <1>10, <1>13, <4>1 DEF Syncing, Cookie
    <3>5. Launching(me, to, cr, who)
      BY <1>11, <1>13, <1>14, <1>19, <2>1, <3>3, <3>4 DEF Launching
    <3>6. PICK y : \E u : /\ syncer' = [syncer EXCEPT ![s] = y] /\ op' = [op EXCEPT ![s] = u]
                          /\ Launched(me, to, cr, hs, who, y, u)
      BY <3>2, <3>5, SyncLaunches
    <3>7. PICK u : /\ syncer' = [syncer EXCEPT ![s] = y] /\ op' = [op EXCEPT ![s] = u]
                   /\ Launched(me, to, cr, hs, who, y, u)
      BY <3>6
    <3>8. \A d \in Clients : hs[d].ws # 0 =>
             /\ hs[d].msg = "none" => me.ready \/ (~who.run /\ who.c = d /\ who.ws = hs[d].ws)
             /\ ~who.run /\ who.c = d /\ who.ws # hs[d].ws => hs[d].msg = "init"
      BY <1>3, <1>9, <1>18, <1>19, <1>20, <3>3 DEF Attending, Asks
    <3>9. Serving(y, u, hs, e, more)
      <4>1. me.state = "none" => me.pv = 0
        BY <1>19, <1>20 DEF Trailing
      <4> QED
        BY <1>11, <1>16, <2>1, <3>3, <3>7, <3>8, <4>1, LaunchedServes
    <3>10. y.state = x.state /\ y.cvr = to
      BY <1>19, <3>7 DEF Launched
    <3> QED
      BY <3>7, <3>9, <3>10
  <2>2. CASE ~me.synced
    <3>1. PICK y, u : y = [me EXCEPT !.ready = TRUE] /\ u = Idle
      OBVIOUS
    <3>2. op' = [op EXCEPT ![s] = u] /\ syncer' = [syncer EXCEPT ![s] = y]
      BY <1>9, <2>2, <3>1
    <3>3. /\ y.cvr = to /\ y.state = x.state /\ y.pv = x.pv /\ ~y.synced /\ y.ready
          /\ u.pc = "idle"
      BY <1>10, <1>19, <2>2, <3>1, IdleFacts DEF Syncing
    <3>4. Attending(y, u, hs) /\ Abreast(y, u, hs, e) /\ Complete(y, u, more)
      BY <3>3 DEF Attending, Abreast, Complete, Asks
    <3>5. Trailing(y, u, e)
      BY <1>9, <1>11, <1>13, <1>16, <1>19, <1>20, <2>2, <3>3 DEF Trailing
    <3> QED
      BY <3>2, <3>3, <3>4, <3>5 DEF Serving
  <2> QED
    BY <2>1, <2>2
<1>22. PICK y : \E u : /\ syncer' = [syncer EXCEPT ![s] = y] /\ op' = [op EXCEPT ![s] = u]
                       /\ Serving(y, u, hs, e, more) /\ y.state = x.state /\ y.cvr = to
  BY <1>21
<1>23. PICK u : /\ syncer' = [syncer EXCEPT ![s] = y] /\ op' = [op EXCEPT ![s] = u]
                /\ Serving(y, u, hs, e, more) /\ y.state = x.state /\ y.cvr = to
  BY <1>22
<1>24. ASSUME NEW d \in Clients, client'[d].on
       PROVE  \/ client'[d].at = s /\ Linked(client'[d], y, u, hs[d], cvrs', wants[d], d)
              \/ client[d].at # s /\ client'[d] = client[d]
  <2>1. Clients = {d} => y.cvr # NoVersion /\ cvrs'[y.cvr].desired[d] = wants[d]
    BY <1>3, <1>11, <1>13, <1>14, <1>15, <1>16, <1>23
  <2>2. Poked(s, poke, to, hs, y, d)
    BY <1>1, <1>9, <1>17, <1>23, <2>1 DEF Poked
  <2> QED
    BY <1>24, <2>2, PokedClients
<1>25. Serving(y, u, hs, db', cvrs')
  BY <1>15, <1>23
<1>26. Turned(s, y, u, hs)
  BY <1>9, <1>18, <1>23, <1>24, <1>25 DEF Turned
<1>27. Onward
  <2>1. Grown(cvrs, cvrs', to, cr) /\ Less(db.version, to) /\ db'.version = to /\ Listed(cr)
    BY <1>11, <1>13, <1>14, <1>15, <1>16
  <2> QED
    BY <1>13, <2>1 DEF Onward
<1> QED
  BY <1>26, <1>27, SyncerSettles

\* What a flush does to the CVR: a version that is made has all of its queries,
\* and says of the clients what the one before it did.
Flushes(x, o, f) ==
    /\ o.pc = "flush" /\ x.cvr = o.from /\ o.from \in DOMAIN cvrs /\ wants' = wants
    /\ f \in {o.from, o.to} /\ f \in Version /\ AtMost(o.from, f) /\ Onward
    /\ f \in DOMAIN cvrs' /\ Even(cvrs'[f]) /\ cvrs'[f].desired = cvrs[o.from].desired
    /\ f = db'.version => o.from = db.version

\* The syncer after a flush, and its clients.
Settles(s, o, f, me) ==
    IF o.advance
    THEN /\ Done(s, me, o)
         /\ client' = ClientsAfter(s, o, f)
         /\ handler' = HandlersAfter(s, o, f)
    ELSE /\ op' = [op EXCEPT ![s].pc = "catchup"]
         /\ syncer' = [syncer EXCEPT ![s] = me]
         /\ UNCHANGED <<client, handler>>

LEMMA FlushFacts ==
    ASSUME IInv, Settling, NEW s \in Syncers, Flush(s), NEW o, o = op[s], NEW x, x = syncer[s],
           NEW f, f = Final(o)
    PROVE  Flushes(x, o, f) /\ \E z : Settles(s, o, f, [x EXCEPT !.cvr = f, !.cache = z])
<1>1. PICK from : from = o.from
  OBVIOUS
<1>2. PICK to, old : to = o.to /\ old = cvrs[from]
  OBVIOUS
<1>3. PICK cache : cache = Cached(o.rows ++ CacheOf(s))
  OBVIOUS
<1>4. PICK cr : cr = [old EXCEPT !.queries = o.queries, !.got = o.got, !.rows = cache]
  OBVIOUS
<1>5. PICK z : z = IF o.writes THEN cache ELSE x.cache
  OBVIOUS
<1>6. PICK me : me = [x EXCEPT !.cvr = f, !.cache = z]
  OBVIOUS
<1>7. /\ o.pc = "flush" /\ wants' = wants
      /\ IF ~o.writes THEN UNCHANGED <<cvrs, db, pending>>
         ELSE ~Conflict(s, o) /\ \E defer \in BOOLEAN : Commit(s, o, cr, o.rows, defer)
      /\ IF o.advance
         THEN /\ Done(s, me, o)
              /\ client' = ClientsAfter(s, o, f)
              /\ handler' = HandlersAfter(s, o, f)
         ELSE /\ op' = [op EXCEPT ![s].pc = "catchup"]
              /\ syncer' = [syncer EXCEPT ![s] = me]
              /\ UNCHANGED <<client, handler>>
  BY <1>1, <1>2, <1>3, <1>4, <1>5, <1>6 DEF Flush
<1>8. Kinds /\ Going(x, o, pending[s], db, cvrs, log)
  BY Parts
<1>9. x.cvr = from /\ from \in DOMAIN cvrs
  BY <1>1, <1>7, <1>8 DEF Going, Working
<1>10. from \in Version /\ AtMost(from, from) /\ old \in Cvr
  BY <1>2, <1>9, LatestExists, CommittedFacts DEF AtMost, Recording
<1>11. /\ o.queries = o.got /\ Desired(old) \subseteq o.queries
       /\ ~o.writes => Even(old)
  <2>1. Complete(x, o, cvrs)
    BY SettlingParts
  <2> QED
    BY <1>1, <1>2, <1>7, <2>1 DEF Complete
<1>12. /\ f \in {from, to} /\ f \in Version /\ AtMost(from, f) /\ Onward
       /\ f \in DOMAIN cvrs' /\ Even(cvrs'[f]) /\ cvrs'[f].desired = old.desired
       /\ f = db'.version => from = db.version
  <2>1. CASE ~o.writes
    <3>1. f = from /\ cvrs' = cvrs /\ db' = db
      BY <1>1, <1>7, <2>1 DEF Final
    <3> QED
      BY <1>2, <1>9, <1>10, <1>11, <2>1, <3>1 DEF Onward
  <2>2. CASE o.writes
    <3>1. f = to /\ db.version = from
      BY <1>1, <1>2, <1>7, <2>2 DEF Final, Conflict
    <3>2. Flushable(x, o, cvrs, log)
      BY <1>7, <1>8, <1>9, <3>1 DEF Going, Current
    <3>3. to \in Version /\ Less(from, to)
      BY <1>1, <1>2, <3>2 DEF Flushable
    <3>4. PICK more, e : more = cvrs' /\ e = db'
      OBVIOUS
    <3>5. more = cvrs ++ [v \in {to} |-> cr] /\ e.version = to
      BY <1>2, <1>7, <2>2, <3>4 DEF Commit
    <3>6. Grown(cvrs, more, to, cr)
      <4>1. Committed(cvrs, from, log)
        BY <3>1, LatestExists
      <4> QED
        BY <3>3, <3>5, <4>1, Growth
    <3>7. to \in DOMAIN more /\ more[to] = cr
      BY <3>6 DEF Grown
    <3>8. cr.queries = o.queries /\ cr.got = o.got /\ cr.desired = old.desired
      BY <1>4, <1>10 DEF Cvr
    <3>9. Listed(cr) /\ Even(cr)
      BY <1>11, <3>8 DEF Listed, Even, Desired
    <3>10. Onward
      <4>1. Grown(cvrs, cvrs', to, cr) /\ Less(db.version, to) /\ db'.version = to /\ Listed(cr)
        BY <3>1, <3>3, <3>4, <3>5, <3>6, <3>9
      <4> QED
        BY <3>3, <4>1 DEF Onward
    <3> QED
      BY <3>1, <3>3, <3>4, <3>7, <3>8, <3>9, <3>10 DEF AtMost
  <2> QED
    BY <2>1, <2>2
<1>13. Settles(s, o, f, me)
  BY <1>7 DEF Settles
<1>14. Flushes(x, o, f)
  BY <1>1, <1>2, <1>7, <1>9, <1>12 DEF Flushes
<1> QED
  BY <1>6, <1>13, <1>14

\* The flush of an operation that has yet to catch clients up.
LEMMA FlushContinues ==
    ASSUME IInv, Settling, NEW s \in Syncers, Flush(s), ~op[s].advance
    PROVE  Settling'
<1>1. PICK x, h, o : x = syncer[s] /\ h = handler[s] /\ o = op[s]
  OBVIOUS
<1>2. PICK f : f = Final(o)
  OBVIOUS
<1>3. /\ o.pc = "flush" /\ x.cvr = o.from /\ o.from \in DOMAIN cvrs /\ wants' = wants
      /\ Onward /\ f \in DOMAIN cvrs' /\ Even(cvrs'[f]) /\ cvrs'[f].desired = cvrs[o.from].desired
      /\ f \in Version
  <2>1. Flushes(x, o, f)
    BY <1>1, <1>2, FlushFacts
  <2> QED
    BY <2>1 DEF Flushes
<1>4. PICK z : Settles(s, o, f, [x EXCEPT !.cvr = f, !.cache = z])
  BY <1>1, <1>2, FlushFacts
<1>5. PICK me, u : me = [x EXCEPT !.cvr = f, !.cache = z] /\ u = [o EXCEPT !.pc = "catchup"]
  OBVIOUS
<1>6. /\ x \in Syncing /\ DOMAIN o = DOMAIN Idle /\ Kinds /\ handler = [handler EXCEPT ![s] = h]
  BY <1>1, Parts, Unmoved
<1>7. /\ op' = [op EXCEPT ![s] = u] /\ syncer' = [syncer EXCEPT ![s] = me]
      /\ handler' = [handler EXCEPT ![s] = h] /\ client' = client
  <2>1. op = [t \in Syncers |-> op[t]]
    BY <1>6 DEF Kinds
  <2>2. /\ op' = [op EXCEPT ![s].pc = "catchup"] /\ syncer' = [syncer EXCEPT ![s] = me]
        /\ client' = client /\ handler' = handler
    BY <1>1, <1>4, <1>5 DEF Settles
  <2> QED
    BY <1>1, <1>5, <1>6, <2>1, <2>2
<1>8. /\ u.pc = "catchup" /\ u.run = o.run /\ u.c = o.c /\ u.ws = o.ws /\ u.from = o.from
      /\ u.to = o.to /\ u.pokers = o.pokers
  BY <1>5, <1>6, IdleFacts
<1>9. /\ me.cvr = f /\ me.pv = x.pv /\ me.synced = x.synced /\ me.ready = x.ready
      /\ me.state = x.state
  BY <1>5, <1>6 DEF Syncing
<1>10. Attending(x, o, h) /\ Trailing(x, o, db) /\ ~o.advance
  BY <1>1, SettlingParts
<1>11. PICK e, more : e = db' /\ more = cvrs'
  OBVIOUS
<1>12. Serving(me, u, h, e, more)
  <2>1. Attending(me, u, h)
    <3>1. \A c \in Clients : Asks(u, c) <=> Asks(o, c)
      BY <1>3, <1>8 DEF Asks
    <3>2. Reached(u, h) /\ u.to \in Version /\ AtMost(u.from, u.to)
      BY <1>3, <1>8, <1>10 DEF Attending, Reached
    <3> QED
      BY <1>3, <1>8, <1>9, <1>10, <3>1, <3>2 DEF Attending
  <2>2. Abreast(me, u, h, e)
    BY <1>8 DEF Abreast
  <2>3. Trailing(me, u, e)
    BY <1>8, <1>9, <1>10 DEF Trailing
  <2>4. Complete(me, u, more)
    BY <1>3, <1>8, <1>9, <1>11 DEF Complete
  <2> QED
    BY <2>1, <2>2, <2>3, <2>4 DEF Serving
<1>13. ASSUME NEW c \in Clients, client'[c].on
       PROVE  \/ client'[c].at = s /\ Linked(client'[c], me, u, h[c], cvrs', wants[c], c)
              \/ client[c].at # s /\ client'[c] = client[c]
  <2>1. CASE client[c].at = s
    <3>1. Linked(client[c], x, o, h[c], cvrs, wants[c], c)
      BY <1>1, <1>7, <1>13, <2>1, SettlingParts
    <3>2. f # NoVersion
      BY <1>3, NoVersionFirst
    <3>3. Linked(client[c], me, u, h[c], cvrs', wants[c], c)
      BY <1>3, <1>9, <3>1, <3>2 DEF Linked
    <3> QED
      BY <1>7, <2>1, <3>3
  <2> QED
    BY <1>7, <2>1
<1>14. Turned(s, me, u, h)
  BY <1>3, <1>7, <1>11, <1>12, <1>13 DEF Turned
<1> QED
  BY <1>3, <1>14, SyncerSettles

\* An operation is over, and the clients that were heard are where the CVR is if
\* it is the current one.
Over(s, x, o, p, f, y, e, more) ==
    /\ x = syncer[s] /\ o = op[s] /\ o.pc \in {"flush", "catchup"}
    /\ y = [x EXCEPT !.cvr = f, !.ready = TRUE, !.synced = @ \/ o.run, !.cache = y.cache]
    /\ f \in Version /\ f \in DOMAIN more /\ Even(more[f])
    /\ more[f].desired = cvrs[x.cvr].desired
    /\ f = e.version => \A c \in Clients : Heard(handler[s][c]) =>
          \/ handler[s][c].base = f
          \/ c \in Served(s, p) /\ Ends(handler[s][c], p, f)

LEMMA OverSettles ==
    ASSUME IInv, Settling, NEW s \in Syncers, NEW x, NEW o, NEW p, NEW f, NEW y,
           Over(s, x, o, p, f, y, db', cvrs'), Onward, wants' = wants,
           op' = [op EXCEPT ![s] = Idle], syncer' = [syncer EXCEPT ![s] = y],
           client' = ClientsAfter(s, p, f), handler' = HandlersAfter(s, p, f)
    PROVE  Settling'
<1>1. PICK e, more : e = db' /\ more = cvrs'
  OBVIOUS
<1>2. PICK h : h = handler[s]
  OBVIOUS
<1>3. PICK hs : hs = HandlersAfter(s, p, f)[s]
  OBVIOUS
<1>4. /\ x = syncer[s] /\ o = op[s] /\ o.pc \in {"flush", "catchup"}
      /\ y = [x EXCEPT !.cvr = f, !.ready = TRUE, !.synced = @ \/ o.run, !.cache = y.cache]
      /\ f \in Version /\ f \in DOMAIN more /\ Even(more[f])
      /\ more[f].desired = cvrs[x.cvr].desired
      /\ f = e.version => \A c \in Clients : Heard(h[c]) =>
            \/ h[c].base = f
            \/ c \in Served(s, p) /\ Ends(h[c], p, f)
  BY <1>1, <1>2 DEF Over
<1>5. /\ handler' = [handler EXCEPT ![s] = hs]
      /\ \A c \in Clients :
            /\ hs[c].ws = h[c].ws /\ hs[c].msg = h[c].msg
            /\ Heard(hs[c]) <=> Heard(h[c])
            /\ hs[c].base = IF c \in Served(s, p) /\ Ends(h[c], p, f) THEN f ELSE h[c].base
  BY <1>2, <1>3, PokedHandlers
<1>6. x \in Syncing
  BY <1>4, Parts
<1>7. Attending(x, o, h) /\ Trailing(x, o, db)
  BY <1>2, <1>4, SettlingParts
<1>8. /\ y.cvr = f /\ y.pv = x.pv /\ y.state = x.state /\ y.ready /\ y.synced
  <2>1. x.synced \/ o.run
    BY <1>4, <1>7 DEF Attending
  <2> QED
    BY <1>4, <1>6, <2>1 DEF Syncing
<1>9. Serving(y, Idle, hs, e, more)
  <2>1. Attending(y, Idle, hs)
    BY <1>8, IdleFacts DEF Attending, Asks
  <2>2. Abreast(y, Idle, hs, e)
    BY <1>4, <1>5, <1>8, IdleFacts DEF Abreast
  <2>3. Trailing(y, Idle, e)
    BY <1>7, <1>8 DEF Trailing
  <2>4. Complete(y, Idle, more)
    BY <1>4, <1>8, IdleFacts DEF Complete
  <2> QED
    BY <2>1, <2>2, <2>3, <2>4 DEF Serving
<1>10. ASSUME NEW d \in Clients, client'[d].on
       PROVE  \/ client'[d].at = s /\ Linked(client'[d], y, Idle, hs[d], cvrs', wants[d], d)
              \/ client[d].at # s /\ client'[d] = client[d]
  <2>1. ASSUME Clients = {d}, client[d].on, client[d].at = s, h[d].msg = "none"
        PROVE  cvrs'[y.cvr].desired[d] = wants[d]
    <3>1. Linked(client[d], x, o, h[d], cvrs, wants[d], d)
      BY <1>2, <1>4, <2>1, SettlingParts
    <3>2. cvrs[x.cvr].desired[d] = wants[d]
      BY <1>4, <2>1, <3>1 DEF Linked
    <3> QED
      BY <1>1, <1>4, <1>8, <3>2
  <2>2. y.cvr # NoVersion
    BY <1>4, <1>8, NoVersionFirst
  <2>3. Poked(s, p, f, hs, y, d)
    BY <1>2, <1>3, <1>4, <1>8, <2>1, <2>2 DEF Poked
  <2> QED
    BY <1>10, <2>3, PokedClients
<1>11. Turned(s, y, Idle, hs)
  BY <1>1, <1>5, <1>9, <1>10 DEF Turned
<1> QED
  BY <1>11, SyncerSettles

\* The flush of an advancement pokes everybody to the version it has made.
LEMMA FlushAdvances ==
    ASSUME IInv, Settling, NEW s \in Syncers, Flush(s), op[s].advance
    PROVE  Settling'
<1>1. PICK x, h, o : x = syncer[s] /\ h = handler[s] /\ o = op[s]
  OBVIOUS
<1>2. PICK f : f = Final(o)
  OBVIOUS
<1>3. Flushes(x, o, f)
  BY <1>1, <1>2, FlushFacts
<1>4. PICK z : Settles(s, o, f, [x EXCEPT !.cvr = f, !.cache = z])
  BY <1>1, <1>2, FlushFacts
<1>5. PICK me : me = [x EXCEPT !.cvr = f, !.cache = z]
  OBVIOUS
<1>6. PICK y : y = [me EXCEPT !.ready = TRUE, !.synced = @ \/ o.run]
  OBVIOUS
<1>7. /\ op' = [op EXCEPT ![s] = Idle] /\ syncer' = [syncer EXCEPT ![s] = y]
      /\ client' = ClientsAfter(s, o, f) /\ handler' = HandlersAfter(s, o, f)
  BY <1>1, <1>4, <1>5, <1>6 DEF Settles, Done
<1>8. x \in Syncing /\ \A c \in Clients : h[c] \in Handler
  BY <1>1, Parts
<1>9. y = [x EXCEPT !.cvr = f, !.ready = TRUE, !.synced = @ \/ o.run, !.cache = y.cache]
  BY <1>5, <1>6, <1>8 DEF Syncing
<1>10. Abreast(x, o, h, db)
  BY <1>1, SettlingParts
<1>11. ASSUME f = db'.version, NEW c \in Clients, Heard(h[c])
       PROVE  h[c].base = f \/ (c \in Served(s, o) /\ Ends(h[c], o, f))
  <2>1. /\ o.pc = "flush" /\ x.cvr = o.from /\ o.from = db.version
        /\ AtMost(o.from, f) /\ f \in Version
    BY <1>3, <1>11 DEF Flushes
  <2>2. Reached(o, h) /\ h[c].base = o.from
    BY <1>1, <1>10, <1>11, <2>1 DEF Abreast
  <2>3. c \in Served(s, o)
    BY <1>1, <1>11, <2>2 DEF Reached, Served
  <2>4. f \in Cookie /\ h[c].base \in Cookie /\ AtMost(h[c].base, f)
    BY <1>8, <2>1, <2>2, NoVersionFirst DEF Handler
  <2>5. ~Ends(h[c], o, f) => h[c].base = f
    BY <2>4, PokeEnds
  <2> QED
    BY <2>3, <2>5
<1>12. Over(s, x, o, o, f, y, db', cvrs')
  BY <1>1, <1>3, <1>9, <1>11 DEF Flushes, Over
<1>13. Onward /\ wants' = wants
  BY <1>3 DEF Flushes
<1> QED
  BY <1>7, <1>12, <1>13, OverSettles

LEMMA FlushSettles ==
    ASSUME IInv, Settling, NEW s \in Syncers, Flush(s)
    PROVE  Settling'
BY FlushContinues, FlushAdvances

\* A catchup pokes everybody to the CVR the syncer goes by.
LEMMA CatchupSettles ==
    ASSUME IInv, Settling, NEW s \in Syncers, Catchup(s)
    PROVE  Settling'
<1>1. PICK x, h, o : x = syncer[s] /\ h = handler[s] /\ o = op[s]
  OBVIOUS
<1>2. PICK f : f = x.cvr
  OBVIOUS
<1>3. PICK missed : missed = [r \in IF Behind(s, o) THEN CaughtUp(s, o) ELSE {} |->
                                 [row |-> Content(s, r), to |-> db.rows[r].patch]]
  OBVIOUS
<1>4. PICK live : live = {c \in Served(s, o) : c \in Pokers(s, o.to)}
  OBVIOUS
<1>5. PICK full : full = [o EXCEPT !.patches = missed ++ @, !.pokers = [c \in live |-> o.pokers[c]]]
  OBVIOUS
<1>6. PICK y : y = [x EXCEPT !.ready = TRUE, !.synced = @ \/ o.run]
  OBVIOUS
<1>7. /\ o.pc = "catchup"
      /\ client' = ClientsAfter(s, full, f) /\ handler' = HandlersAfter(s, full, f)
      /\ Done(s, x, o)
      /\ UNCHANGED <<cvrs, db, wants>>
  BY <1>1, <1>2, <1>3, <1>4, <1>5 DEF Catchup
<1>8. op' = [op EXCEPT ![s] = Idle] /\ syncer' = [syncer EXCEPT ![s] = y]
  BY <1>6, <1>7 DEF Done
<1>9. /\ x \in Syncing /\ DOMAIN o = DOMAIN Idle /\ Working(x, o, cvrs, log)
      /\ \A c \in Clients : h[c] \in Handler /\ h[c].base \in {NoVersion} \cup DOMAIN cvrs
  BY <1>1, Parts, Unmoved DEF Going
<1>10. /\ f \in DOMAIN cvrs /\ f \in {o.from, o.to} /\ f # NoVersion
       /\ f \in Version /\ f \in Cookie
  <2>1. f # NoVersion /\ f \in {NoVersion} \cup DOMAIN cvrs /\ f \in {o.from, o.to}
    BY <1>2, <1>7, <1>9 DEF Working
  <2> QED
    BY <2>1, LatestExists, CommittedFacts
<1>11. y = [x EXCEPT !.cvr = f, !.ready = TRUE, !.synced = @ \/ o.run, !.cache = y.cache]
  BY <1>2, <1>6, <1>9 DEF Syncing
<1>12. /\ Reached(o, h) /\ o.to \in Version /\ AtMost(o.from, o.to)
  <2>1. Attending(x, o, h)
    BY <1>1, SettlingParts
  <2> QED
    BY <1>7, <2>1 DEF Attending
<1>13. Even(cvrs[f])
  <2>1. Complete(x, o, cvrs)
    BY <1>1, SettlingParts
  <2> QED
    BY <1>2, <1>7, <1>10, <2>1 DEF Complete
<1>14. AtMost(f, o.to) /\ o.to \in Cookie
  BY <1>10, <1>12, NoVersionFirst DEF AtMost
<1>15. full.pokers = [c \in live |-> o.pokers[c]]
  BY <1>5, <1>9, IdleFacts
<1>16. ASSUME f = db.version, NEW c \in Clients, Heard(h[c])
       PROVE  h[c].base = f \/ (c \in Served(s, full) /\ Ends(h[c], full, f))
  <2>1. PICK b : b = h[c].base
    OBVIOUS
  <2>2. b \in Cookie /\ AtMost(b, f)
    <3>1. CASE b = NoVersion
      BY <1>10, <3>1, NoVersionFirst DEF Cookie, AtMost
    <3>2. CASE b \in DOMAIN cvrs
      BY <1>16, <3>2, LatestExists, CommittedFacts
    <3> QED
      BY <1>9, <2>1, <3>1, <3>2
  <2>3. c \in Served(s, o)
    BY <1>1, <1>12, <1>16 DEF Reached, Served
  <2>4. CASE c \in Pokers(s, o.to)
    <3>1. c \in Served(s, full)
      BY <1>4, <1>15, <2>3, <2>4 DEF Served
    <3>2. ~Ends(h[c], full, f) => b = f
      BY <1>10, <2>1, <2>2, PokeEnds
    <3> QED
      BY <2>1, <3>1, <3>2
  <2>5. CASE c \notin Pokers(s, o.to)
    <3>1. ~Less(b, o.to)
      BY <1>1, <1>16, <2>1, <2>5 DEF Pokers, Heard
    <3>2. AtMost(o.to, b)
      BY <1>14, <2>2, <3>1, VersionOrder
    <3>3. AtMost(f, b)
      BY <1>10, <1>14, <2>2, <3>2, VersionOrder
    <3>4. b = f
      BY <1>10, <2>2, <3>3, VersionOrder
    <3> QED
      BY <2>1, <3>4
  <2> QED
    BY <2>4, <2>5
<1>17. Over(s, x, o, full, f, y, db', cvrs')
  BY <1>1, <1>2, <1>7, <1>10, <1>11, <1>13, <1>16 DEF Over
<1>18. Onward /\ wants' = wants
  BY <1>7 DEF Onward
<1> QED
  BY <1>7, <1>8, <1>17, <1>18, OverSettles

-----------------------------------------------------------------------------
(* The specification. *)

LEMMA SettlingInitially ==
    ASSUME Init
    PROVE  Settling
<1>1. /\ DOMAIN cvrs = {EmptyVersion}
      /\ cvrs[EmptyVersion] = [queries |-> {}, got |-> {}, rows |-> NoRows,
                               desired |-> [c \in Clients |-> Unknown]]
      /\ db.version = EmptyVersion
      /\ \A s \in Syncers : syncer[s] = Fresh /\ op[s] = Idle /\ handler[s] = NoHandlers
      /\ \A c \in Clients : ~client[c].on
  BY DEF Init
<1>2. Listed(cvrs[EmptyVersion])
  BY <1>1, ViewSyncAssumption DEF Listed, Desired, Unknown
<1>3. NoHandlers \in [Clients -> Handler] /\ \A c \in Clients : NoHandlers[c].ws = 0
  BY NoHandlerFacts
<1>4. /\ Fresh.cvr = NoVersion /\ Fresh.pv = 0 /\ Fresh.state = "none" /\ NoVersion # EmptyVersion
  BY DEF Fresh, NoVersion, EmptyVersion
<1>5. Attending(Fresh, Idle, NoHandlers)
  BY <1>3, IdleFacts DEF Attending, Asks
<1>6. Serving(Fresh, Idle, NoHandlers, db, cvrs)
  BY <1>1, <1>4, <1>5, IdleFacts DEF Serving, Abreast, Trailing, Complete
<1> QED
  BY <1>1, <1>2, <1>6 DEF Settling

LEMMA EachSettles ==
    ASSUME IInv, Settling, ~Survivors, [Next]_vars
    PROVE  Settling'
<1>1. CASE Environment
  <2>1. ASSUME Replicate
        PROVE  Settling'
    BY <2>1, QuietSettles DEF Replicate
  <2> QED
    BY <1>1, <2>1, StopSettles, CrashSettles, ChangeDesiredSettles, ConnectSettles DEF Environment
<1>2. CASE Internal
  <2>1. PICK s \in Syncers : \/ Step(s) \/ Claim(s) \/ FlushPending(s)
                             \/ \E c \in Clients : Notice(s, c)
    BY <1>2 DEF Internal
  <2>2. ASSUME FlushPending(s)
        PROVE  Settling'
    <3>1. /\ db' = [db EXCEPT !.rows = pending[s].rows ++ @, !.rowsVersion = pending[s].version]
          /\ UNCHANGED <<cvrs, syncer, handler, op, client, wants>>
      BY <2>2 DEF FlushPending
    <3>2. db'.version = db.version
      <4>1. db \in Database
        BY Parts DEF Kinds
      <4> QED
        BY <3>1, <4>1 DEF Database
    <3> QED
      BY <3>1, <3>2, QuietSettles
  <2>3. CASE Claim(s) \/ FlushPending(s) \/ \E c \in Clients : Notice(s, c)
    BY <2>2, <2>3, OwnershipSettles, NoticeSettles
  <2>4. CASE Step(s)
    BY <2>4, OwnershipSettles, LoadFailsSettles, RunSettles, FlushConfigSettles, FlushSettles,
       FailuresSettle, CatchupSettles, ServeSettles, RefuseSettles DEF Step
  <2> QED
    BY <2>1, <2>3, <2>4
<1>3. CASE UNCHANGED vars
  BY <1>3, QuietSettles DEF vars
<1> QED
  BY <1>1, <1>2, <1>3 DEF Next

\* A syncer that has nothing to do is at the latest replica, its pipelines are
\* synced, and the clients that are connected to it are where it is.
LEMMA SettledFacts ==
    ASSUME IInv, Settling, ~Survivors, Settled, NEW c \in Clients, client[c].on,
           NEW v, v = db.version, syncer[client[c].at].cvr = v, NEW cr, cr = cvrs[v]
    PROVE  /\ client[c].cookie = v /\ v \in DOMAIN cvrs /\ Recording(cr, v, cvrs, log)
           /\ Even(cr) /\ Listed(cr) /\ Same(log, v[1], Tip, cr.got)
           /\ Clients = {c} => cr.desired[c] = wants[c]
<1>1. PICK s \in Syncers :
         /\ client[c].at = s
         /\ Linked(client[c], syncer[s], op[s], handler[s][c], cvrs, wants[c], c)
  BY DEF Settling
<1>2. PICK x, h : x = syncer[s] /\ h = handler[s]
  OBVIOUS
<1>3. /\ x.cvr = v /\ op[s] = Idle /\ ~Asked(s)
  BY <1>1, <1>2 DEF Settled
<1>4. /\ Linked(client[c], x, Idle, h[c], cvrs, wants[c], c)
      /\ Serving(x, Idle, h, db, cvrs)
      /\ \A u \in DOMAIN cvrs : Listed(cvrs[u])
  BY <1>1, <1>2, <1>3 DEF Settling
<1>5. /\ v \in DOMAIN cvrs /\ v # NoVersion /\ Committed(cvrs, v, log)
  BY LatestExists
<1>6. v \in Version /\ v[1] \in Nat /\ v[1] <= Tip /\ Recording(cr, v, cvrs, log)
  BY <1>5, CommittedFacts DEF Tip
<1>7. /\ x \in Syncing /\ Going(x, Idle, pending[s], db, cvrs, log) /\ Kinds
  BY <1>2, <1>3, Parts
<1>8. x.pv \in Nat /\ x.pv <= Tip /\ Tip \in Nat /\ 1 <= Tip
  BY <1>7 DEF Going, Working, Syncing, Tip, Kinds, Logged
<1>9. x.state = "up" /\ client[c].ws # 0 /\ h[c].ws # 0 /\ h[c].base = client[c].cookie
  BY <1>4 DEF Linked
<1>10. Free(s)
  BY <1>2, <1>3, <1>5, <1>9 DEF Free, Stranded
<1>11. h[c].msg = "none"
  BY <1>2, <1>3, <1>10 DEF Asked, Called
<1>12. x.ready
  BY <1>4, <1>9, <1>11, IdleFacts DEF Serving, Attending, Asks
<1>13. x.pv = Tip
  <2>1. ~(x.pv < Tip)
    BY <1>2, <1>3, <1>10, <1>12 DEF Asked, Woken
  <2> QED
    BY <1>8, <2>1
<1>14. x.synced
  <2>1. ~x.synced => x.pv < v[1]
    BY <1>4, <1>8, <1>9, <1>13, IdleFacts DEF Serving, Trailing
  <2> QED
    BY <1>6, <1>8, <1>13, <2>1
<1>15. client[c].cookie = v
  <2>1. Heard(h[c])
    BY <1>9, <1>11 DEF Heard
  <2> QED
    BY <1>3, <1>4, <1>9, <1>14, <2>1, IdleFacts DEF Serving, Abreast
<1>16. Even(cr)
  BY <1>3, <1>4, <1>5, <1>14, IdleFacts DEF Serving, Complete
<1>17. Same(log, v[1], Tip, cr.got)
  <2>1. Current(x, Idle, pending[s], db, cvrs, log)
    BY <1>3, <1>7 DEF Going
  <2>2. Pipes(x, cr.got, v[1], log)
    BY <1>14, <2>1, IdleFacts DEF Current
  <2> QED
    BY <1>13, <2>2 DEF Pipes
<1>18. Clients = {c} => cr.desired[c] = wants[c]
  BY <1>3, <1>4, <1>9, <1>11, IdleFacts DEF Linked
<1> QED
  BY <1>4, <1>5, <1>6, <1>15, <1>16, <1>17, <1>18

\* A client that is where the CVR is has the rows its queries select.
LEMMA CurrentRows ==
    ASSUME IInv, NEW c \in Clients, NEW v, client[c].cookie = v, v \in DOMAIN cvrs,
           NEW cr, cr = cvrs[v], Recording(cr, v, cvrs, log), Even(cr), Listed(cr),
           Same(log, v[1], Tip, cr.got), cr.desired[c] = wants[c],
           NEW q \in wants[c], NEW r \in Selects[q]
    PROVE  client[c].rows[r] = log[Tip][r]
<1>1. /\ Committed(cvrs, db.version, log) /\ Seeing(client[c], cvrs)
      /\ wants[c] \subseteq Queries
  BY Parts DEF Coherent, Kinds
<1>2. v # NoVersion /\ v[1] \in Nat
  BY <1>1, CommittedFacts
<1>3. q \in Queries /\ r \in Rows
  BY <1>1, ViewSyncAssumption
<1>4. q \in cr.got
  BY <1>3 DEF Listed, Desired, Even
<1>5. cr.got \in SUBSET Queries /\ v[1] > 0 /\ Exact(cr.rows, cr.got, v[1], log)
  BY <1>2, <1>4 DEF Recording, Cvr
<1>6. client[c].rows = View(cr.rows)
  BY <1>1, <1>2 DEF Seeing, RowsAt
<1>7. PICK rows, got, n : rows = cr.rows /\ got = cr.got /\ n = v[1]
  OBVIOUS
<1>8. View(rows)[r] = IF Referenced(rows[r]) THEN rows[r].at ELSE 0
  BY <1>3, CachedFacts
<1>9. /\ Referenced(rows[r]) <=> n > 0 /\ log[n][r] # 0 /\ \E p \in got : r \in Selects[p]
      /\ Referenced(rows[r]) => rows[r].at = log[n][r]
  <2>1. got \in SUBSET Queries /\ Exact(rows, got, n, log) /\ r \in Rows
    BY <1>3, <1>5, <1>7
  <2> QED
    BY <2>1, Counted
<1>10. View(rows)[r] = log[n][r]
  BY <1>4, <1>5, <1>7, <1>8, <1>9
<1>11. log[n][r] = log[Tip][r]
  BY <1>3, <1>4, <1>7 DEF Same
<1> QED
  BY <1>6, <1>7, <1>10, <1>11

LEMMA SettlingInvariant ==
    ASSUME ~Survivors
    PROVE  Spec => [](IInv /\ Settling)
<1>1. Init => IInv /\ Settling
  BY Initially, SettlingInitially
<1>2. IInv /\ Settling /\ [Next]_vars => IInv' /\ Settling'
  BY EachStep, EachSettles
<1> QED
  BY <1>1, <1>2, PTL DEF Spec

\* Once no syncer has anything left to do, a client of a syncer that has the
\* current CVR has the rows of the latest replica for every query the CVR says
\* it desires; alone in its group, the CVR says what it desires.  So it is for
\* any number of clients, syncers, rows and queries, and however operations,
\* connections, drains, crashes and takeovers interleave: the run loop, the
\* clients' operations and their catchups leave nobody behind (view-syncer.ts
\* run, #runInLockForClient, #advancePipelines, #catchupClients).
THEOREM SettledClients ==
    ASSUME ~Survivors
    PROVE  Spec => []SettledClientsAreCurrent
<1>1. IInv /\ Settling => SettledClientsAreCurrent
  <2> SUFFICES ASSUME IInv, Settling, Settled, NEW c \in Clients, client[c].on,
                      syncer[client[c].at].cvr = db.version
               PROVE  /\ Clients = {c} => Heeded(c)
                      /\ Heeded(c) =>
                            \A q \in wants[c] : \A r \in Selects[q] : client[c].rows[r] = log[Tip][r]
    BY DEF SettledClientsAreCurrent
  <2>1. PICK v : v = db.version
    OBVIOUS
  <2>2. PICK cr : cr = cvrs[v]
    OBVIOUS
  <2>3. /\ client[c].cookie = v /\ v \in DOMAIN cvrs /\ Recording(cr, v, cvrs, log)
        /\ Even(cr) /\ Listed(cr) /\ Same(log, v[1], Tip, cr.got)
        /\ Clients = {c} => cr.desired[c] = wants[c]
    BY <2>1, <2>2, SettledFacts
  <2>4. Heeded(c) <=> cr.desired[c] = wants[c]
    BY <2>1, <2>2 DEF Heeded
  <2>5. ASSUME Heeded(c), NEW q \in wants[c], NEW r \in Selects[q]
        PROVE  client[c].rows[r] = log[Tip][r]
    BY <2>2, <2>3, <2>4, <2>5, CurrentRows
  <2> QED
    BY <2>3, <2>4, <2>5
<1> QED
  BY <1>1, SettlingInvariant, PTL

=============================================================================
