-------------------------- MODULE ClientViewProofs --------------------------
(***************************************************************************)
(* That the CVR, its row records and the rows of the clients agree, for    *)
(* any number of clients and syncers and any mix of faults, unless a view- *)
(* syncer goes on after one of its operations failed (Survivors).          *)
(*                                                                         *)
(* The operations that write a CVR are followed from their start (what is  *)
(* hydrated, advanced or caught up with is an update that leads from the   *)
(* CVR read) through the flush to the pokes, one lemma for each; then the  *)
(* steps are put together, and the properties follow from the invariant.   *)
(***************************************************************************)
EXTENDS ClientViewInvariant

-----------------------------------------------------------------------------
(* Updates. *)

LEMMA LoggedFacts ==
    ASSUME NEW lg, Logged(lg), NEW n \in Nat, 1 <= n, n <= Len(lg)
    PROVE  lg[n] \in [Rows -> 0..MaxVersion] /\ lg[n] \in [Rows -> Nat] /\ lg[n] \in [Rows -> 0..n]
<1>1. MaxVersion \in Nat
  BY ViewSyncAssumption
<1>2. lg[n] \in [Rows -> 0..n] /\ Len(lg) \in 1..MaxVersion
  BY DEF Logged
<1>3. 0..n \subseteq 0..MaxVersion /\ 0..n \subseteq Nat
  BY <1>1, <1>2
<1> QED
  BY <1>2, <1>3

\* The pipelines after the queries have been synced.
LEMMA SyncedQueries ==
    ASSUME NEW queries, NEW got \in SUBSET queries, NEW hydrated \in SUBSET got,
           NEW expired \in SUBSET queries, NEW adds, adds = (queries \ expired) \ hydrated
    PROVE  /\ (hydrated \ expired) \cup adds = queries \ expired
           /\ (got \ expired) \cup adds = queries \ expired
           /\ expired = {} /\ adds \subseteq got => queries = got
OBVIOUS

\* Hydrating queries and removing others.
SyncOf(lg, cv, v, cr, pv, hydrated, expired, adds, to, received, new, rows, patches, all,
       left) ==
    /\ Logged(lg) /\ v \in Version /\ Recording(cr, v, cv, lg)
    /\ v[1] <= Len(lg) /\ pv \in Nat /\ 1 <= pv /\ pv <= Len(lg) /\ v[1] <= pv
    /\ hydrated \in SUBSET cr.got /\ Same(lg, v[1], pv, hydrated)
    /\ expired \in SUBSET cr.queries /\ adds = (cr.queries \ expired) \ hydrated
    /\ to = IF pv > v[1] THEN <<pv, 0>> ELSE OneAfter(v)
    /\ received = [r \in Rows |-> IF r \in Hits(adds, lg[pv]) THEN lg[pv][r] ELSE 0]
    /\ new = Resynced(cr.rows, adds, expired, lg[pv], to)
    /\ rows = Changes(cr.rows, new)
    /\ patches = Patches(cr.rows, new, received, to)
    /\ all = Cached(rows ++ cr.rows)
    /\ left = cr.queries \ expired

LEMMA SyncUpdate ==
    ASSUME NEW lg, NEW cv, NEW v, NEW cr, NEW pv, NEW hydrated, NEW expired, NEW adds, NEW to,
           NEW received, NEW new, NEW rows, NEW patches, NEW all, NEW left,
           SyncOf(lg, cv, v, cr, pv, hydrated, expired, adds, to, received, new, rows, patches, all,
                  left)
    PROVE  /\ to \in Version /\ Less(v, to) /\ to[1] = pv
           /\ Exact(all, left, pv, lg)
           /\ Shown(patches, to, cr.rows, all)
           /\ Recorded(rows, to, cr.rows, all)
           /\ Hydrated(patches, adds, all)
           /\ expired = {} /\ adds \subseteq cr.got /\ rows = None => Same(lg, v[1], pv, cr.got)
<1>0. /\ Logged(lg) /\ v \in Version /\ Recording(cr, v, cv, lg)
      /\ v[1] <= Len(lg) /\ pv \in Nat /\ 1 <= pv /\ pv <= Len(lg) /\ v[1] <= pv
      /\ hydrated \in SUBSET cr.got /\ Same(lg, v[1], pv, hydrated)
      /\ expired \in SUBSET cr.queries /\ adds = (cr.queries \ expired) \ hydrated
      /\ to = IF pv > v[1] THEN <<pv, 0>> ELSE OneAfter(v)
  BY DEF SyncOf
<1>1. /\ cr.got \subseteq cr.queries /\ cr.queries \subseteq Queries /\ cr.rows \in [Rows -> Rec]
      /\ Exact(cr.rows, cr.got, v[1], lg)
      /\ v[1] = 0 => cr.got = {}
      /\ v[1] \in Nat /\ pv \in Nat \ {0}
  BY <1>0 DEF Recording, Cvr, Version
<1>2. to \in Version /\ Less(v, to) /\ to[1] = pv
  <2>1. /\ OneAfter(v) \in Version /\ Less(v, OneAfter(v)) /\ OneAfter(v)[1] = v[1]
        /\ pv > v[1] => <<pv, 0>> \in Version /\ Less(v, <<pv, 0>>) /\ <<pv, 0>>[1] = pv
    BY <1>0, VersionNext
  <2>2. CASE pv > v[1]
    BY <1>0, <2>1, <2>2
  <2>3. CASE pv = v[1]
    BY <1>0, <1>1, <2>1, <2>3
  <2> QED
    BY <1>0, <1>1, <2>2, <2>3
<1>3. lg[pv] \in [Rows -> 0..MaxVersion] /\ lg[pv] \in [Rows -> Nat]
  BY <1>0, LoggedFacts
<1>4. /\ adds \in SUBSET Queries /\ expired \in SUBSET Queries /\ adds \cap expired = {}
      /\ cr.got \in SUBSET Queries /\ cr.queries \ expired \in SUBSET Queries
      /\ cr.queries \ expired = (cr.got \ expired) \cup adds
      /\ Same(lg, v[1], pv, cr.got \ (adds \cup expired))
  <2>1. cr.got \ (adds \cup expired) \subseteq hydrated
    BY <1>0, <1>1
  <2> QED
    BY <1>0, <1>1, <2>1, SyncedQueries DEF Same
<1>5. PICK got : got = cr.queries \ expired
  OBVIOUS
<1>6. /\ Renewed(new, cr.rows, received, got, pv, lg, to)
      /\ \A q \in adds : \A r \in Selects[q] :
            lg[pv][r] # 0 => r \in DOMAIN new /\ received[r] # 0
  <2>1. PICK was : was = cr.got
    OBVIOUS
  <2>2. PICK m : m = v[1]
    OBVIOUS
  <2>3. PICK old : old = cr.rows
    OBVIOUS
  <2>4. PICK n : n = pv
    OBVIOUS
  <2>5. Resyncing(lg, n, m, was, adds, expired, old, to, got, received, new)
    BY <1>1, <1>2, <1>3, <1>4, <1>5, <2>1, <2>2, <2>3, <2>4 DEF Resyncing, SyncOf
  <2>6. /\ Renewed(new, old, received, got, n, lg, to)
        /\ \A q \in adds : \A r \in Selects[q] :
              lg[n][r] # 0 => r \in DOMAIN new /\ received[r] # 0
    BY <2>5, ResyncedRenewed
  <2> QED
    BY <2>3, <2>4, <2>6
<1>7. /\ Exact(all, got, pv, lg)
      /\ Shown(patches, to, cr.rows, all)
      /\ Recorded(rows, to, cr.rows, all)
      /\ DOMAIN rows = {} => all = cr.rows
      /\ DOMAIN patches \subseteq Rows
      /\ \A r \in DOMAIN patches : patches[r].to = to \/ patches[r].to = all[r].patch
      /\ \A r \in DOMAIN new : Referenced(new[r]) /\ received[r] # 0 =>
            r \in DOMAIN patches /\ patches[r].to = all[r].patch
  <2>1. PICK was : was = cr.got
    OBVIOUS
  <2>2. PICK m : m = v[1]
    OBVIOUS
  <2>3. PICK old : old = cr.rows
    OBVIOUS
  <2>4. PICK n : n = pv
    OBVIOUS
  <2>5. Renewing(lg, n, m, got, was, old, new, received, to, rows, all, patches)
    BY <1>1, <1>3, <1>4, <1>5, <1>6, <2>1, <2>2, <2>3, <2>4 DEF Renewing, SyncOf
  <2>6. /\ Exact(all, got, n, lg)
        /\ Shown(patches, to, old, all)
        /\ Recorded(rows, to, old, all)
        /\ DOMAIN rows = {} => all = old
        /\ DOMAIN patches \subseteq Rows
        /\ \A r \in DOMAIN patches : patches[r].to = to \/ patches[r].to = all[r].patch
        /\ \A r \in DOMAIN new : Referenced(new[r]) /\ received[r] # 0 =>
              r \in DOMAIN patches /\ patches[r].to = all[r].patch
    BY <2>5, Renewal
  <2> QED
    BY <2>3, <2>4, <2>6
<1>8. Hydrated(patches, adds, all)
  <2> SUFFICES ASSUME NEW r \in Rows, NEW q \in adds, all[r].refs[q] # 0
               PROVE  r \in DOMAIN patches /\ patches[r].to = all[r].patch
    BY DEF Hydrated
  <2>0. q \in Queries /\ q \in got
    BY <1>4, <1>5
  <2>1. r \in Selects[q] /\ lg[pv][r] # 0
    BY <1>7, <2>0 DEF Exact
  <2>2. r \in DOMAIN new /\ received[r] # 0
    BY <1>6, <2>1
  <2>3. new[r].refs[q] = 1
    BY <1>6, <2>0, <2>1, <2>2 DEF Renewed
  <2>4. Referenced(new[r])
    BY <2>0, <2>3 DEF Referenced
  <2> QED
    BY <1>7, <2>2, <2>4
<1>9. ASSUME expired = {}, adds \subseteq cr.got, rows = None
      PROVE  Same(lg, v[1], pv, cr.got)
  <2>1. DOMAIN rows = {}
    BY <1>9 DEF None
  <2>2. got = cr.got
    BY <1>1, <1>4, <1>5, <1>9
  <2>3. Exact(cr.rows, cr.got, pv, lg)
    BY <1>7, <2>1, <2>2
  <2>4. CASE v[1] = 0
    BY <1>1, <2>4 DEF Same
  <2>5. CASE v[1] # 0
    <3>1. lg[v[1]] \in [Rows -> Nat] /\ pv > 0
      BY <1>0, <1>1, <2>5, LoggedFacts
    <3>2. PICK m : m = v[1]
      OBVIOUS
    <3>3. PICK was : was = cr.got
      OBVIOUS
    <3>4. PICK old : old = cr.rows
      OBVIOUS
    <3>5. /\ m \in Nat /\ was \in SUBSET Queries /\ lg[m] \in [Rows -> Nat]
          /\ m = 0 => was = {}
          /\ Exact(old, was, m, lg) /\ Exact(old, was, pv, lg)
          /\ pv \in Nat /\ pv > 0 /\ lg[pv] \in [Rows -> Nat]
      BY <1>1, <1>3, <1>4, <2>3, <3>1, <3>2, <3>3, <3>4
    <3>6. Same(lg, m, pv, was)
      BY <3>5, Unchanged
    <3> QED
      BY <3>2, <3>3, <3>6
  <2> QED
    BY <2>4, <2>5
<1>10. got = left
  BY <1>5 DEF SyncOf
<1> QED
  BY <1>2, <1>7, <1>8, <1>9, <1>10

\* Advancing the pipelines.
AdvanceOf(lg, cv, v, cr, pv, now, to, new, rows, patches, all) ==
    /\ Logged(lg) /\ v \in Version /\ Recording(cr, v, cv, lg) /\ v[1] <= Len(lg)
    /\ pv \in Nat /\ 1 <= pv /\ now \in Nat /\ now <= Len(lg) /\ v[1] <= pv /\ pv < now
    /\ Same(lg, v[1], pv, cr.got)
    /\ to = Later(v, now)
    /\ new = Advanced(cr.rows, cr.got, lg[pv], lg[now], to)
    /\ rows = Changes(cr.rows, new)
    /\ patches = Patches(cr.rows, new, lg[now], to)
    /\ all = Cached(rows ++ cr.rows)

LEMMA AdvanceUpdate ==
    ASSUME NEW lg, NEW cv, NEW v, NEW cr, NEW pv, NEW now, NEW to, NEW new, NEW rows,
           NEW patches, NEW all,
           AdvanceOf(lg, cv, v, cr, pv, now, to, new, rows, patches, all)
    PROVE  /\ to \in Version /\ Less(v, to) /\ to[1] = now
           /\ Exact(all, cr.got, now, lg)
           /\ Shown(patches, to, cr.rows, all)
           /\ Recorded(rows, to, cr.rows, all)
           /\ rows = None => Same(lg, v[1], now, cr.got)
<1>0. /\ Logged(lg) /\ v \in Version /\ Recording(cr, v, cv, lg) /\ v[1] <= Len(lg)
      /\ pv \in Nat /\ 1 <= pv /\ now \in Nat /\ now <= Len(lg) /\ v[1] <= pv /\ pv < now
      /\ Same(lg, v[1], pv, cr.got)
      /\ to = Later(v, now)
  BY DEF AdvanceOf
<1>1. /\ cr.got \in SUBSET Queries /\ cr.rows \in [Rows -> Rec]
      /\ Exact(cr.rows, cr.got, v[1], lg)
      /\ v[1] = 0 => cr.got = {}
      /\ v[1] \in Nat /\ pv \in Nat \ {0} /\ now \in Nat \ {0} /\ pv <= Len(lg) /\ now > v[1]
  <2>1. Len(lg) \in Nat
    BY <1>0, ViewSyncAssumption DEF Logged
  <2> QED
    BY <1>0, <2>1 DEF Recording, Cvr, Version
<1>2. to \in Version /\ Less(v, to) /\ to[1] = now
  BY <1>0, <1>1, VersionNext DEF Later
<1>3. /\ lg[pv] \in [Rows -> 0..MaxVersion] /\ lg[now] \in [Rows -> 0..MaxVersion]
      /\ lg[pv] \in [Rows -> Nat] /\ lg[now] \in [Rows -> Nat]
  BY <1>0, <1>1, LoggedFacts
<1>4. PICK was : was = cr.got
  OBVIOUS
<1>5. PICK m : m = v[1]
  OBVIOUS
<1>6. PICK old : old = cr.rows
  OBVIOUS
<1>7. /\ was \in SUBSET Queries /\ old \in [Rows -> Rec] /\ Exact(old, was, m, lg) /\ m \in Nat
      /\ m = 0 => was = {}
      /\ Same(lg, m, pv, was)
  BY <1>0, <1>1, <1>4, <1>5, <1>6
<1>8. Exact(old, was, pv, lg)
  BY <1>1, <1>7, Carried
<1>9. Renewed(new, old, lg[now], was, now, lg, to)
  <2>1. new = Advanced(old, was, lg[pv], lg[now], to)
    BY <1>4, <1>6 DEF AdvanceOf
  <2> QED
    BY <1>1, <1>2, <1>3, <1>7, <1>8, <2>1, AdvancedRenewed
<1>10. PICK received : received = lg[now]
  OBVIOUS
<1>11. /\ Exact(all, was, now, lg)
       /\ Shown(patches, to, old, all)
       /\ Recorded(rows, to, old, all)
       /\ DOMAIN rows = {} => all = old
       /\ DOMAIN patches \subseteq Rows
       /\ \A r \in DOMAIN patches : patches[r].to = to \/ patches[r].to = all[r].patch
       /\ \A r \in DOMAIN new : Referenced(new[r]) /\ received[r] # 0 =>
             r \in DOMAIN patches /\ patches[r].to = all[r].patch
  <2>1. Renewing(lg, now, m, was, was, old, new, received, to, rows, all, patches)
    BY <1>1, <1>3, <1>6, <1>7, <1>9, <1>10 DEF Renewing, AdvanceOf
  <2> QED
    BY <2>1, Renewal
<1>12. ASSUME rows = None
       PROVE  Same(lg, m, now, was)
  <2>1. DOMAIN rows = {}
    BY <1>12 DEF None
  <2>2. Exact(old, was, now, lg)
    BY <1>11, <2>1
  <2>3. CASE m = 0
    BY <1>7, <2>3 DEF Same
  <2>4. CASE m # 0
    <3>1. lg[m] \in [Rows -> Nat] /\ now > 0
      BY <1>0, <1>1, <1>5, <2>4, LoggedFacts
    <3> QED
      BY <1>1, <1>3, <1>7, <2>2, <3>1, Unchanged
  <2> QED
    BY <2>3, <2>4
<1> QED
  BY <1>2, <1>4, <1>5, <1>6, <1>11, <1>12



\* An operation before it has got anywhere.
Beginning(who) ==
    /\ DOMAIN who = DOMAIN Idle
    /\ who.patches = None /\ who.adds = {} /\ who.advance = FALSE /\ DOMAIN who.pokers = {}

LEMMA Beginnings ==
    /\ \A c, ws : Beginning(ClientOp(c, ws)) /\ ClientOp(c, ws).c = c
    /\ Beginning(RunOp)
BY DEF Beginning, ClientOp, RunOp, Idle

\* The handlers' connections, as an operation that pokes all of them finds them.
LEMMA SocketsPoked ==
    ASSUME NEW hs \in [Clients -> Handler], NEW k, NEW cv,
           \A c \in Clients : hs[c].base \in {NoVersion} \cup DOMAIN cv /\ hs[c].ws <= k, k \in Nat,
           NEW y, NEW o, o.pokers = [c \in {d \in Clients : hs[d].ws # 0} |-> hs[c].ws],
           o.pc = "flush" => ~o.advance, o.pc = "catchup" => y.cvr = o.from
    PROVE  Poking(hs, y, o, k, cv)
<1>1. \A c \in Clients : hs[c].ws \in Nat
  BY DEF Handler
<1>2. \A c \in DOMAIN o.pokers : c \in Clients /\ o.pokers[c] = hs[c].ws /\ hs[c].ws # 0
  OBVIOUS
<1>3. \A c \in DOMAIN o.pokers : c \in Clients /\ o.pokers[c] \in 1..k
  BY <1>1, <1>2
<1> QED
  BY <1>3 DEF Poking

\* What #syncQueryPipelineSet starts from.
Syncable(me, v, cr, cache, who, lg, e, p, more) ==
    /\ me \in Syncing /\ Beginning(who)
    /\ Logged(lg) /\ me.pv <= Len(lg)
    /\ v \in DOMAIN more /\ more[v] = cr /\ v \in Version /\ v # NoVersion /\ v[1] <= Len(lg)
    /\ Recording(cr, v, more, lg)
    /\ me.hydrated \subseteq cr.got
    /\ cache \in [Rows -> Rec]
    /\ v = e.version =>
          /\ cache = cr.rows
          /\ me.cache = cr.rows \/ (me.cache = None /\ e.rowsVersion = v)
          /\ e.rowsVersion # v => Holds(p)
          /\ 1 <= me.pv /\ v[1] <= me.pv
          /\ Same(lg, v[1], me.pv, me.hydrated)

SyncRests(me, v, who, sockets, y, o) ==
    /\ o = [who EXCEPT !.pc = "catchup", !.from = v, !.to = v, !.pokers = sockets]
    /\ y = [me EXCEPT !.cvr = v]

\* It goes on with the clients, if there is nothing to hydrate or to remove.
LEMMA SyncNothing ==
    ASSUME NEW me, NEW v, NEW cr, NEW cache, NEW who, NEW lg, NEW e, NEW p, NEW more,
           Syncable(me, v, cr, cache, who, lg, e, p, more), cr.queries \subseteq me.hydrated,
           NEW sockets, NEW y, NEW o, SyncRests(me, v, who, sockets, y, o)
    PROVE  /\ y \in Syncing /\ y.state = me.state /\ DOMAIN o = DOMAIN Idle
           /\ o.pokers = sockets /\ o.pc = "catchup" /\ y.cvr = o.from
           /\ Going(y, o, p, e, more, lg)
<1>1. /\ me \in Syncing /\ DOMAIN who = DOMAIN Idle /\ who.patches = None /\ who.adds = {}
      /\ v \in Version /\ v \in DOMAIN more /\ more[v] = cr /\ me.pv <= Len(lg)
      /\ me.hydrated \subseteq cr.got /\ cr.got \subseteq cr.queries
  BY DEF Syncable, Beginning, Recording
<1>2. /\ y \in Syncing /\ y.state = me.state /\ y.cvr = v /\ y.pv = me.pv
      /\ y.hydrated = me.hydrated /\ y.cache = me.cache
  BY <1>1 DEF Syncing, Cookie, SyncRests
<1>3. /\ DOMAIN o = DOMAIN Idle /\ o.pokers = sockets /\ o.pc = "catchup" /\ o.from = v /\ o.to = v
      /\ o.patches = None /\ o.adds = {}
  BY <1>1, IdleFacts DEF SyncRests
<1>4. me.hydrated = cr.got
  BY <1>1
<1>5. Working(y, o, more, lg)
  BY <1>1, <1>2, <1>3, <1>4, NoVersionFirst DEF Working
<1>6. ASSUME v = e.version
      PROVE  Current(y, o, p, e, more, lg)
  <2>1. /\ me.cache = cr.rows \/ (me.cache = None /\ e.rowsVersion = v)
        /\ e.rowsVersion # v => Holds(p)
        /\ 1 <= me.pv /\ v[1] <= me.pv /\ Same(lg, v[1], me.pv, cr.got)
    BY <1>4, <1>6 DEF Syncable
  <2>2. Pipes(y, cr.got, v[1], lg)
    BY <1>1, <1>2, <2>1 DEF Pipes
  <2>3. Following(y, o, p, e, more)
    BY <1>2, <1>3 DEF Following, Hydrated, None
  <2> QED
    BY <1>1, <1>2, <1>3, <1>6, <2>1, <2>2, <2>3 DEF Current
<1> QED
  BY <1>2, <1>3, <1>5, <1>6 DEF Going



\* What it makes of it,
SyncMakes(me, v, cr, cache, lg, expired, adds, to, received, new, rows, patches) ==
    /\ expired \in SUBSET cr.queries
    /\ adds = (cr.queries \ expired) \ me.hydrated
    /\ to = IF me.pv > v[1] THEN <<me.pv, 0>> ELSE OneAfter(v)
    /\ received = [r \in Rows |-> IF r \in Hits(adds, lg[me.pv]) THEN lg[me.pv][r] ELSE 0]
    /\ new = Resynced(cache, adds, expired, lg[me.pv], to)
    /\ rows = Changes(cache, new)
    /\ patches = Patches(cache, new, received, to)

\* what it says of it,
SyncTells(me, v, cr, expired, adds, rows, requeried, bad, writes, queries, got, hydrated) ==
    /\ requeried \in BOOLEAN /\ (requeried <=> (expired # {} \/ ~(adds \subseteq cr.got)))
    /\ bad \in BOOLEAN /\ (bad <=> me.pv < v[1])
    /\ writes \in BOOLEAN /\ (writes <=> (requeried \/ rows # None))
    /\ queries = cr.queries \ expired
    /\ got = (cr.got \ expired) \cup adds
    /\ hydrated = (me.hydrated \ expired) \cup adds

\* and the operation that flushes it.
SyncFlushes(me, v, cache, who, to, adds, rows, patches, requeried, bad, writes, sockets,
            queries, got, hydrated, y, o) ==
    /\ o = [who EXCEPT !.pc = "flush", !.from = v, !.to = to, !.bad = bad,
                  !.noted = requeried, !.writes = writes, !.queries = queries,
                  !.got = got, !.adds = adds, !.rows = rows, !.pokers = sockets,
                  !.patches = patches]
    /\ y = [me EXCEPT !.cvr = v, !.cache = cache, !.hydrated = hydrated]

LEMMA SyncSomething ==
    ASSUME NEW me, NEW v, NEW cr, NEW cache, NEW who, NEW lg, NEW e, NEW p, NEW more,
           Syncable(me, v, cr, cache, who, lg, e, p, more),
           NEW expired, NEW adds, NEW to, NEW received, NEW new, NEW rows, NEW patches,
           SyncMakes(me, v, cr, cache, lg, expired, adds, to, received, new, rows, patches),
           NEW requeried, NEW bad, NEW writes, NEW queries, NEW got, NEW hydrated,
           SyncTells(me, v, cr, expired, adds, rows, requeried, bad, writes, queries, got, hydrated),
           NEW sockets, NEW y, NEW o,
           SyncFlushes(me, v, cache, who, to, adds, rows, patches, requeried, bad, writes, sockets,
                       queries, got, hydrated, y, o)
    PROVE  /\ y \in Syncing /\ y.state = me.state /\ DOMAIN o = DOMAIN Idle
           /\ o.pokers = sockets /\ o.pc = "flush" /\ ~o.advance
           /\ Going(y, o, p, e, more, lg)
<1>1. /\ me \in Syncing /\ DOMAIN who = DOMAIN Idle /\ ~who.advance
      /\ v \in Version /\ v # NoVersion /\ v \in DOMAIN more /\ more[v] = cr
      /\ me.pv <= Len(lg)
      /\ me.hydrated \subseteq cr.got /\ cr.got \subseteq cr.queries
      /\ cr.queries \subseteq Queries /\ cache \in [Rows -> Rec]
  BY DEF Syncable, Beginning, Recording, Cvr
<1>a. expired \in SUBSET cr.queries /\ adds = (cr.queries \ expired) \ me.hydrated
  BY DEF SyncMakes
<1>b. /\ requeried \in BOOLEAN /\ (requeried <=> (expired # {} \/ ~(adds \subseteq cr.got)))
      /\ bad \in BOOLEAN /\ (bad <=> me.pv < v[1])
      /\ writes \in BOOLEAN /\ (writes <=> (requeried \/ rows # None))
      /\ queries = cr.queries \ expired
      /\ got = (cr.got \ expired) \cup adds
      /\ hydrated = (me.hydrated \ expired) \cup adds
  BY DEF SyncTells
<1>2. /\ hydrated = queries /\ got = queries /\ queries \subseteq Queries /\ adds \subseteq Queries
      /\ expired = {} /\ adds \subseteq cr.got => queries = cr.got
  BY <1>1, <1>a, <1>b, SyncedQueries
<1>3. /\ y \in Syncing /\ y.state = me.state /\ y.cvr = v /\ y.pv = me.pv
      /\ y.hydrated = hydrated /\ y.cache = cache
  BY <1>1, <1>2 DEF Syncing, Cookie, SyncFlushes
<1>4. /\ DOMAIN o = DOMAIN Idle /\ o.pokers = sockets /\ o.pc = "flush" /\ o.advance = who.advance
      /\ o.from = v /\ o.to = to /\ o.bad = bad /\ o.writes = writes /\ o.queries = queries
      /\ o.got = got /\ o.adds = adds /\ o.rows = rows /\ o.patches = patches
  BY <1>1, IdleFacts DEF SyncFlushes
<1>5. ~writes => expired = {} /\ adds \subseteq cr.got /\ rows = None
  BY <1>b
<1>6. Working(y, o, more, lg)
  BY <1>1, <1>2, <1>3, <1>4, <1>5 DEF Working
<1>7. ASSUME v = e.version
      PROVE  Current(y, o, p, e, more, lg)
  <2>1. /\ cache = cr.rows
        /\ e.rowsVersion # v => Holds(p)
        /\ 1 <= me.pv /\ v[1] <= me.pv /\ Same(lg, v[1], me.pv, me.hydrated)
    BY <1>7 DEF Syncable
  <2>2. PICK all : all = Cached(rows ++ cr.rows)
    OBVIOUS
  <2>3. PICK pv : pv = me.pv
    OBVIOUS
  <2>4. PICK hyd : hyd = me.hydrated
    OBVIOUS
  <2>5. Logged(lg) /\ Recording(cr, v, more, lg) /\ v[1] <= Len(lg) /\ pv \in Nat
    BY <1>1, <2>3 DEF Syncable, Syncing
  <2>6. /\ 1 <= pv /\ pv <= Len(lg) /\ v[1] <= pv
        /\ hyd \in SUBSET cr.got /\ Same(lg, v[1], pv, hyd)
        /\ adds = (cr.queries \ expired) \ hyd
        /\ to = IF pv > v[1] THEN <<pv, 0>> ELSE OneAfter(v)
    BY <1>1, <2>1, <2>3, <2>4 DEF SyncMakes
  <2>7. received = [r \in Rows |-> IF r \in Hits(adds, lg[pv]) THEN lg[pv][r] ELSE 0]
    BY <2>3 DEF SyncMakes
  <2>a. /\ new = Resynced(cache, adds, expired, lg[me.pv], to)
        /\ rows = Changes(cache, new) /\ patches = Patches(cache, new, received, to)
    BY DEF SyncMakes
  <2>8. /\ new = Resynced(cr.rows, adds, expired, lg[pv], to)
        /\ rows = Changes(cr.rows, new) /\ patches = Patches(cr.rows, new, received, to)
    BY <2>1, <2>3, <2>a
  <2>9. SyncOf(lg, more, v, cr, pv, hyd, expired, adds, to, received, new, rows, patches, all,
              queries)
    BY <1>1, <1>a, <1>b, <2>2, <2>5, <2>6, <2>7, <2>8 DEF SyncOf
  <2>10. /\ to \in Version /\ Less(v, to) /\ to[1] = pv
         /\ Exact(all, queries, pv, lg)
         /\ Shown(patches, to, cr.rows, all)
         /\ Recorded(rows, to, cr.rows, all)
         /\ Hydrated(patches, adds, all)
         /\ expired = {} /\ adds \subseteq cr.got /\ rows = None => Same(lg, v[1], pv, cr.got)
    BY <2>9, SyncUpdate
  <2>11. ~bad
    BY <1>1, <1>b, <2>1 DEF Syncing, Version
  <2>12. ~writes => rows = None /\ Pipes(y, cr.got, v[1], lg)
    BY <1>1, <1>3, <1>5, <2>1, <2>3, <2>10 DEF Pipes
  <2>13. Exact(all, got, pv, lg)
    BY <1>2, <2>10
  <2>14. more[o.from].rows = cr.rows /\ Cached(o.rows ++ more[o.from].rows) = all
         /\ more[o.from].got = cr.got
    BY <1>1, <1>4, <2>2
  <2>15. o.to[1] = y.pv /\ 1 <= y.pv /\ ~o.bad /\ o.to \in Version /\ Less(o.from, o.to)
    BY <1>3, <1>4, <2>1, <2>3, <2>10, <2>11
  <2>16. o.queries \subseteq Queries /\ o.got \subseteq o.queries /\ y.hydrated = o.got
    BY <1>2, <1>3, <1>4
  <2>17. /\ Exact(all, o.got, y.pv, lg) /\ Shown(o.patches, o.to, cr.rows, all)
         /\ Recorded(o.rows, o.to, cr.rows, all) /\ Hydrated(o.patches, o.adds, all)
    BY <1>3, <1>4, <2>3, <2>10, <2>13
  <2>18. ~o.writes => o.rows = None /\ Pipes(y, cr.got, o.from[1], lg)
    BY <1>4, <2>12
  <2>19. Flushable(y, o, more, lg)
    BY <2>14, <2>15, <2>16, <2>17, <2>18 DEF Flushable
  <2> QED
    BY <1>1, <1>3, <1>4, <1>7, <2>1, <2>19 DEF Current
<1> QED
  BY <1>1, <1>3, <1>4, <1>6, <1>7 DEF Going



LEMMA SyncGoes ==
    ASSUME NEW s \in Syncers, NEW me, NEW v, NEW cr, NEW cache, NEW hs, NEW who,
           Sync(s, me, v, cr, cache, hs, who),
           NEW e, NEW p, NEW more, Syncable(me, v, cr, cache, who, log, e, p, more),
           NEW k \in Nat, hs[s] \in [Clients -> Handler],
           \A c \in Clients : hs[s][c].base \in {NoVersion} \cup DOMAIN more /\ hs[s][c].ws <= k
    PROVE  \E y \in Syncing : \E o :
              /\ syncer' = [syncer EXCEPT ![s] = y] /\ op' = [op EXCEPT ![s] = o]
              /\ y.state = me.state /\ DOMAIN o = DOMAIN Idle
              /\ Going(y, o, p, e, more, log)
              /\ Poking(hs[s], y, o, k, more)
<1>1. PICK expired \in SUBSET (cr.queries \ Desired(cr)) :
       LET adds == (cr.queries \ expired) \ me.hydrated
           to == IF me.pv > v[1] THEN <<me.pv, 0>> ELSE OneAfter(v)
           received == [r \in Rows |-> IF r \in Hits(adds, log[me.pv]) THEN log[me.pv][r] ELSE 0]
           new == Resynced(cache, adds, expired, log[me.pv], to)
           rows == Changes(cache, new)
           requeried == expired # {} \/ ~(adds \subseteq cr.got)
           sockets == [c \in {d \in Clients : hs[s][d].ws # 0} |-> hs[s][c].ws]
           next == [me EXCEPT !.cvr = v]
       IN IF adds \cup expired = {}
          THEN /\ op' = [op EXCEPT ![s] = [who EXCEPT !.pc = "catchup", !.from = v, !.to = v,
                                                      !.pokers = sockets]]
               /\ syncer' = [syncer EXCEPT ![s] = next]
          ELSE /\ op' = [op EXCEPT ![s] = [who EXCEPT !.pc = "flush", !.from = v, !.to = to,
                            !.bad = me.pv < v[1], !.noted = requeried,
                            !.writes = requeried \/ rows # None,
                            !.queries = cr.queries \ expired, !.got = (cr.got \ expired) \cup adds,
                            !.adds = adds, !.rows = rows, !.pokers = sockets,
                            !.patches = Patches(cache, new, received, to)]]
               /\ syncer' = [syncer EXCEPT ![s] =
                                [next EXCEPT !.cache = cache,
                                             !.hydrated = (@ \ expired) \cup adds]]
  BY DEF Sync
<1> DEFINE adds == (cr.queries \ expired) \ me.hydrated
           to == IF me.pv > v[1] THEN <<me.pv, 0>> ELSE OneAfter(v)
           received == [r \in Rows |-> IF r \in Hits(adds, log[me.pv]) THEN log[me.pv][r] ELSE 0]
           new == Resynced(cache, adds, expired, log[me.pv], to)
           rows == Changes(cache, new)
           requeried == expired # {} \/ ~(adds \subseteq cr.got)
           sockets == [c \in {d \in Clients : hs[s][d].ws # 0} |-> hs[s][c].ws]
           patches == Patches(cache, new, received, to)
           bad == me.pv < v[1]
           writes == requeried \/ rows # None
           queries == cr.queries \ expired
           got == (cr.got \ expired) \cup adds
           hydrated == (me.hydrated \ expired) \cup adds
           rest == [who EXCEPT !.pc = "catchup", !.from = v, !.to = v, !.pokers = sockets]
           update == [who EXCEPT !.pc = "flush", !.from = v, !.to = to, !.bad = bad,
                           !.noted = requeried, !.writes = writes, !.queries = queries,
                           !.got = got, !.adds = adds, !.rows = rows, !.pokers = sockets,
                           !.patches = patches]
           resting == [me EXCEPT !.cvr = v]
           updating == [me EXCEPT !.cvr = v, !.cache = cache, !.hydrated = hydrated]
<1>9. PICK hs1 : hs1 = hs[s]
  OBVIOUS
<1>10. /\ hs1 \in [Clients -> Handler] /\ k \in Nat
       /\ \A c \in Clients : hs1[c].base \in {NoVersion} \cup DOMAIN more /\ hs1[c].ws <= k
       /\ sockets = [c \in {d \in Clients : hs1[d].ws # 0} |-> hs1[c].ws]
  BY <1>9
<1>11. /\ me \in Syncing /\ DOMAIN me = DOMAIN Fresh
  BY DEF Syncable, Syncing, Fresh
<1>12. CASE adds \cup expired = {}
  <2>1. op' = [op EXCEPT ![s] = rest] /\ syncer' = [syncer EXCEPT ![s] = resting]
    BY <1>1, <1>12
  <2>2. SyncRests(me, v, who, sockets, resting, rest)
    BY DEF SyncRests
  <2>4. cr.queries \subseteq me.hydrated
    BY <1>12
  <2> HIDE DEF rest, resting, sockets
  <2>3. PICK y, o : y = resting /\ o = rest
    OBVIOUS
  <2>5. /\ y \in Syncing /\ y.state = me.state /\ DOMAIN o = DOMAIN Idle
        /\ o.pokers = sockets /\ o.pc = "catchup" /\ y.cvr = o.from
        /\ Going(y, o, p, e, more, log)
    BY <2>2, <2>3, <2>4, SyncNothing
  <2>6. o.pokers = [c \in {d \in Clients : hs1[d].ws # 0} |-> hs1[c].ws]
    BY <1>10, <2>5
  <2>7. Poking(hs1, y, o, k, more)
    BY <1>10, <2>5, <2>6, SocketsPoked
  <2> QED
    BY <1>9, <2>1, <2>3, <2>5, <2>7
<1>13. CASE adds \cup expired # {}
  <2>9. op' = [op EXCEPT ![s] = update]
    BY <1>1, <1>13
  <2>10. syncer' = [syncer EXCEPT ![s] = updating]
    <3>1. syncer' = [syncer EXCEPT ![s] = [[me EXCEPT !.cvr = v] EXCEPT !.cache = cache,
                                               !.hydrated = (@ \ expired) \cup adds]]
      BY <1>1, <1>13
    <3>2. [[me EXCEPT !.cvr = v] EXCEPT !.cache = cache, !.hydrated = (@ \ expired) \cup adds]
             = updating
      <4> HIDE DEF adds
      <4> QED
        BY <1>11 DEF Fresh
    <3> QED
      BY <3>1, <3>2
  <2>11. SyncMakes(me, v, cr, cache, log, expired, adds, to, received, new, rows, patches)
    BY DEF SyncMakes
  <2>12. SyncTells(me, v, cr, expired, adds, rows, requeried, bad, writes, queries, got, hydrated)
    <3> HIDE DEF adds, rows
    <3> QED
      BY DEF SyncTells
  <2>13. SyncFlushes(me, v, cache, who, to, adds, rows, patches, requeried, bad, writes, sockets,
                     queries, got, hydrated, updating, update)
    BY DEF SyncFlushes
  <2> HIDE DEF adds, to, received, new, rows, requeried, sockets, patches, bad, writes, queries,
               got, hydrated, update, updating
  <2>1. PICK y, o : y = updating /\ o = update
    OBVIOUS
  <2>14. /\ y \in Syncing /\ y.state = me.state /\ DOMAIN o = DOMAIN Idle
         /\ o.pokers = sockets /\ o.pc = "flush" /\ ~o.advance
         /\ Going(y, o, p, e, more, log)
    BY <2>1, <2>11, <2>12, <2>13, SyncSomething
  <2>15. o.pokers = [c \in {d \in Clients : hs1[d].ws # 0} |-> hs1[c].ws]
    BY <1>10, <2>14
  <2>16. Poking(hs1, y, o, k, more)
    BY <1>10, <2>14, <2>15, SocketsPoked
  <2> QED
    BY <1>9, <2>1, <2>9, <2>10, <2>14, <2>16
<1> QED
  BY <1>12, <1>13



-----------------------------------------------------------------------------
(* Operations that start. *)

LEMMA CacheTyped ==
    ASSUME IInv, NEW s \in Syncers
    PROVE  CacheOf(s) \in [Rows -> Rec]
<1>1. syncer[s] \in Syncing /\ db.rows \in [Rows -> Rec]
  BY Parts DEF Kinds, Database
<1>2. Cached(db.rows) \in [Rows -> Rec]
  <2>1. Absent \in Rec
    BY AbsentFacts
  <2> QED
    BY <1>1, <2>1 DEF Cached
<1> QED
  BY <1>1, <1>2 DEF CacheOf, Syncing

\* The row cache of a syncer whose CVR is current.
LEMMA CurrentCache ==
    ASSUME IInv, NEW s \in Syncers,
           \/ syncer[s].cache = cvrs[db.version].rows
           \/ syncer[s].cache = None /\ db.rowsVersion = db.version
    PROVE  CacheOf(s) = cvrs[db.version].rows
<1>1. /\ Committed(cvrs, db.version, log) /\ db.version \in DOMAIN cvrs
      /\ Cached(db.rows) = cvrs[db.rowsVersion].rows
  BY Parts DEF Coherent, Committed, Stored, Whole
<1>2. cvrs[db.version].rows \in [Rows -> Rec]
  BY <1>1, CommittedFacts
<1>3. CASE syncer[s].cache # None
  BY <1>3 DEF CacheOf
<1>4. CASE syncer[s].cache = None
  <2>1. CacheOf(s) = Cached(db.rows)
    BY <1>4 DEF CacheOf
  <2>2. CASE db.rowsVersion = db.version
    BY <1>1, <2>1, <2>2
  <2>3. CASE cvrs[db.version].rows = None
    <3>1. Rows = {}
      BY <1>2, <2>3 DEF None
    <3> QED
      BY <2>1, <2>3, <3>1 DEF Cached, None
  <2> QED
    BY <1>4, <2>2, <2>3
<1> QED
  BY <1>3, <1>4

LEMMA ServeStep ==
    ASSUME IInv, ~Survivors, NEW c \in Clients, NEW s \in Syncers, Serve(s, c)
    PROVE  IInv' /\ Kept
<1>1. /\ UNCHANGED <<log, cvrs, db, pending, client, wants, used>>
      /\ Free(s) /\ Loads(s)
      /\ handler' = [handler EXCEPT ![s][c].msg = "none"]
  BY DEF Serve, Called
<1>2. PICK me : me = Loaded(s)
  OBVIOUS
<1>3. PICK who : who = ClientOp(c, handler[s][c].ws)
  OBVIOUS
<1>4. PICK cr : cr = cvrs[me.cvr]
  OBVIOUS
<1>5. IF cr.desired[c] # wants[c]
      THEN /\ op' = [op EXCEPT ![s] = [who EXCEPT !.pc = "config", !.from = me.cvr,
                                                  !.to = OneAfter(me.cvr)]]
           /\ syncer' = [syncer EXCEPT ![s] = me]
      ELSE IF me.synced
      THEN Sync(s, me, me.cvr, cr, CacheOf(s), handler', who)
      ELSE op' = op /\ syncer' = [syncer EXCEPT ![s] = [me EXCEPT !.ready = TRUE]]
  BY <1>2, <1>3, <1>4 DEF Serve
<1>6. /\ me \in Syncing /\ me.cvr \in DOMAIN cvrs /\ me.cvr # NoVersion
      /\ me.cache = syncer[s].cache /\ me.pv = syncer[s].pv /\ me.hydrated = syncer[s].hydrated
      /\ me.synced = syncer[s].synced /\ me.state = "up"
      /\ op[s] = Idle
      /\ Going(me, Idle, pending[s], db, cvrs, log)
  BY <1>1, <1>2, LoadedFacts
<1>7. Beginning(who) /\ who.c = c
  BY <1>3, Beginnings
<1>8. PICK hs : hs = [handler[s] EXCEPT ![c].msg = "none"]
  OBVIOUS
<1>9. /\ handler' = [handler EXCEPT ![s] = hs] /\ handler'[s] = hs
      /\ hs \in [Clients -> Handler]
      /\ \A d \in Clients : hs[d].base = handler[s][d].base /\ hs[d].ws = handler[s][d].ws
  <2>1. handler \in [Syncers -> [Clients -> Handler]] /\ handler[s][c] \in Handler
    BY Parts DEF Kinds
  <2>2. /\ [handler[s][c] EXCEPT !.msg = "none"] \in Handler
        /\ [handler[s][c] EXCEPT !.msg = "none"].base = handler[s][c].base
        /\ [handler[s][c] EXCEPT !.msg = "none"].ws = handler[s][c].ws
    BY <2>1 DEF Handler
  <2> QED
    BY <1>1, <1>8, <2>1, <2>2
<1>10. /\ \A d \in Clients : hs[d].base \in {NoVersion} \cup DOMAIN cvrs /\ hs[d].ws <= used.connects
       /\ used.connects \in Nat /\ used \in [connects : Nat, events : Nat]
       /\ client \in [Clients -> Client]
       /\ \A d \in Clients : Seeing(client[d], cvrs) /\ Observed(client[d], client[d], cvrs)
  BY <1>9, Unmoved, ConnectsTyped
<1>11. syncer[s].state # "crashed"
  BY <1>1 DEF Free
<1>12. CASE cr.desired[c] # wants[c]
  <2>1. PICK o : o = [who EXCEPT !.pc = "config", !.from = me.cvr, !.to = OneAfter(me.cvr)]
    OBVIOUS
  <2>2. op' = [op EXCEPT ![s] = o] /\ syncer' = [syncer EXCEPT ![s] = me]
    BY <1>5, <1>12, <2>1
  <2>3. /\ DOMAIN o = DOMAIN Idle /\ o.pc = "config" /\ o.from = me.cvr /\ o.to = OneAfter(me.cvr)
        /\ o.patches = None /\ o.c = c /\ DOMAIN o.pokers = {} /\ o.adds = {}
    BY <1>7, <2>1, IdleFacts DEF Beginning
  <2>4. Working(me, o, cvrs, log)
    BY <1>6, <2>3, IdleFacts DEF Going, Working
  <2>5. me.cvr = db.version => Current(me, o, pending[s], db, cvrs, log)
    BY <1>6, <2>3, IdleFacts DEF Going, Current
  <2>6. Going(me, o, pending[s], db, cvrs, log)
    BY <2>4, <2>5 DEF Going
  <2>7. Poking(hs, me, o, used.connects, cvrs)
    BY <1>10, <2>3 DEF Poking
  <2> QED
    BY <1>1, <1>6, <1>9, <1>10, <1>11, <2>2, <2>3, <2>6, <2>7, OneStep
<1>13. CASE cr.desired[c] = wants[c] /\ me.synced
  <2>1. PICK both : both = handler'
    OBVIOUS
  <2>2. PICK v : v = me.cvr
    OBVIOUS
  <2>3. PICK cache : cache = CacheOf(s)
    OBVIOUS
  <2>4. Sync(s, me, v, cr, cache, both, who)
    BY <1>5, <1>13, <2>1, <2>2, <2>3
  <2>5. Syncable(me, v, cr, cache, who, log, db, pending[s], cvrs)
    <3>1. /\ v \in DOMAIN cvrs /\ cvrs[v] = cr /\ v \in Version /\ v # NoVersion /\ v[1] <= Len(log)
          /\ Recording(cr, v, cvrs, log) /\ Logged(log)
      BY <1>4, <1>6, <2>2, Parts, CommittedFacts DEF Coherent, Kinds
    <3>2. me.pv <= Len(log) /\ me.hydrated = cr.got
      BY <1>4, <1>6, <1>13, <2>2, IdleFacts DEF Going, Working
    <3>3. cache \in [Rows -> Rec]
      BY <2>3, CacheTyped
    <3>4. ASSUME v = db.version
          PROVE  /\ cache = cr.rows
                 /\ me.cache = cr.rows \/ (me.cache = None /\ db.rowsVersion = v)
                 /\ db.rowsVersion # v => Holds(pending[s])
                 /\ 1 <= me.pv /\ v[1] <= me.pv
                 /\ Same(log, v[1], me.pv, me.hydrated)
      <4>1. Current(me, Idle, pending[s], db, cvrs, log)
        BY <1>6, <2>2, <3>4 DEF Going
      <4>2. /\ me.cache = cr.rows \/ (me.cache = None /\ db.rowsVersion = v)
            /\ db.rowsVersion # v => Holds(pending[s])
            /\ Pipes(me, cr.got, v[1], log)
        BY <1>4, <1>13, <2>2, <3>4, <4>1, IdleFacts DEF Current
      <4>3. cache = cr.rows
        BY <1>4, <1>6, <2>2, <2>3, <3>4, <4>2, CurrentCache
      <4> QED
        BY <3>2, <4>2, <4>3 DEF Pipes
    <3> QED
      BY <1>6, <1>7, <3>1, <3>2, <3>3, <3>4 DEF Syncable
  <2>6. /\ both[s] \in [Clients -> Handler] /\ both[s] = hs
        /\ \A d \in Clients : both[s][d].base \in {NoVersion} \cup DOMAIN cvrs
                              /\ both[s][d].ws <= used.connects
    BY <1>9, <1>10, <2>1
  <2>7. PICK y \in Syncing : \E o :
           /\ syncer' = [syncer EXCEPT ![s] = y] /\ op' = [op EXCEPT ![s] = o]
           /\ y.state = me.state /\ DOMAIN o = DOMAIN Idle
           /\ Going(y, o, pending[s], db, cvrs, log)
           /\ Poking(both[s], y, o, used.connects, cvrs)
    BY <1>10, <2>4, <2>5, <2>6, SyncGoes
  <2>8. PICK o :
           /\ syncer' = [syncer EXCEPT ![s] = y] /\ op' = [op EXCEPT ![s] = o]
           /\ y.state = me.state /\ DOMAIN o = DOMAIN Idle
           /\ Going(y, o, pending[s], db, cvrs, log)
           /\ Poking(hs, y, o, used.connects, cvrs)
    BY <2>6, <2>7
  <2> QED
    BY <1>1, <1>9, <1>10, <1>11, <2>8, OneStep
<1>14. CASE cr.desired[c] = wants[c] /\ ~me.synced
  <2>1. PICK y : y = [me EXCEPT !.ready = TRUE]
    OBVIOUS
  <2>2. op' = [op EXCEPT ![s] = Idle] /\ syncer' = [syncer EXCEPT ![s] = y]
    BY <1>5, <1>6, <1>14, <2>1, Unmoved
  <2>3. /\ y \in Syncing /\ y.cvr = me.cvr /\ y.cache = me.cache /\ y.pv = me.pv
        /\ y.synced = me.synced /\ y.hydrated = me.hydrated /\ y.state = me.state
    BY <1>6, <2>1 DEF Syncing
  <2>4. Going(y, Idle, pending[s], db, cvrs, log)
    BY <1>6, <2>3, GoingSame
  <2>5. Poking(hs, y, Idle, used.connects, cvrs)
    BY <1>10, PokingIdle
  <2> QED
    BY <1>1, <1>9, <1>10, <1>11, <2>2, <2>3, <2>4, <2>5, OneStep
<1> QED
  BY <1>12, <1>13, <1>14



\* An advance from a CVR, whether it is current or not.
AdvanceTo(me, v, cr, cache, lg, now, to, new, rows, patches, sockets, bad, writes, y, o) ==
    /\ to = Later(v, now)
    /\ new = Advanced(cache, me.hydrated, lg[me.pv], lg[now], to)
    /\ rows = Changes(cache, new)
    /\ patches = Patches(cache, new, lg[now], to)
    /\ bad \in BOOLEAN /\ (bad <=> now < v[1])
    /\ writes \in BOOLEAN /\ (writes <=> rows # None)
    /\ o = [RunOp EXCEPT !.pc = "flush", !.advance = TRUE, !.from = v, !.to = to, !.bad = bad,
                !.writes = writes, !.queries = cr.queries, !.got = cr.got, !.rows = rows,
                !.patches = patches, !.pokers = sockets]
    /\ y = [me EXCEPT !.pv = now, !.cache = IF DOMAIN new = {} THEN @ ELSE cache]

Advanceable(me, v, cr, cache, lg, now, e, p, more) ==
    /\ me \in Syncing /\ v \in Version /\ v # NoVersion /\ me.cvr = v /\ me.synced
    /\ cache \in [Rows -> Rec] /\ Logged(lg) /\ now \in Nat /\ me.pv < now /\ now <= Len(lg)
    /\ v \in DOMAIN more /\ more[v] = cr /\ v[1] <= Len(lg) /\ Recording(cr, v, more, lg)
    /\ Going(me, Idle, p, e, more, lg)
    /\ v = e.version => cache = cr.rows

LEMMA AdvanceGoes ==
    ASSUME NEW me, NEW v, NEW cr, NEW cache, NEW lg, NEW now, NEW e, NEW p, NEW more,
           Advanceable(me, v, cr, cache, lg, now, e, p, more),
           NEW to, NEW new, NEW rows, NEW patches, NEW sockets, NEW bad, NEW writes, NEW y, NEW o,
           AdvanceTo(me, v, cr, cache, lg, now, to, new, rows, patches, sockets, bad, writes, y, o)
    PROVE  /\ y \in Syncing /\ y.state = me.state /\ DOMAIN o = DOMAIN Idle
           /\ o.pokers = sockets /\ o.pc = "flush" /\ o.from = v
           /\ Going(y, o, p, e, more, lg)
<1>0. /\ me \in Syncing /\ v \in Version /\ v # NoVersion /\ me.cvr = v /\ me.synced
      /\ cache \in [Rows -> Rec] /\ Logged(lg) /\ now \in Nat /\ me.pv < now /\ now <= Len(lg)
      /\ v \in DOMAIN more /\ more[v] = cr /\ v[1] <= Len(lg) /\ Recording(cr, v, more, lg)
      /\ Going(me, Idle, p, e, more, lg)
      /\ v = e.version => cache = cr.rows
  BY DEF Advanceable
<1> USE <1>0
<1>1. /\ cr.got \subseteq cr.queries /\ cr.queries \subseteq Queries
      /\ v[1] = 0 => cr.got = {}
  BY DEF Recording, Cvr
<1>2. me.hydrated = cr.got /\ me.pv \in Nat
  BY IdleFacts DEF Going, Working, Syncing
<1>3. DOMAIN new = {} => y.cache = me.cache
  BY DEF AdvanceTo, Syncing
<1>4. DOMAIN new # {} => y.cache = cache
  BY DEF AdvanceTo, Syncing
<1>5. /\ y.pv = now /\ y.state = me.state /\ y.cvr = v /\ y.hydrated = cr.got
      /\ y.synced = me.synced
  BY <1>2 DEF AdvanceTo, Syncing
<1>6. y \in Syncing
  <2>1. PICK c : c = IF DOMAIN new = {} THEN me.cache ELSE cache
    OBVIOUS
  <2>2. y = [me EXCEPT !.pv = now, !.cache = c]
    BY <2>1 DEF AdvanceTo
  <2>3. c \in {None} \cup [Rows -> Rec]
    BY <2>1 DEF Syncing
  <2> QED
    BY <2>2, <2>3 DEF Syncing
<1>7. /\ DOMAIN o = DOMAIN Idle /\ o.pokers = sockets /\ o.pc = "flush" /\ o.advance
      /\ o.from = v /\ o.to = to /\ o.bad = bad /\ o.writes = writes /\ o.queries = cr.queries
      /\ o.got = cr.got /\ o.adds = {} /\ o.rows = rows /\ o.patches = patches
  <2>1. DOMAIN RunOp = DOMAIN Idle /\ RunOp.adds = {}
    BY Beginnings DEF Beginning
  <2> QED
    BY <2>1, IdleFacts DEF AdvanceTo
<1>8. writes \in BOOLEAN /\ (writes <=> rows # None) /\ bad \in BOOLEAN /\ (bad <=> now < v[1])
  BY DEF AdvanceTo
<1>9. v = EmptyVersion => patches = None
  <2> SUFFICES ASSUME v = EmptyVersion
               PROVE  patches = None
    OBVIOUS
  <2>1. me.hydrated = {}
    BY <1>1, <1>2 DEF EmptyVersion
  <2>2. DOMAIN new = {}
    BY <2>1 DEF AdvanceTo, Advanced
  <2>3. patches = Patches(cache, new, lg[now], to)
    BY DEF AdvanceTo
  <2> QED
    BY <2>2, <2>3 DEF Patches, None
<1>10. Working(y, o, more, lg)
  BY <1>5, <1>6, <1>7, <1>8, <1>9 DEF Working
<1>11. ASSUME v = e.version
       PROVE  Current(y, o, p, e, more, lg)
  <2>1. /\ me.cache = cr.rows \/ (me.cache = None /\ e.rowsVersion = v)
        /\ e.rowsVersion # v => Holds(p)
        /\ Pipes(me, cr.got, v[1], lg)
    BY <1>11, IdleFacts DEF Going, Current
  <2>2. y.cache = cr.rows \/ (y.cache = None /\ e.rowsVersion = v)
    BY <1>3, <1>4, <1>11, <2>1
  <2>3. PICK all : all = Cached(rows ++ cr.rows)
    OBVIOUS
  <2>4. PICK pv : pv = me.pv
    OBVIOUS
  <2>5. v[1] <= pv /\ 1 <= pv /\ Same(lg, v[1], pv, cr.got) /\ pv \in Nat /\ pv < now
    BY <1>2, <2>1, <2>4 DEF Pipes
  <2>6. /\ to = Later(v, now)
        /\ new = Advanced(cache, me.hydrated, lg[me.pv], lg[now], to)
        /\ rows = Changes(cache, new) /\ patches = Patches(cache, new, lg[now], to)
    BY DEF AdvanceTo
  <2>7. /\ new = Advanced(cr.rows, cr.got, lg[pv], lg[now], to)
        /\ rows = Changes(cr.rows, new) /\ patches = Patches(cr.rows, new, lg[now], to)
    BY <1>2, <1>11, <2>4, <2>6
  <2>8. AdvanceOf(lg, more, v, cr, pv, now, to, new, rows, patches, all)
    BY <2>3, <2>5, <2>6, <2>7 DEF AdvanceOf
  <2>9. /\ to \in Version /\ Less(v, to) /\ to[1] = now
        /\ Exact(all, cr.got, now, lg)
        /\ Shown(patches, to, cr.rows, all)
        /\ Recorded(rows, to, cr.rows, all)
        /\ rows = None => Same(lg, v[1], now, cr.got)
    BY <2>8, AdvanceUpdate
  <2>10. v[1] \in Nat /\ v[1] <= now /\ 1 <= now /\ ~bad
    BY <1>8, <2>5 DEF Version
  <2>11. ~writes => rows = None /\ Pipes(y, cr.got, v[1], lg)
    BY <1>5, <1>8, <2>9, <2>10 DEF Pipes
  <2>12. Hydrated(patches, {}, all)
    BY DEF Hydrated
  <2>13. Flushable(y, o, more, lg)
    BY <1>1, <1>5, <1>7, <2>3, <2>9, <2>10, <2>11, <2>12 DEF Flushable
  <2> QED
    BY <1>5, <1>7, <1>11, <2>1, <2>2, <2>13 DEF Current
<1> QED
  BY <1>5, <1>6, <1>7, <1>10, <1>11 DEF Going



\* The syncer, the CVR and the row cache a turn of the run loop goes by.
LEMMA TurnFacts ==
    ASSUME IInv, ~Survivors, NEW s \in Syncers, Free(s), Loads(s), NEW me, me = Loaded(s),
           NEW v, v = me.cvr, NEW cr, cr = cvrs[v], NEW cache, cache = CacheOf(s)
    PROVE  /\ me \in Syncing /\ me.cvr = v /\ me.state = "up" /\ me.pv = syncer[s].pv
           /\ me.synced = syncer[s].synced /\ op[s] = Idle
           /\ Going(me, Idle, pending[s], db, cvrs, log)
           /\ v \in DOMAIN cvrs /\ v \in Version /\ v # NoVersion /\ v[1] <= Len(log)
           /\ v[1] \in Nat
           /\ Recording(cr, v, cvrs, log) /\ Logged(log) /\ Len(log) \in Nat
           /\ cache \in [Rows -> Rec]
           /\ v = db.version =>
                 /\ cache = cr.rows
                 /\ me.cache = cr.rows \/ (me.cache = None /\ db.rowsVersion = v)
                 /\ db.rowsVersion # v => Holds(pending[s])
<1>1. /\ me \in Syncing /\ v \in DOMAIN cvrs /\ v # NoVersion
      /\ me.cache = syncer[s].cache /\ me.pv = syncer[s].pv
      /\ me.synced = syncer[s].synced /\ me.state = "up" /\ op[s] = Idle
      /\ Going(me, Idle, pending[s], db, cvrs, log)
  BY LoadedFacts
<1>2. Committed(cvrs, db.version, log) /\ Logged(log)
  BY Parts DEF Coherent, Kinds
<1>3. /\ v \in Version /\ v[1] <= Len(log) /\ Recording(cr, v, cvrs, log) /\ v[1] \in Nat
  BY <1>1, <1>2, CommittedFacts
<1>4. Len(log) \in Nat
  BY <1>2, ViewSyncAssumption DEF Logged
<1>5. cache \in [Rows -> Rec]
  BY CacheTyped
<1>6. ASSUME v = db.version
      PROVE  /\ cache = cr.rows
             /\ me.cache = cr.rows \/ (me.cache = None /\ db.rowsVersion = v)
             /\ db.rowsVersion # v => Holds(pending[s])
  <2>1. Current(me, Idle, pending[s], db, cvrs, log)
    BY <1>1, <1>6 DEF Going
  <2>2. /\ me.cache = cr.rows \/ (me.cache = None /\ db.rowsVersion = v)
        /\ db.rowsVersion # v => Holds(pending[s])
    BY <1>6, <2>1 DEF Current
  <2>3. cache = cr.rows
    BY <1>1, <1>6, <2>2, CurrentCache
  <2> QED
    BY <2>2, <2>3
<1> QED
  BY <1>1, <1>2, <1>3, <1>4, <1>5, <1>6

LEMMA HydrateStep ==
    ASSUME IInv, ~Survivors, NEW s \in Syncers, Free(s), Loads(s), NEW now \in Nat, 1 <= now,
           now <= Tip, Hydrate(s, Loaded(s), now),
           UNCHANGED <<log, cvrs, db, pending, handler, client, wants, used>>
    PROVE  IInv' /\ Kept
<1>1. PICK me : me = Loaded(s)
  OBVIOUS
<1>2. PICK v : v = me.cvr
  OBVIOUS
<1>3. PICK cr : cr = cvrs[v]
  OBVIOUS
<1>4. PICK cache : cache = CacheOf(s)
  OBVIOUS
<1>5. /\ me \in Syncing /\ me.cvr = v /\ me.state = "up" /\ op[s] = Idle
      /\ Going(me, Idle, pending[s], db, cvrs, log)
      /\ v \in DOMAIN cvrs /\ v \in Version /\ v # NoVersion /\ v[1] <= Len(log)
      /\ v[1] \in Nat
      /\ Recording(cr, v, cvrs, log) /\ Logged(log)
      /\ cache \in [Rows -> Rec]
      /\ v = db.version =>
            /\ cache = cr.rows
            /\ me.cache = cr.rows \/ (me.cache = None /\ db.rowsVersion = v)
            /\ db.rowsVersion # v => Holds(pending[s])
  BY <1>1, <1>2, <1>3, <1>4, TurnFacts
<1>6. PICK at : at = [me EXCEPT !.pv = now, !.synced = FALSE]
  OBVIOUS
<1>7. PICK unchanged : unchanged = IF v[1] = now THEN cr.got \cap Desired(cr) ELSE {}
  OBVIOUS
<1>8. /\ at \in Syncing /\ at.cvr = v /\ at.cache = me.cache /\ at.pv = now /\ ~at.synced
      /\ at.state = "up"
  BY <1>5, <1>6 DEF Syncing
<1>9. IF now < v[1] THEN syncer' = [syncer EXCEPT ![s] = at] /\ op' = op
      ELSE Sync(s, [at EXCEPT !.hydrated = unchanged], v, cr, cache, handler, RunOp)
  BY <1>1, <1>2, <1>3, <1>4, <1>6, <1>7, <1>8 DEF Hydrate
<1>10. /\ handler = [handler EXCEPT ![s] = handler[s]] /\ handler[s] \in [Clients -> Handler]
       /\ \A c \in Clients : handler[s][c].base \in {NoVersion} \cup DOMAIN cvrs
                             /\ handler[s][c].ws <= used.connects
       /\ used \in [connects : Nat, events : Nat] /\ client \in [Clients -> Client]
       /\ \A c \in Clients : Seeing(client[c], cvrs) /\ Observed(client[c], client[c], cvrs)
  BY Unmoved
<1>11. used.connects \in Nat /\ syncer[s].state # "crashed"
  BY ConnectsTyped DEF Free
<1>12. CASE now < v[1]
  <2>1. syncer' = [syncer EXCEPT ![s] = at] /\ op' = [op EXCEPT ![s] = Idle]
    BY <1>5, <1>9, <1>12, Unmoved
  <2>2. Working(at, Idle, cvrs, log)
    BY <1>5, <1>8, IdleFacts DEF Working, Tip
  <2>3. v = db.version => Current(at, Idle, pending[s], db, cvrs, log)
    BY <1>3, <1>5, <1>8, IdleFacts DEF Current
  <2>4. Going(at, Idle, pending[s], db, cvrs, log)
    BY <1>8, <2>2, <2>3 DEF Going
  <2>5. Poking(handler[s], at, Idle, used.connects, cvrs)
    BY <1>10, <1>11, PokingIdle
  <2> QED
    BY <1>8, <1>10, <1>11, <2>1, <2>4, <2>5, OneStep
<1>13. CASE ~(now < v[1])
  <2>1. PICK up : up = [at EXCEPT !.hydrated = unchanged]
    OBVIOUS
  <2>2. PICK both : both = handler
    OBVIOUS
  <2>3. PICK who : who = RunOp
    OBVIOUS
  <2>4. Sync(s, up, v, cr, cache, both, who)
    BY <1>9, <1>13, <2>1, <2>2, <2>3
  <2>5. unchanged \subseteq cr.got /\ cr.got \subseteq Queries
    BY <1>5, <1>7 DEF Recording, Cvr
  <2>6. /\ up \in Syncing /\ up.pv = now /\ up.hydrated = unchanged /\ up.cache = me.cache
        /\ up.state = "up"
    BY <1>8, <2>1, <2>5 DEF Syncing
  <2>7. Same(log, v[1], now, unchanged)
    BY <1>7 DEF Same
  <2>8. v[1] <= now
    BY <1>5, <1>13
  <2>9. Beginning(who)
    BY <2>3, Beginnings
  <2>10. Syncable(up, v, cr, cache, who, log, db, pending[s], cvrs)
    BY <1>3, <1>5, <2>5, <2>6, <2>7, <2>8, <2>9 DEF Syncable, Tip
  <2>11. /\ both[s] \in [Clients -> Handler]
         /\ \A c \in Clients : both[s][c].base \in {NoVersion} \cup DOMAIN cvrs
                               /\ both[s][c].ws <= used.connects
    BY <1>10, <2>2
  <2>12. \E y \in Syncing : \E o :
           /\ syncer' = [syncer EXCEPT ![s] = y] /\ op' = [op EXCEPT ![s] = o]
           /\ y.state = up.state /\ DOMAIN o = DOMAIN Idle
           /\ Going(y, o, pending[s], db, cvrs, log)
           /\ Poking(both[s], y, o, used.connects, cvrs)
    BY <1>11, <2>4, <2>10, <2>11, SyncGoes
  <2>13. PICK y \in Syncing, o \in {op'[s]} :
           /\ syncer' = [syncer EXCEPT ![s] = y] /\ op' = [op EXCEPT ![s] = o]
           /\ DOMAIN o = DOMAIN Idle
           /\ Going(y, o, pending[s], db, cvrs, log)
           /\ Poking(handler[s], y, o, used.connects, cvrs)
    <3>1. op = [t \in Syncers |-> op[t]]
      BY Parts DEF Kinds
    <3> QED
      BY <2>2, <2>12, <3>1
  <2> QED
    BY <1>10, <1>11, <2>13, OneStep
<1> QED
  BY <1>12, <1>13

LEMMA AdvanceStep ==
    ASSUME IInv, ~Survivors, NEW s \in Syncers, Free(s), Loads(s), syncer[s].synced, NEW now \in Nat,
           syncer[s].pv < now, now <= Tip, Advance(s, Loaded(s), now),
           UNCHANGED <<log, cvrs, db, pending, handler, client, wants, used>>
    PROVE  IInv' /\ Kept
<1>1. PICK me : me = Loaded(s)
  OBVIOUS
<1>2. PICK v : v = me.cvr
  OBVIOUS
<1>3. PICK cr : cr = cvrs[v]
  OBVIOUS
<1>4. PICK cache : cache = CacheOf(s)
  OBVIOUS
<1>5. /\ me \in Syncing /\ me.cvr = v /\ me.state = "up" /\ me.pv < now /\ me.synced
      /\ Going(me, Idle, pending[s], db, cvrs, log)
      /\ v \in DOMAIN cvrs /\ v \in Version /\ v # NoVersion /\ v[1] <= Len(log)
      /\ Recording(cr, v, cvrs, log) /\ Logged(log)
      /\ cache \in [Rows -> Rec]
      /\ v = db.version => cache = cr.rows
  BY <1>1, <1>2, <1>3, <1>4, TurnFacts
<1> DEFINE to == Later(v, now)
           new == Advanced(cache, me.hydrated, log[me.pv], log[now], to)
           rows == Changes(cache, new)
           patches == Patches(cache, new, log[now], to)
           current == {c \in Clients : LET h == handler[s][c] IN
                        h.ws # 0 /\ (h.base = v \/ (h.base = NoVersion /\ v = EmptyVersion))}
           sockets == Sockets(s, current \cap Pokers(s, to))
           bad == now < v[1]
           writes == rows # None
           after == [RunOp EXCEPT !.pc = "flush", !.advance = TRUE, !.from = v, !.to = to, !.bad = bad,
                        !.writes = writes, !.queries = cr.queries, !.got = cr.got, !.rows = rows,
                        !.patches = patches, !.pokers = sockets]
           next == [me EXCEPT !.pv = now, !.cache = IF DOMAIN new = {} THEN @ ELSE cache]
<1>6. op' = [op EXCEPT ![s] = after] /\ syncer' = [syncer EXCEPT ![s] = next]
  BY <1>1, <1>2, <1>3, <1>4 DEF Advance
<1>7. AdvanceTo(me, v, cr, cache, log, now, to, new, rows, patches, sockets, bad, writes, next, after)
  BY DEF AdvanceTo
<1>8. \A c \in DOMAIN sockets :
         /\ c \in Clients /\ sockets[c] = handler[s][c].ws /\ handler[s][c].ws # 0
         /\ handler[s][c].base = v \/ (handler[s][c].base = NoVersion /\ v = EmptyVersion)
  BY DEF Sockets
<1> HIDE DEF to, new, rows, patches, sockets, bad, writes, after, next
<1>9. PICK y, o : y = next /\ o = after
  OBVIOUS
<1>10. /\ y \in Syncing /\ DOMAIN o = DOMAIN Idle
       /\ o.pokers = sockets /\ o.pc = "flush" /\ o.from = v
       /\ Going(y, o, pending[s], db, cvrs, log)
  <2>1. now <= Len(log)
    BY DEF Tip
  <2>2. AdvanceTo(me, v, cr, cache, log, now, to, new, rows, patches, sockets, bad, writes, y, o)
    BY <1>7, <1>9
  <2>3. Advanceable(me, v, cr, cache, log, now, db, pending[s], cvrs)
    BY <1>3, <1>5, <2>1 DEF Advanceable
  <2>4. /\ y \in Syncing /\ y.state = me.state /\ DOMAIN o = DOMAIN Idle
        /\ o.pokers = sockets /\ o.pc = "flush" /\ o.from = v
        /\ Going(y, o, pending[s], db, cvrs, log)
    BY <2>2, <2>3, AdvanceGoes
  <2> QED
    BY <2>4
<1>11. /\ handler = [handler EXCEPT ![s] = handler[s]] /\ handler[s] \in [Clients -> Handler]
       /\ \A c \in Clients : handler[s][c].base \in {NoVersion} \cup DOMAIN cvrs
                             /\ handler[s][c].ws <= used.connects
       /\ used \in [connects : Nat, events : Nat] /\ client \in [Clients -> Client]
       /\ \A c \in Clients : Seeing(client[c], cvrs) /\ Observed(client[c], client[c], cvrs)
  BY Unmoved
<1>12. Poking(handler[s], y, o, used.connects, cvrs)
  <2>1. \A c \in Clients : handler[s][c].ws \in Nat
    BY Parts
  <2> QED
    BY <1>8, <1>10, <1>11, <2>1, ConnectsTyped DEF Poking
<1>13. syncer[s].state # "crashed"
  BY DEF Free
<1> QED
  BY <1>6, <1>9, <1>10, <1>11, <1>12, <1>13, OneStep

LEMMA RunStep ==
    ASSUME IInv, ~Survivors, NEW s \in Syncers, Run(s)
    PROVE  IInv' /\ Kept
<1>1. /\ Free(s) /\ Loads(s)
      /\ UNCHANGED <<log, cvrs, db, pending, handler, client, wants, used>>
  BY DEF Run, Woken
<1>2. PICK now \in (syncer[s].pv + 1)..Tip :
         \/ syncer[s].synced /\ Advance(s, Loaded(s), now)
         \/ Hydrate(s, Loaded(s), now)
  BY DEF Run
<1>3. now \in Nat /\ 1 <= now /\ syncer[s].pv < now /\ now <= Tip
  <2>1. syncer[s].pv \in Nat /\ Tip \in Nat
    BY Parts, ViewSyncAssumption DEF Syncing, Kinds, Logged, Tip
  <2> QED
    BY <2>1
<1> QED
  BY <1>1, <1>2, <1>3, AdvanceStep, HydrateStep



-----------------------------------------------------------------------------
(* Row records that were left for later. *)

LEMMA GoingFlushed ==
    ASSUME NEW x, NEW o, NEW p, NEW d, NEW cv, NEW lg, Going(x, o, p, d, cv, lg), Holds(p),
           NEW e, e.version = d.version, e.rowsVersion = d.version, e.rows = p.rows ++ d.rows,
           e.rows \in [Rows -> Rec]
    PROVE  Going(x, o, NotPending, e, cv, lg)
<1>1. \A r \in Rows : (NotPending.rows ++ e.rows)[r] = (p.rows ++ d.rows)[r]
  BY DEF NotPending, None, ++
<1>2. Working(x, o, cv, lg)
  BY DEF Going
<1>3. ASSUME x.cvr = d.version
      PROVE  Current(x, o, NotPending, e, cv, lg)
  <2>1. Current(x, o, p, d, cv, lg)
    BY <1>3 DEF Going
  <2>2. x.cache = cv[e.version].rows \/ (x.cache = None /\ e.rowsVersion = e.version)
    BY <2>1 DEF Current
  <2>3. x.synced /\ o.pc \in {"idle", "config"} => Pipes(x, cv[e.version].got, e.version[1], lg)
    BY <2>1 DEF Current
  <2>4. o.pc = "flush" => Flushable(x, o, cv, lg)
    BY <2>1 DEF Current
  <2>5. o.pc = "catchup" => /\ Pipes(x, cv[e.version].got, e.version[1], lg)
                            /\ Following(x, o, p, d, cv)
    BY <2>1 DEF Current
  <2>6. Following(x, o, p, d, cv) => Following(x, o, NotPending, e, cv)
    BY <1>1 DEF Following
  <2> QED
    BY <2>2, <2>3, <2>4, <2>5, <2>6 DEF Current
<1> QED
  BY <1>2, <1>3 DEF Going

\* The others do not have the current CVR.
LEMMA GoingBeside ==
    ASSUME NEW x, NEW o, NEW p, NEW d, NEW cv, NEW lg, Going(x, o, p, d, cv, lg), ~Holds(p),
           d.rowsVersion # d.version, NEW e, e.version = d.version
    PROVE  Going(x, o, p, e, cv, lg)
BY DEF Going, Current

LEMMA FlushPendingStep ==
    ASSUME IInv, NEW s \in Syncers, FlushPending(s)
    PROVE  IInv' /\ Kept
<1>1. /\ UNCHANGED <<log, cvrs, syncer, handler, op, client, wants, used>>
      /\ Flushing(s)
      /\ db' = [db EXCEPT !.rows = pending[s].rows ++ @, !.rowsVersion = pending[s].version]
      /\ pending' = [pending EXCEPT ![s] = NotPending]
  BY DEF FlushPending
<1>2. Holds(pending[s])
  BY <1>1 DEF Flushing, Holds
<1>3. /\ Kinds /\ Coherent /\ db \in Database /\ pending = [t \in Syncers |-> pending[t]]
      /\ Committed(cvrs, db.version, log) /\ Stored(db, cvrs, pending)
  BY Parts DEF Kinds, Coherent
<1>4. /\ pending[s].version = db.version /\ db.rowsVersion # db.version
      /\ Whole(pending[s].rows ++ db.rows, cvrs, db.version)
      /\ \A t \in Syncers : Holds(pending[t]) => t = s
      /\ \A t \in Syncers : ~Holds(pending[t]) => pending[t] = NotPending
  BY <1>2, <1>3 DEF Stored
<1>5. PICK e : e = db'
  OBVIOUS
<1>6. PICK rows : rows = pending[s].rows ++ db.rows
  OBVIOUS
<1>7. /\ e.version = db.version /\ e.rowsVersion = db.version /\ e.rows = rows
      /\ e = [db EXCEPT !.rows = rows, !.rowsVersion = db.version]
  BY <1>1, <1>3, <1>4, <1>5, <1>6 DEF Database
<1>8. db.version \in DOMAIN cvrs /\ db.version \in Version
  BY <1>3, CommittedFacts DEF Committed
<1>9. Whole(rows, cvrs, db.version) /\ rows \in [Rows -> Rec]
  BY <1>4, <1>6 DEF Whole
<1>10. e \in Database
  BY <1>3, <1>7, <1>8, <1>9 DEF Database
<1>11. /\ pending'[s] = NotPending /\ \A t \in Syncers \ {s} : pending'[t] = pending[t]
       /\ pending' = [t \in Syncers |-> pending'[t]]
  BY <1>1, <1>3
<1>12. ~Holds(NotPending)
  BY DEF Holds, NotPending
<1>13. \A t \in Syncers : ~Holds(pending'[t]) /\ pending'[t] = NotPending
  BY <1>4, <1>11, <1>12
<1>14. Stored(e, cvrs, pending')
  BY <1>7, <1>8, <1>9, <1>13 DEF Stored
<1>15. Kinds'
  BY <1>1, <1>3, <1>5, <1>10, <1>11 DEF Kinds
<1>16. Coherent'
  BY <1>1, <1>3, <1>5, <1>7, <1>14 DEF Coherent, Lagging
<1>17. ASSUME NEW t \in Syncers
       PROVE  /\ Going(syncer'[t], op'[t], pending'[t], db', cvrs', log')
              /\ Poking(handler'[t], syncer'[t], op'[t], used'.connects, cvrs')
  <2>1. /\ Going(syncer[t], op[t], pending[t], db, cvrs, log)
        /\ Poking(handler[t], syncer[t], op[t], used.connects, cvrs)
    BY Parts
  <2>2. Going(syncer[t], op[t], NotPending, e, cvrs, log)
    <3>1. CASE t = s
      BY <1>2, <1>6, <1>7, <1>9, <2>1, <3>1, GoingFlushed
    <3>2. CASE t # s
      <4>1. ~Holds(pending[t]) /\ pending[t] = NotPending
        BY <1>4, <3>2
      <4> QED
        BY <1>4, <1>7, <2>1, <4>1, GoingBeside
    <3> QED
      BY <3>1, <3>2
  <2> QED
    BY <1>1, <1>5, <1>13, <2>1, <2>2
<1>18. Kept
  BY <1>1 DEF Kept, Observed
<1>19. \A c \in Clients : Seeing(client'[c], cvrs')
  BY <1>1, Parts
<1> QED
  BY <1>15, <1>16, <1>17, <1>18, <1>19 DEF IInv



-----------------------------------------------------------------------------
(* Flushes. *)

LEMMA OverOver ==
    ASSUME NEW f, NEW g, NEW h
    PROVE  (f ++ g) ++ h = f ++ (g ++ h)
BY DEF ++

LEMMA NoneOver ==
    ASSUME NEW f, DOMAIN f \subseteq Rows, f = [r \in DOMAIN f |-> f[r]]
    PROVE  f ++ None = f /\ None ++ f = f
BY DEF ++, None

\* A transaction that adds a CVR, and leaves its rows for later or not.
Committing(lg, cv, from, to, cr, more, d, pend, s, rows, defer, e, after) ==
    /\ Grown(cv, more, to, cr) /\ to \in Version
    /\ Committed(cv, from, lg) /\ Less(from, to) /\ d.version = from
    /\ Stored(d, cv, pend) /\ pend = [t \in Syncers |-> pend[t]]
    /\ s \in Syncers /\ (d.rowsVersion # from => Holds(pend[s]))
    /\ cr.rows = Cached(rows ++ cv[from].rows)
    /\ Recorded(rows, to, cv[from].rows, cr.rows)
    /\ defer \in BOOLEAN /\ (Holds(pend[s]) => defer)
    /\ e.version = to
    /\ e.rows = IF defer THEN d.rows ELSE rows ++ d.rows
    /\ e.rowsVersion = IF defer THEN d.rowsVersion ELSE to
    /\ after = IF defer THEN [pend EXCEPT ![s] = [rows |-> rows ++ @.rows, version |-> to]] ELSE pend

LEMMA CommittingStores ==
    ASSUME NEW lg, NEW cv, NEW from, NEW to, NEW cr, NEW more, NEW d, NEW pend, NEW s, NEW rows,
           NEW defer, NEW e, NEW after,
           Committing(lg, cv, from, to, cr, more, d, pend, s, rows, defer, e, after)
    PROVE  /\ Stored(e, more, after) /\ after = [t \in Syncers |-> after[t]]
           /\ e.rows \in [Rows -> Rec] /\ e.rowsVersion \in Version
           /\ e.rowsVersion # to => Holds(after[s])
           /\ \A r \in Rows : LET w == (after[s].rows ++ e.rows)[r] IN
                 \/ AtMost(w.patch, from)
                 \/ w.patch = to /\ View(cv[from].rows)[r] # View(more[to].rows)[r]
<1>1. /\ Grown(cv, more, to, cr) /\ to \in Version
      /\ Committed(cv, from, lg) /\ Less(from, to) /\ d.version = from
      /\ Stored(d, cv, pend) /\ pend = [t \in Syncers |-> pend[t]]
      /\ s \in Syncers
      /\ d.rowsVersion # from => Holds(pend[s])
      /\ cr.rows = Cached(rows ++ cv[from].rows)
      /\ Recorded(rows, to, cv[from].rows, cr.rows)
        /\ defer \in BOOLEAN
      /\ Holds(pend[s]) => defer
  BY DEF Committing
<1>2. /\ e.version = to
      /\ defer => /\ e.rows = d.rows /\ e.rowsVersion = d.rowsVersion
                  /\ after = [pend EXCEPT ![s] = [rows |-> rows ++ @.rows, version |-> to]]
      /\ ~defer => e.rows = rows ++ d.rows /\ e.rowsVersion = to /\ after = pend
  BY DEF Committing
<1>3. /\ from \in DOMAIN cv /\ from \in Version /\ from # to /\ to # NoVersion /\ from # NoVersion
      /\ to \in DOMAIN more /\ DOMAIN cv \subseteq DOMAIN more
      /\ \A v \in DOMAIN cv : v \in Version /\ v # to
  BY <1>1, CommittedFacts, NoVersionFirst DEF Committed, Grown
<1>4. /\ d.rowsVersion \in DOMAIN cv /\ Whole(d.rows, cv, d.rowsVersion) /\ d.rows \in [Rows -> Rec]
      /\ \A t \in Syncers : Holds(pend[t]) =>
            /\ d.rowsVersion # from
            /\ Whole(pend[t].rows ++ d.rows, cv, from)
            /\ DOMAIN pend[t].rows \subseteq Rows
            /\ \A u \in Syncers : Holds(pend[u]) => u = t
      /\ \A t \in Syncers : ~Holds(pend[t]) => pend[t] = NotPending
  BY <1>1 DEF Stored, Whole
<1>5. \A t \in Syncers \ {s} : ~Holds(pend[t]) /\ pend[t] = NotPending
  BY <1>1, <1>4
<1>6. DOMAIN rows \subseteq Rows
  BY <1>1 DEF Recorded
<1>7. \A v : Holds([rows |-> rows ++ pend[s].rows, version |-> v]) <=> v # NoVersion
  BY DEF Holds
<1>8. ASSUME NEW before, Whole(before, cv, from), NEW w, w = rows ++ before
      PROVE  /\ Whole(w, more, to)
             /\ \A r \in Rows :
                   \/ AtMost(w[r].patch, from)
                   \/ w[r].patch = to /\ View(cv[from].rows)[r] # View(more[to].rows)[r]
  <2>1. Writing(lg, cv, more, to, cr, from, before, rows, w)
    BY <1>1, <1>8 DEF Writing
  <2> QED
    BY <2>1, WholeNext
<1>9. CASE defer
  <2>1. PICK before : before = pend[s].rows ++ d.rows
    OBVIOUS
  <2>2. Whole(before, cv, from)
    <3>1. CASE Holds(pend[s])
      BY <1>1, <1>4, <2>1, <3>1
    <3>2. CASE ~Holds(pend[s])
      <4>1. before = None ++ d.rows /\ d.rowsVersion = from
        BY <1>1, <1>4, <2>1, <3>2 DEF NotPending
      <4>2. before = d.rows
        BY <1>4, <4>1, NoneOver
      <4> QED
        BY <1>4, <4>1, <4>2
    <3> QED
      BY <3>1, <3>2
  <2>3. PICK w : w = rows ++ before
    OBVIOUS
  <2>4. /\ Whole(w, more, to)
        /\ \A r \in Rows :
              \/ AtMost(w[r].patch, from)
              \/ w[r].patch = to /\ View(cv[from].rows)[r] # View(more[to].rows)[r]
    BY <1>8, <2>2, <2>3
  <2>5. PICK p : p = [rows |-> rows ++ pend[s].rows, version |-> to]
    OBVIOUS
  <2>6. /\ after[s] = p /\ \A t \in Syncers \ {s} : after[t] = pend[t]
        /\ after = [t \in Syncers |-> after[t]]
    BY <1>1, <1>2, <1>9, <2>5
  <2>7. Holds(p) /\ p.version = to /\ p.rows = rows ++ pend[s].rows
    BY <1>3, <1>7, <2>5
  <2>8. p.rows ++ e.rows = w
    BY <1>2, <1>9, <2>1, <2>3, <2>7, OverOver
  <2>9. DOMAIN p.rows \subseteq Rows
    <3>1. DOMAIN pend[s].rows \subseteq Rows
      BY <1>1, <1>4 DEF NotPending, None
    <3> QED
      BY <1>6, <2>7, <3>1 DEF ++
  <2>10. /\ e.rowsVersion \in DOMAIN more /\ e.rowsVersion # to
         /\ Whole(e.rows, more, e.rowsVersion)
    BY <1>1, <1>2, <1>3, <1>4, <1>9, WholeGrown
  <2>11. Stored(e, more, after)
    <3>1. ASSUME NEW t \in Syncers
          PROVE  /\ Holds(after[t]) =>
                       /\ after[t].version = e.version /\ e.rowsVersion # e.version
                       /\ Whole(after[t].rows ++ e.rows, more, e.version)
                       /\ DOMAIN after[t].rows \subseteq Rows
                       /\ \A u \in Syncers : Holds(after[u]) => u = t
                 /\ ~Holds(after[t]) => after[t] = NotPending
      <4>1. CASE t = s
        BY <1>2, <1>5, <2>4, <2>6, <2>7, <2>8, <2>9, <2>10, <4>1
      <4>2. CASE t # s
        BY <1>5, <2>6, <4>2
      <4> QED
        BY <4>1, <4>2
    <3> QED
      BY <2>10, <3>1 DEF Stored
  <2>12. e.rows \in [Rows -> Rec] /\ e.rowsVersion \in Version
    BY <1>2, <1>3, <1>4, <1>9
  <2>13. \A r \in Rows : LET x == (after[s].rows ++ e.rows)[r] IN
                 \/ AtMost(x.patch, from)
                 \/ x.patch = to /\ View(cv[from].rows)[r] # View(more[to].rows)[r]
    BY <2>4, <2>6, <2>8
  <2> QED
    BY <2>6, <2>7, <2>11, <2>12, <2>13
<1>10. CASE ~defer
  <2>1. /\ ~Holds(pend[s]) /\ d.rowsVersion = from /\ pend[s] = NotPending
        /\ \A t \in Syncers : ~Holds(pend[t]) /\ pend[t] = NotPending
    BY <1>1, <1>4, <1>5, <1>10
  <2>2. PICK w : w = rows ++ d.rows
    OBVIOUS
  <2>3. /\ Whole(w, more, to)
        /\ \A r \in Rows :
              \/ AtMost(w[r].patch, from)
              \/ w[r].patch = to /\ View(cv[from].rows)[r] # View(more[to].rows)[r]
    BY <1>4, <1>8, <2>1, <2>2
  <2>4. e.rows = w /\ e.rowsVersion = to /\ after = pend
    BY <1>2, <1>10, <2>2
  <2>5. w \in [Rows -> Rec]
    BY <2>3 DEF Whole
  <2>6. after[s].rows ++ e.rows = w
    BY <2>1, <2>4, <2>5, NoneOver DEF NotPending
  <2>7. Stored(e, more, after)
    BY <1>2, <1>3, <2>1, <2>3, <2>4 DEF Stored
  <2> QED
    BY <1>1, <1>3, <2>1, <2>3, <2>4, <2>5, <2>6, <2>7
<1> QED
  BY <1>1, <1>9, <1>10



\* What holds of the CVR that an operation commits.
Committable(s, from, to, cr, rows, defer) ==
    /\ db.version = from /\ syncer[s].cvr = from
    /\ to \in Version /\ Less(from, to) /\ to[1] <= Len(log)
    /\ cr.rows = Cached(rows ++ cvrs[from].rows)
    /\ Recorded(rows, to, cvrs[from].rows, cr.rows)
    /\ defer \in BOOLEAN /\ (Holds(pending[s]) => defer)

LEMMA CommitFacts ==
    ASSUME IInv, NEW s \in Syncers, NEW o, NEW cr, NEW rows, NEW defer, Commit(s, o, cr, rows, defer),
           Committable(s, o.from, o.to, cr, rows, defer), Recording(cr, o.to, cvrs', log)
    PROVE  /\ Grown(cvrs, cvrs', o.to, cr) /\ Committed(cvrs', o.to, log)
           /\ db' \in Database /\ db'.version = o.to
           /\ Stored(db', cvrs', pending') /\ pending' = [t \in Syncers |-> pending'[t]]
           /\ db'.rowsVersion # o.to => Holds(pending'[s])
           /\ \A r \in Rows : LET w == (pending'[s].rows ++ db'.rows)[r] IN
                 \/ AtMost(w.patch, o.from)
                 \/ w.patch = o.to /\ View(cvrs[o.from].rows)[r] # View(cvrs'[o.to].rows)[r]
<1>1. /\ db.version = o.from /\ syncer[s].cvr = o.from
      /\ o.to \in Version /\ Less(o.from, o.to) /\ o.to[1] <= Len(log)
      /\ cr.rows = Cached(rows ++ cvrs[o.from].rows)
      /\ Recorded(rows, o.to, cvrs[o.from].rows, cr.rows)
      /\ defer \in BOOLEAN
      /\ Holds(pending[s]) => defer
  BY DEF Committable
<1>2. PICK more : more = cvrs'
  OBVIOUS
<1>3. PICK e : e = db'
  OBVIOUS
<1>4. PICK after : after = pending'
  OBVIOUS
<1>5. PICK from : from = o.from
  OBVIOUS
<1>6. PICK to : to = o.to
  OBVIOUS
<1>7. /\ more = cvrs ++ [v \in {to} |-> cr]
      /\ e = [version |-> to, owner |-> TaskOf[s], grantedAt |-> syncer[s].lct,
              rows |-> IF defer THEN db.rows ELSE rows ++ db.rows,
              rowsVersion |-> IF defer THEN db.rowsVersion ELSE to]
      /\ after = IF defer THEN [pending EXCEPT ![s] =
                                   [rows |-> rows ++ @.rows, version |-> to]]
                 ELSE pending
  BY <1>2, <1>3, <1>4, <1>6 DEF Commit
<1>8. /\ Committed(cvrs, from, log) /\ Stored(db, cvrs, pending)
      /\ pending = [t \in Syncers |-> pending[t]] /\ db \in Database /\ syncer[s] \in Syncing
      /\ Going(syncer[s], op[s], pending[s], db, cvrs, log)
  BY <1>1, <1>5, Parts DEF Coherent, Kinds
<1>9. to \in Version /\ Less(from, to) /\ to[1] <= Len(log)
  BY <1>1, <1>5, <1>6
<1>10. Grown(cvrs, more, to, cr)
  BY <1>7, <1>8, <1>9, Growth
<1>11. Committed(more, to, log)
  <2>1. Recording(cr, to, more, log)
    BY <1>2, <1>6
  <2> QED
    BY <1>8, <1>9, <1>10, <2>1, CommittedGrown
<1>12. db.rowsVersion # from => Holds(pending[s])
  BY <1>1, <1>5, <1>8 DEF Going, Current
<1>13. /\ e.version = to /\ e.owner = TaskOf[s] /\ e.grantedAt = syncer[s].lct
       /\ e.rows = IF defer THEN db.rows ELSE rows ++ db.rows
       /\ e.rowsVersion = IF defer THEN db.rowsVersion ELSE to
       /\ e = [version |-> e.version, owner |-> e.owner, grantedAt |-> e.grantedAt,
               rows |-> e.rows, rowsVersion |-> e.rowsVersion]
  BY <1>7
<1>14. Committing(log, cvrs, from, to, cr, more, db, pending, s, rows, defer, e, after)
  BY <1>1, <1>5, <1>6, <1>7, <1>8, <1>9, <1>10, <1>12, <1>13 DEF Committing
<1>15. /\ Stored(e, more, after) /\ after = [t \in Syncers |-> after[t]]
       /\ e.rows \in [Rows -> Rec] /\ e.rowsVersion \in Version
       /\ e.rowsVersion # to => Holds(after[s])
       /\ \A r \in Rows : LET w == (after[s].rows ++ e.rows)[r] IN
             \/ AtMost(w.patch, from)
             \/ w.patch = to /\ View(cvrs[from].rows)[r] # View(more[to].rows)[r]
  BY <1>14, CommittingStores
<1>16. e \in Database
  <2>1. syncer[s].lct \in Nat
    BY <1>8 DEF Syncing
  <2> QED
    BY <1>9, <1>13, <1>15, <2>1 DEF Database
<1> QED
  BY <1>2, <1>3, <1>4, <1>5, <1>6, <1>10, <1>11, <1>13, <1>15, <1>16

LEMMA PokingGrown ==
    ASSUME NEW cv, NEW more, DOMAIN cv \subseteq DOMAIN more, NEW h, NEW x, NEW o, NEW k,
           Poking(h, x, o, k, cv)
    PROVE  Poking(h, x, o, k, more)
BY DEF Poking

\* A step of one syncer that commits a CVR.
LEMMA WriteStep ==
    ASSUME IInv, NEW s \in Syncers, log' = log, wants' = wants, used' = used,
           NEW to \in Version, NEW cr, Less(db.version, to),
           Grown(cvrs, cvrs', to, cr), Committed(cvrs', to, log),
           db' \in Database, db'.version = to, Stored(db', cvrs', pending'),
           pending' = [t \in Syncers |-> pending'[t]],
           db'.rowsVersion # to => Holds(pending'[s]),
           NEW y \in Syncing, syncer' = [syncer EXCEPT ![s] = y],
           NEW o, DOMAIN o = DOMAIN Idle, op' = [op EXCEPT ![s] = o],
           Going(y, o, pending'[s], db', cvrs', log),
           NEW hs \in [Clients -> Handler], handler' = [handler EXCEPT ![s] = hs],
           Poking(hs, y, o, used.connects, cvrs'),
           client' \in [Clients -> Client],
           \A c \in Clients : Seeing(client'[c], cvrs') /\ Observed(client[c], client'[c], cvrs')
    PROVE  IInv' /\ Kept
<1>1. /\ syncer \in [Syncers -> Syncing]
      /\ handler \in [Syncers -> [Clients -> Handler]] /\ wants \in [Clients -> SUBSET Queries]
      /\ op = [t \in Syncers |-> op[t]] /\ \A t \in Syncers : DOMAIN op[t] = DOMAIN Idle
      /\ Logged(log) /\ used \in [connects : Nat, events : Nat]
      /\ Committed(cvrs, db.version, log)
  BY DEF IInv, Kinds, Coherent
<1>2. /\ syncer'[s] = y /\ op'[s] = o /\ handler'[s] = hs
      /\ \A t \in Syncers \ {s} : /\ syncer'[t] = syncer[t] /\ op'[t] = op[t]
                                  /\ handler'[t] = handler[t]
      /\ syncer' \in [Syncers -> Syncing] /\ op' = [t \in Syncers |-> op'[t]]
      /\ handler' \in [Syncers -> [Clients -> Handler]]
      /\ \A t \in Syncers : DOMAIN op'[t] = DOMAIN Idle
  BY <1>1
<1>3. Kinds'
  BY <1>1, <1>2 DEF Kinds
<1>4. Coherent'
  BY DEF Coherent, Lagging
<1>5. PICK more : more = cvrs'
  OBVIOUS
<1>6. PICK e : e = db'
  OBVIOUS
<1>7. ASSUME NEW t \in Syncers, t # s
      PROVE  /\ Going(syncer[t], op[t], pending'[t], db', cvrs', log)
             /\ Poking(handler[t], syncer[t], op[t], used.connects, cvrs')
  <2>1. /\ Going(syncer[t], op[t], pending[t], db, cvrs, log)
        /\ Poking(handler[t], syncer[t], op[t], used.connects, cvrs)
        /\ \A c \in Clients : handler[t][c].ws \in Nat
        /\ used.connects \in Nat
    BY Parts
  <2>2. PICK q : q = pending'[t]
    OBVIOUS
  <2>3. Grown(cvrs, more, to, cr) /\ e.version = to
    BY <1>5, <1>6
  <2>4. Going(syncer[t], op[t], q, e, more, log)
    BY <1>1, <2>1, <2>3, OthersGrown
  <2>5. DOMAIN cvrs \subseteq DOMAIN more
    BY <2>3 DEF Grown
  <2>6. Poking(handler[t], syncer[t], op[t], used.connects, more)
    BY <2>1, <2>5, PokingGrown
  <2> QED
    BY <1>5, <1>6, <2>2, <2>4, <2>6
<1>8. ASSUME NEW t \in Syncers
      PROVE  /\ Going(syncer'[t], op'[t], pending'[t], db', cvrs', log')
             /\ Poking(handler'[t], syncer'[t], op'[t], used'.connects, cvrs')
  <2>1. CASE t = s
    BY <1>2, <2>1
  <2>2. CASE t # s
    BY <1>2, <1>7, <2>2
  <2> QED
    BY <2>1, <2>2
<1>9. \A u \in DOMAIN cvrs : Less(u, to)
  <2>1. Grown(cvrs, more, to, cr)
    BY <1>5
  <2> QED
    BY <1>1, <2>1, GrownOrder
<1>10. Kept
  BY <1>9 DEF Kept
<1> QED
  BY <1>3, <1>4, <1>8, <1>10 DEF IInv


\* What becomes of the clients and their handlers when they are poked.
LEMMA PokeFacts ==
    ASSUME IInv, NEW s \in Syncers, NEW more, NEW latest, Committed(more, latest, log),
           DOMAIN cvrs \subseteq DOMAIN more,
           \A c \in Clients : Seeing(client[c], more), NEW o, NEW f \in DOMAIN more,
           \A c \in Clients : c \in Served(s, o) /\ Less(handler[s][c].base, f) =>
              Leads(o.patches, handler[s][c].base, f, more),
           client' = ClientsAfter(s, o, f), handler' = HandlersAfter(s, o, f)
    PROVE  /\ handler' = [handler EXCEPT ![s] = handler'[s]]
           /\ handler'[s] \in [Clients -> Handler]
           /\ \A c \in Clients : /\ handler'[s][c].ws = handler[s][c].ws
                                 /\ handler'[s][c].ws <= used.connects
                                 /\ handler'[s][c].base \in {NoVersion} \cup DOMAIN more
           /\ client' \in [Clients -> Client]
           /\ \A c \in Clients : Seeing(client'[c], more) /\ Observed(client[c], client'[c], more)
<1>1. Kinds
  BY Parts
<1>2. PICK after : after = client'
  OBVIOUS
<1>3. PICK both : both = handler'
  OBVIOUS
<1>4. /\ after \in [Clients -> Client]
      /\ \A c \in Clients : Seeing(after[c], more) /\ Observed(client[c], after[c], more)
  <2>1. after = ClientsAfter(s, o, f)
    BY <1>2
  <2> QED
    BY <1>1, <2>1, ClientsPoked
<1>5. f \in Cookie
  BY CommittedFacts
<1>6. both = HandlersAfter(s, o, f)
  BY <1>3
<1>7. /\ both \in [Syncers -> [Clients -> Handler]]
      /\ \A t \in Syncers, c \in Clients :
            /\ both[t][c].ws = handler[t][c].ws
            /\ both[t][c].base \in {handler[t][c].base, f}
            /\ t # s => both[t] = handler[t]
  BY <1>1, <1>5, <1>6, HandlersPoked
<1>8. both = [handler EXCEPT ![s] = both[s]]
  <2>1. handler \in [Syncers -> [Clients -> Handler]]
    BY <1>1 DEF Kinds
  <2> QED
    BY <1>6, <2>1 DEF HandlersAfter
<1>9. \A c \in Clients : handler[s][c].base \in {NoVersion} \cup DOMAIN cvrs
                         /\ handler[s][c].ws <= used.connects
  BY Unmoved
<1>10. \A c \in Clients : /\ both[s][c].ws = handler[s][c].ws
                          /\ both[s][c].ws <= used.connects
                          /\ both[s][c].base \in {NoVersion} \cup DOMAIN more
  BY <1>7, <1>9
<1> QED
  BY <1>2, <1>3, <1>4, <1>7, <1>8, <1>10

-----------------------------------------------------------------------------
(* #updateCVRConfig. *)

\* The CVR with the desired queries changed.
Configured(old, c, queries, cr) ==
    cr = [old EXCEPT !.desired[c] = queries, !.queries = @ \cup queries]

Configuring(lg, cv, from, to, c, queries, cr, more) ==
    /\ Committed(cv, from, lg) /\ to = OneAfter(from)
    /\ c \in Clients /\ queries \in SUBSET Queries
    /\ Configured(cv[from], c, queries, cr) /\ Grown(cv, more, to, cr)

LEMMA ConfiguredFacts ==
    ASSUME NEW lg, NEW cv, NEW from, NEW to, NEW c, NEW queries, NEW cr, NEW more,
           Configuring(lg, cv, from, to, c, queries, cr, more)
    PROVE  /\ to \in Version /\ Less(from, to) /\ to[1] = from[1] /\ to[1] <= Len(lg)
           /\ cr.rows = cv[from].rows /\ cr.got = cv[from].got
           /\ cr.rows = Cached(None ++ cv[from].rows)
           /\ Recorded(None, to, cv[from].rows, cr.rows)
           /\ Recording(cr, to, more, lg)
<1>0. /\ Committed(cv, from, lg) /\ to = OneAfter(from)
      /\ c \in Clients /\ queries \in SUBSET Queries
      /\ Configured(cv[from], c, queries, cr) /\ Grown(cv, more, to, cr)
  BY DEF Configuring
<1> USE <1>0
<1>1. PICK old : old = cv[from]
  OBVIOUS
<1>2. /\ from \in Version /\ from \in Cookie /\ from[1] <= Len(lg) /\ Recording(old, from, cv, lg)
      /\ from \in DOMAIN cv
  BY <1>1, CommittedFacts DEF Committed
<1>3. to \in Version /\ Less(from, to) /\ to[1] = from[1]
  BY <1>2, VersionNext
<1>4. /\ old \in Cvr /\ old.got \subseteq old.queries /\ (from[1] = 0 => old.got = {})
      /\ Exact(old.rows, old.got, from[1], lg)
      /\ \A r \in Rows : old.rows[r].patch \in DOMAIN cv /\ AtMost(old.rows[r].patch, from)
  BY <1>2 DEF Recording
<1>5. /\ cr.rows = old.rows /\ cr.got = old.got /\ cr.queries = old.queries \cup queries /\ cr \in Cvr
  BY <1>1, <1>4 DEF Configured, Cvr
<1>6. old.rows \in [Rows -> Rec] /\ old.got \in SUBSET Queries
  BY <1>4 DEF Cvr
<1>7. None ++ old.rows = old.rows
  <2>1. PICK f : f = old.rows
    OBVIOUS
  <2>2. DOMAIN f \subseteq Rows /\ f = [r \in DOMAIN f |-> f[r]]
    BY <1>6, <2>1
  <2>3. None ++ f = f
    BY <2>2, NoneOver
  <2> QED
    BY <2>1, <2>3
<1>8. Cached(old.rows) = old.rows
  <2>1. PICK f : f = old.rows
    OBVIOUS
  <2>2. \A r \in Rows : ~Referenced(f[r]) => f[r] = Absent
    BY <1>4, <2>1 DEF Exact
  <2>3. \A r \in Rows : f[r] = IF Referenced(f[r]) THEN f[r] ELSE Absent
    BY <2>2
  <2>4. Cached(f) = f
    BY <1>6, <2>1, <2>3 DEF Cached
  <2> QED
    BY <2>1, <2>4
<1>9. Recorded(None, to, old.rows, cr.rows)
  BY DEF Recorded, None
<1>10. \A r \in Rows : cr.rows[r].patch \in DOMAIN more /\ AtMost(cr.rows[r].patch, to)
  <2> SUFFICES ASSUME NEW r \in Rows
               PROVE  cr.rows[r].patch \in DOMAIN more /\ AtMost(cr.rows[r].patch, to)
    OBVIOUS
  <2>1. PICK w : w = old.rows[r].patch
    OBVIOUS
  <2>2. w \in DOMAIN cv /\ AtMost(w, from)
    BY <1>4, <2>1
  <2>3. w \in Cookie /\ to \in Cookie
    BY <1>3, <2>2, CommittedFacts DEF Cookie
  <2>4. AtMost(w, to)
    BY <1>2, <1>3, <2>2, <2>3, VersionOrder
  <2> QED
    BY <1>5, <2>1, <2>2, <2>4 DEF Grown
<1>11. Recording(cr, to, more, lg)
  BY <1>3, <1>4, <1>5, <1>10 DEF Recording
<1> QED
  BY <1>1, <1>2, <1>3, <1>5, <1>7, <1>8, <1>9, <1>11


\* The clients that are poked are at the version the update starts from, and its
\* rows are those of the new one.
LEMMA ConfigPokes ==
    ASSUME IInv, NEW s \in Syncers, NEW from, NEW to, NEW current,
           current = {c \in Pokers(s, to) :
                        handler[s][c].base = from
                        \/ (handler[s][c].base = NoVersion /\ from = EmptyVersion)},
           NEW o, o.patches = None, o.pokers = Sockets(s, current),
           NEW more, from \in DOMAIN more, NoVersion \notin DOMAIN more,
           more[EmptyVersion].rows = NoRows, more[to].rows = more[from].rows,
           NEW c \in Clients, c \in Served(s, o)
    PROVE  Leads(o.patches, handler[s][c].base, to, more)
<1>1. \/ handler[s][c].base = from
      \/ handler[s][c].base = NoVersion /\ from = EmptyVersion
  BY DEF Served, Sockets
<1>2. PICK b : b = handler[s][c].base
  OBVIOUS
<1>3. \A r \in Rows : RowsAt(b, more)[r] = View(more[to].rows)[r]
  <2>1. CASE b = from
    BY <2>1 DEF RowsAt
  <2>2. CASE b = NoVersion /\ from = EmptyVersion
    <3>1. \A r \in Rows : RowsAt(b, more)[r] = 0
      BY <2>2 DEF RowsAt
    <3>2. more[to].rows = NoRows
      BY <2>2
    <3>3. \A r \in Rows : View(NoRows)[r] = 0
      BY AbsentFacts DEF View, NoRows
    <3> QED
      BY <3>1, <3>2, <3>3
  <2> QED
    BY <1>1, <1>2, <2>1, <2>2
<1>4. Leads(o.patches, b, to, more)
  BY <1>3, NothingLeads
<1> QED
  BY <1>2, <1>4

LEMMA FlushConfigStep ==
    ASSUME IInv, NEW s \in Syncers, FlushConfig(s)
    PROVE  IInv' /\ Kept
<1>1. PICK o : o = op[s]
  OBVIOUS
<1>2. PICK from : from = o.from
  OBVIOUS
<1>3. PICK to : to = o.to
  OBVIOUS
<1>4. PICK cr : cr = [cvrs[from] EXCEPT !.desired[o.c] = wants[o.c], !.queries = @ \cup wants[o.c]]
  OBVIOUS
<1>5. PICK current : current = {c \in Pokers(s, to) :
                       handler[s][c].base = from
                       \/ (handler[s][c].base = NoVersion /\ from = EmptyVersion)}
  OBVIOUS
<1>6. PICK poke : poke = [o EXCEPT !.noted = TRUE, !.pokers = Sockets(s, current)]
  OBVIOUS
<1>7. PICK me : me = [syncer[s] EXCEPT !.cvr = to, !.cache = CacheOf(s)]
  OBVIOUS
<1>8. PICK who : who = ClientOp(o.c, o.ws)
  OBVIOUS
<1>9. /\ o.pc = "config" /\ ~Conflict(s, o)
      /\ Commit(s, o, cr, None, Flushing(s))
      /\ client' = ClientsAfter(s, poke, to)
      /\ handler' = HandlersAfter(s, poke, to)
      /\ IF me.synced THEN Sync(s, me, to, cr, CacheOf(s), handler', who)
         ELSE /\ op' = [op EXCEPT ![s] = Idle]
              /\ syncer' = [syncer EXCEPT ![s] = [me EXCEPT !.ready = TRUE]]
      /\ UNCHANGED <<log, wants, used>>
  BY <1>1, <1>2, <1>3, <1>4, <1>5, <1>6, <1>7, <1>8 DEF FlushConfig
<1>10. /\ Kinds /\ Coherent /\ syncer[s] \in Syncing /\ DOMAIN o = DOMAIN Idle
       /\ Going(syncer[s], o, pending[s], db, cvrs, log)
       /\ \A c \in Clients : Seeing(client[c], cvrs)
       /\ used.connects \in Nat
  BY <1>1, Parts
<1>11. /\ db.version = from /\ syncer[s].cvr = from /\ from \in DOMAIN cvrs
       /\ to = OneAfter(from) /\ o.c \in Clients /\ o.patches = None
       /\ syncer[s].synced => syncer[s].hydrated = cvrs[from].got
       /\ syncer[s].pv <= Len(log)
       /\ Current(syncer[s], o, pending[s], db, cvrs, log)
  BY <1>2, <1>3, <1>9, <1>10, CommittedFacts DEF Going, Working, Conflict, Coherent
<1>12. Committed(cvrs, from, log) /\ Logged(log) /\ wants[o.c] \in SUBSET Queries
  BY <1>10, <1>11 DEF Coherent, Kinds
<1>13. PICK more : more = cvrs'
  OBVIOUS
<1>14. Grown(cvrs, more, to, cr)
  <2>1. more = cvrs ++ [v \in {to} |-> cr]
    BY <1>3, <1>9, <1>13 DEF Commit
  <2>2. to \in Version /\ Less(from, to)
    BY <1>11, <1>12, CommittedFacts, VersionNext
  <2> QED
    BY <1>12, <2>1, <2>2, Growth
<1>15. /\ to \in Version /\ Less(from, to) /\ to[1] = from[1] /\ to[1] <= Len(log)
       /\ cr.rows = cvrs[from].rows /\ cr.got = cvrs[from].got
       /\ cr.rows = Cached(None ++ cvrs[from].rows)
       /\ Recorded(None, to, cvrs[from].rows, cr.rows)
       /\ Recording(cr, to, more, log)
  <2>1. PICK c : c = o.c
    OBVIOUS
  <2>2. PICK queries : queries = wants[o.c]
    OBVIOUS
  <2>3. Configured(cvrs[from], c, queries, cr)
    BY <1>4, <2>1, <2>2 DEF Configured
  <2>4. c \in Clients /\ queries \in SUBSET Queries
    BY <1>11, <1>12, <2>1, <2>2
  <2>5. Configuring(log, cvrs, from, to, c, queries, cr, more)
    BY <1>11, <1>12, <1>14, <2>3, <2>4 DEF Configuring
  <2> QED
    BY <2>5, ConfiguredFacts
<1>16. PICK defer : defer = Flushing(s)
  OBVIOUS
<1>17. Committable(s, o.from, o.to, cr, None, defer)
  <2>1. (Holds(pending[s]) => defer) /\ defer \in BOOLEAN
    BY <1>16 DEF Holds, Flushing
  <2> QED
    BY <1>2, <1>3, <1>11, <1>15, <2>1 DEF Committable
<1>18. /\ Grown(cvrs, cvrs', o.to, cr) /\ Committed(cvrs', o.to, log)
       /\ db' \in Database /\ db'.version = o.to
       /\ Stored(db', cvrs', pending') /\ pending' = [t \in Syncers |-> pending'[t]]
       /\ db'.rowsVersion # o.to => Holds(pending'[s])
  <2>1. Commit(s, o, cr, None, defer)
    BY <1>9, <1>16
  <2>2. Recording(cr, o.to, cvrs', log)
    BY <1>3, <1>13, <1>15
  <2> QED
    BY <1>17, <2>1, <2>2, CommitFacts
<1>19. PICK e : e = db'
  OBVIOUS
<1>20. PICK p : p = pending'[s]
  OBVIOUS
<1>21. /\ Committed(more, to, log) /\ e.version = to /\ (e.rowsVersion # to => Holds(p))
  BY <1>3, <1>13, <1>18, <1>19, <1>20
<1>22. PICK cache : cache = CacheOf(s)
  OBVIOUS
<1>23. cache = cr.rows /\ cache \in [Rows -> Rec]
  <2>1. \/ syncer[s].cache = cvrs[db.version].rows
        \/ syncer[s].cache = None /\ db.rowsVersion = db.version
    BY <1>11 DEF Current
  <2> QED
    BY <1>11, <1>15, <1>22, <2>1, CurrentCache, CacheTyped
<1>24. /\ me \in Syncing /\ me.cvr = to /\ me.cache = cr.rows /\ me.pv = syncer[s].pv
       /\ me.hydrated = syncer[s].hydrated /\ me.synced = syncer[s].synced
       /\ me.state = syncer[s].state
  BY <1>7, <1>10, <1>15, <1>22, <1>23 DEF Syncing, Cookie
<1>25. /\ \A c \in Clients : Seeing(client[c], more)
       /\ DOMAIN cvrs \subseteq DOMAIN more /\ to \in DOMAIN more /\ more[to] = cr
       /\ from \in DOMAIN more /\ more[from] = cvrs[from]
  BY <1>10, <1>11, <1>14, SeeingGrown DEF Grown
<1>26. \A c \in Clients : c \in Served(s, poke) /\ Less(handler[s][c].base, to) =>
          Leads(poke.patches, handler[s][c].base, to, more)
  <2>1. poke.patches = None /\ poke.pokers = Sockets(s, current)
    BY <1>6, <1>10, <1>11, IdleFacts
  <2>2. /\ NoVersion \notin DOMAIN more /\ more[EmptyVersion].rows = NoRows
    BY <1>21, CommittedFacts DEF Committed
  <2>3. more[to].rows = more[from].rows
    BY <1>15, <1>25
  <2> QED
    BY <1>5, <1>25, <2>1, <2>2, <2>3, ConfigPokes
<1>27. /\ handler' = [handler EXCEPT ![s] = handler'[s]]
       /\ handler'[s] \in [Clients -> Handler]
       /\ \A c \in Clients : /\ handler'[s][c].ws = handler[s][c].ws
                             /\ handler'[s][c].ws <= used.connects
                             /\ handler'[s][c].base \in {NoVersion} \cup DOMAIN more
       /\ client' \in [Clients -> Client]
       /\ \A c \in Clients : Seeing(client'[c], more) /\ Observed(client[c], client'[c], more)
  BY <1>9, <1>21, <1>25, <1>26, PokeFacts
<1>28. PICK hs : hs = handler'[s]
  OBVIOUS
<1>29. \E y \in Syncing : \E u :
          /\ syncer' = [syncer EXCEPT ![s] = y] /\ op' = [op EXCEPT ![s] = u]
          /\ DOMAIN u = DOMAIN Idle
          /\ Going(y, u, p, e, more, log)
          /\ Poking(hs, y, u, used.connects, more)
  <2>1. CASE me.synced
    <3>1. Sync(s, me, to, cr, cache, handler', who)
      BY <1>9, <1>22, <2>1
    <3>2. /\ Beginning(who) /\ to # NoVersion
      BY <1>8, <1>15, Beginnings, NoVersionFirst
    <3>3. /\ Pipes(syncer[s], cvrs[db.version].got, db.version[1], log)
      BY <1>9, <1>11, <1>24, <2>1 DEF Current
    <3>4. /\ 1 <= me.pv /\ to[1] <= me.pv /\ me.hydrated = cr.got
          /\ Same(log, to[1], me.pv, me.hydrated)
      BY <1>11, <1>15, <1>24, <2>1, <3>3 DEF Pipes
    <3>5. Syncable(me, to, cr, cache, who, log, e, p, more)
      BY <1>11, <1>12, <1>15, <1>21, <1>23, <1>24, <1>25, <3>2, <3>4 DEF Syncable
    <3>6. PICK both : both = handler'
      OBVIOUS
    <3>7. /\ both[s] \in [Clients -> Handler]
          /\ \A c \in Clients : both[s][c].base \in {NoVersion} \cup DOMAIN more
                                /\ both[s][c].ws <= used.connects
      BY <1>27, <3>6
    <3>8. \E y \in Syncing : \E u :
             /\ syncer' = [syncer EXCEPT ![s] = y] /\ op' = [op EXCEPT ![s] = u]
             /\ y.state = me.state /\ DOMAIN u = DOMAIN Idle
             /\ Going(y, u, p, e, more, log)
             /\ Poking(both[s], y, u, used.connects, more)
      BY <1>10, <3>1, <3>5, <3>6, <3>7, SyncGoes
    <3> QED
      BY <1>28, <3>6, <3>8
  <2>2. CASE ~me.synced
    <3>1. PICK y : y = [me EXCEPT !.ready = TRUE]
      OBVIOUS
    <3>2. op' = [op EXCEPT ![s] = Idle] /\ syncer' = [syncer EXCEPT ![s] = y]
      BY <1>9, <2>2, <3>1
    <3>3. /\ y \in Syncing /\ y.cvr = to /\ y.cache = cr.rows /\ y.pv = syncer[s].pv
          /\ y.synced = FALSE
      BY <1>24, <2>2, <3>1 DEF Syncing
    <3>4. Working(y, Idle, more, log)
      BY <1>11, <1>25, <3>3, IdleFacts DEF Working
    <3>5. Current(y, Idle, p, e, more, log)
      BY <1>21, <1>25, <3>3, IdleFacts DEF Current
    <3>6. Going(y, Idle, p, e, more, log)
      BY <3>4, <3>5 DEF Going
    <3>7. Poking(hs, y, Idle, used.connects, more)
      BY <1>10, <1>27, <1>28, PokingIdle
    <3> QED
      BY <3>2, <3>3, <3>6, <3>7
  <2> QED
    BY <2>1, <2>2
<1>30. PICK y \in Syncing : \E u :
          /\ syncer' = [syncer EXCEPT ![s] = y] /\ op' = [op EXCEPT ![s] = u]
          /\ DOMAIN u = DOMAIN Idle
          /\ Going(y, u, p, e, more, log)
          /\ Poking(hs, y, u, used.connects, more)
  BY <1>29
<1>31. PICK u :
          /\ syncer' = [syncer EXCEPT ![s] = y] /\ op' = [op EXCEPT ![s] = u]
          /\ DOMAIN u = DOMAIN Idle
          /\ Going(y, u, p, e, more, log)
          /\ Poking(hs, y, u, used.connects, more)
  BY <1>30
<1>32. /\ log' = log /\ wants' = wants /\ used' = used /\ Less(db.version, to)
       /\ Grown(cvrs, cvrs', to, cr) /\ Committed(cvrs', to, log)
       /\ db' \in Database /\ db'.version = to /\ Stored(db', cvrs', pending')
       /\ pending' = [t \in Syncers |-> pending'[t]]
       /\ db'.rowsVersion # to => Holds(pending'[s])
       /\ Going(y, u, pending'[s], db', cvrs', log)
       /\ hs \in [Clients -> Handler] /\ handler' = [handler EXCEPT ![s] = hs]
       /\ Poking(hs, y, u, used.connects, cvrs')
       /\ client' \in [Clients -> Client]
       /\ \A c \in Clients : Seeing(client'[c], cvrs') /\ Observed(client[c], client'[c], cvrs')
  BY <1>3, <1>9, <1>11, <1>13, <1>15, <1>18, <1>19, <1>20, <1>27, <1>28, <1>31
<1> QED
  BY <1>15, <1>31, <1>32, WriteStep


-----------------------------------------------------------------------------
(* The updater's flush. *)

LEMMA NothingWritten ==
    ASSUME NEW cv, NEW v, NEW more, NEW lg, NEW cr, Recording(cr, v, more, lg), NEW old, old = cr.rows
    PROVE  Cached(None ++ old) = old
<1>1. old \in [Rows -> Rec] /\ Exact(old, cr.got, v[1], lg)
  BY DEF Recording, Cvr
<1>2. DOMAIN old \subseteq Rows /\ old = [r \in DOMAIN old |-> old[r]]
  BY <1>1
<1>3. None ++ old = old
  BY <1>2, NoneOver
<1>4. \A r \in Rows : ~Referenced(old[r]) => old[r] = Absent
  BY <1>1 DEF Exact
<1>5. \A r \in Rows : old[r] = IF Referenced(old[r]) THEN old[r] ELSE Absent
  BY <1>4
<1>6. Cached(old) = old
  BY <1>1, <1>5 DEF Cached
<1> QED
  BY <1>3, <1>6

\* The CVR a flush commits, of an update that started from the current one.
Flushed(lg, cv, from, to, x, o, old, cr, more) ==
    /\ Committed(cv, from, lg) /\ Flushable(x, o, cv, lg) /\ o.from = from /\ o.to = to
    /\ x.pv <= Len(lg) /\ x.pv \in Nat /\ old = cv[from].rows
    /\ cr = [cv[from] EXCEPT !.queries = o.queries, !.got = o.got, !.rows = Cached(o.rows ++ old)]
    /\ Grown(cv, more, to, cr)

LEMMA FlushedFacts ==
    ASSUME NEW lg, NEW cv, NEW from, NEW to, NEW x, NEW o, NEW old, NEW cr, NEW more,
           Flushed(lg, cv, from, to, x, o, old, cr, more)
    PROVE  /\ cr.rows = Cached(o.rows ++ old) /\ cr.got = o.got /\ x.hydrated = cr.got
           /\ to \in Version /\ Less(from, to) /\ to[1] <= Len(lg) /\ to[1] = x.pv /\ 1 <= x.pv
           /\ Recorded(o.rows, to, old, cr.rows)
           /\ Shown(o.patches, to, old, cr.rows)
           /\ Hydrated(o.patches, o.adds, cr.rows)
           /\ Recording(cr, to, more, lg)
<1>0. /\ Committed(cv, from, lg) /\ Flushable(x, o, cv, lg) /\ o.from = from /\ o.to = to
      /\ x.pv <= Len(lg) /\ x.pv \in Nat /\ old = cv[from].rows
      /\ cr = [cv[from] EXCEPT !.queries = o.queries, !.got = o.got, !.rows = Cached(o.rows ++ old)]
      /\ Grown(cv, more, to, cr)
  BY DEF Flushed
<1>1. /\ from \in Version /\ from \in Cookie /\ from \in DOMAIN cv /\ cv[from] \in Cvr
      /\ old \in [Rows -> Rec]
      /\ \A r \in Rows : old[r].patch \in DOMAIN cv /\ AtMost(old[r].patch, from)
  <2>1. from \in DOMAIN cv
    BY <1>0 DEF Committed
  <2>2. PICK was : was = cv[from]
    OBVIOUS
  <2>3. from \in Version /\ from \in Cookie /\ Recording(was, from, cv, lg)
    BY <1>0, <2>1, <2>2, CommittedFacts
  <2>4. /\ was \in Cvr
        /\ \A r \in Rows : was.rows[r].patch \in DOMAIN cv /\ AtMost(was.rows[r].patch, from)
    BY <2>3 DEF Recording
  <2>5. was.rows \in [Rows -> Rec]
    BY <2>4 DEF Cvr
  <2> QED
    BY <1>0, <2>1, <2>2, <2>3, <2>4, <2>5
<1>2. PICK new : new = Cached(o.rows ++ old)
  OBVIOUS
<1>3. /\ to \in Version /\ Less(from, to) /\ to[1] = x.pv /\ 1 <= x.pv
      /\ o.queries \subseteq Queries /\ o.got \subseteq o.queries /\ x.hydrated = o.got
      /\ Exact(new, o.got, x.pv, lg)
      /\ Shown(o.patches, to, old, new)
      /\ Recorded(o.rows, to, old, new)
      /\ Hydrated(o.patches, o.adds, new)
  BY <1>0, <1>2 DEF Flushable
<1>4. to \in Cookie /\ EmptyVersion \in Cookie /\ to \in DOMAIN more /\ EmptyVersion \in DOMAIN more
      /\ AtMost(EmptyVersion, to) /\ AtMost(to, to)
      /\ \A b \in DOMAIN cv : b \in Cookie /\ b \in DOMAIN more
  BY <1>0, <1>3, CommittedFacts, NoVersionFirst, VersionOrder DEF Grown, Committed, Cookie, EmptyVersion,
     Version
<1>5. ASSUME NEW r \in Rows
      PROVE  /\ new[r] \in Rec
             /\ new[r].patch \in DOMAIN more /\ AtMost(new[r].patch, to)
  <2>1. PICK f : f = o.rows ++ old
    OBVIOUS
  <2>2. new[r] = IF Referenced(f[r]) THEN f[r] ELSE Absent
    BY <1>2, <2>1, CachedFacts
  <2>3. \/ r \in DOMAIN o.rows /\ f[r] = o.rows[r]
        \/ f[r] = old[r]
    <3>1. /\ \A t \in DOMAIN o.rows : f[t] = o.rows[t]
          /\ \A t \in DOMAIN old \ DOMAIN o.rows : f[t] = old[t]
      BY <2>1 DEF ++
    <3>2. r \in DOMAIN old
      BY <1>1
    <3> QED
      BY <3>1, <3>2
  <2>4. \/ f[r] \in Rec /\ f[r].patch = to
        \/ f[r] \in Rec /\ f[r].patch = old[r].patch
    BY <1>1, <1>3, <2>3 DEF Recorded
  <2>5. AtMost(old[r].patch, to)
    <3>1. PICK w : w = old[r].patch
      OBVIOUS
    <3>2. w \in Cookie /\ AtMost(w, from)
      BY <1>1, <1>4, <3>1
    <3>3. AtMost(w, to)
      BY <1>1, <1>3, <1>4, <3>2, VersionOrder
    <3> QED
      BY <3>1, <3>3
  <2>6. Absent \in Rec /\ Absent.patch = EmptyVersion
    BY AbsentFacts DEF Absent
  <2>7. f[r] \in Rec /\ f[r].patch \in DOMAIN more /\ AtMost(f[r].patch, to)
    BY <1>1, <1>4, <2>4, <2>5
  <2> QED
    BY <1>4, <2>2, <2>6, <2>7
<1>6. new \in [Rows -> Rec]
  BY <1>2, <1>5 DEF Cached
<1>7. cr \in Cvr /\ cr.rows = new /\ cr.got = o.got /\ cr.queries = o.queries
  BY <1>0, <1>1, <1>2, <1>3, <1>6 DEF Cvr
<1>8. Recording(cr, to, more, lg)
  BY <1>0, <1>3, <1>5, <1>7 DEF Recording
<1> QED
  BY <1>0, <1>2, <1>3, <1>7, <1>8



LEMMA EmptyView ==
    ASSUME NEW cv, NEW v, NEW lg, NEW latest, Committed(cv, latest, lg), v = EmptyVersion, NEW r \in Rows
    PROVE  RowsAt(NoVersion, cv)[r] = View(cv[v].rows)[r]
<1>1. cv[v].rows = NoRows
  BY DEF Committed
<1>2. View(NoRows)[r] = 0
  BY AbsentFacts DEF View, NoRows
<1> QED
  BY <1>1, <1>2 DEF RowsAt

LEMMA FlushSkips ==
    ASSUME IInv, NEW s \in Syncers, Flush(s), ~op[s].writes
    PROVE  IInv' /\ Kept
<1>1. PICK o : o = op[s]
  OBVIOUS
<1>2. PICK from : from = o.from
  OBVIOUS
<1>3. PICK x : x = syncer[s]
  OBVIOUS
<1>4. /\ Kinds /\ x \in Syncing /\ DOMAIN o = DOMAIN Idle
      /\ Going(x, o, pending[s], db, cvrs, log)
      /\ Poking(handler[s], x, o, used.connects, cvrs)
      /\ Committed(cvrs, db.version, log)
      /\ \A c \in Clients : Seeing(client[c], cvrs)
      /\ used.connects \in Nat /\ used \in [connects : Nat, events : Nat]
      /\ syncer[s] = x
  BY <1>1, <1>3, Parts DEF Coherent, Kinds
<1>5. PICK me : me = [x EXCEPT !.cvr = from, !.cache = x.cache]
  OBVIOUS
<1>6. /\ o.pc = "flush" /\ ~o.bad /\ ~o.writes
      /\ UNCHANGED <<log, wants, used, cvrs, db, pending>>
      /\ IF o.advance
         THEN /\ Done(s, me, o)
              /\ client' = ClientsAfter(s, o, from)
              /\ handler' = HandlersAfter(s, o, from)
         ELSE /\ op' = [op EXCEPT ![s].pc = "catchup"]
              /\ syncer' = [syncer EXCEPT ![s] = me]
              /\ UNCHANGED <<client, handler>>
  BY <1>1, <1>2, <1>3, <1>5 DEF Flush, Final
<1>7. /\ x.cvr = from /\ from \in DOMAIN cvrs /\ x.pv <= Len(log) /\ x.hydrated = cvrs[from].got
      /\ o.adds \subseteq Queries
      /\ o.advance /\ from = EmptyVersion => o.patches = None
      /\ from = db.version => Current(x, o, pending[s], db, cvrs, log)
  BY <1>2, <1>4, <1>6 DEF Going, Working
<1>8. from \in Version /\ from # NoVersion
  BY <1>4, <1>7, CommittedFacts
<1>9. /\ me \in Syncing /\ me.cvr = from /\ me.cache = x.cache /\ me.pv = x.pv
      /\ me.hydrated = x.hydrated /\ me.synced = x.synced /\ me.state = x.state
  BY <1>4, <1>5, <1>7 DEF Syncing
<1>10. from = db.version => /\ x.cache = cvrs[db.version].rows \/ (x.cache = None /\ db.rowsVersion = db.version)
                            /\ db.rowsVersion # db.version => Holds(pending[s])
                            /\ Flushable(x, o, cvrs, log)
  BY <1>6, <1>7 DEF Current
<1>11. from = db.version => /\ Pipes(x, cvrs[from].got, from[1], log) /\ o.rows = None
                            /\ Shown(o.patches, o.to, cvrs[from].rows, Cached(o.rows ++ cvrs[from].rows))
                            /\ Hydrated(o.patches, o.adds, Cached(o.rows ++ cvrs[from].rows))
  BY <1>2, <1>6, <1>10 DEF Flushable
<1>12. CASE o.advance
  <2>1. PICK y : y = [me EXCEPT !.ready = TRUE, !.synced = @ \/ o.run]
    OBVIOUS
  <2>2. op' = [op EXCEPT ![s] = Idle] /\ syncer' = [syncer EXCEPT ![s] = y]
    BY <1>6, <1>12, <2>1 DEF Done
  <2>3. /\ y.cvr = from /\ y.cache = x.cache /\ y.pv = x.pv
        /\ y.hydrated = x.hydrated /\ y.state = x.state /\ y.synced = (x.synced \/ o.run)
        /\ y = [me EXCEPT !.ready = TRUE, !.synced = (x.synced \/ o.run)]
    BY <1>9, <2>1 DEF Syncing
  <2>4. y \in Syncing
    <3>1. (x.synced \/ o.run) \in BOOLEAN
      OBVIOUS
    <3>2. PICK b \in BOOLEAN : b = (x.synced \/ o.run)
      BY <3>1
    <3>3. y = [me EXCEPT !.ready = TRUE, !.synced = b]
      BY <2>3, <3>2
    <3> QED
      BY <1>9, <3>3 DEF Syncing
  <2>5. Working(y, Idle, cvrs, log)
    BY <1>7, <1>8, <2>3, IdleFacts DEF Working
  <2>6. from = db.version => Current(y, Idle, pending[s], db, cvrs, log)
    BY <1>10, <1>11, <2>3, IdleFacts DEF Current, Pipes
  <2>7. Going(y, Idle, pending[s], db, cvrs, log)
    BY <2>3, <2>5, <2>6 DEF Going
  <2>8. \A c \in Clients : c \in Served(s, o) /\ Less(handler[s][c].base, from) =>
           Leads(o.patches, handler[s][c].base, from, cvrs)
    <3> SUFFICES ASSUME NEW c \in Clients, c \in Served(s, o), Less(handler[s][c].base, from)
                 PROVE  Leads(o.patches, handler[s][c].base, from, cvrs)
      OBVIOUS
    <3>1. PICK h : h = handler[s]
      OBVIOUS
    <3>2. PICK b : b = h[c].base
      OBVIOUS
    <3>3. Poking(h, x, o, used.connects, cvrs)
      BY <1>4, <3>1
    <3>4. b = from \/ (b = NoVersion /\ from = EmptyVersion)
      BY <1>2, <1>6, <1>12, <3>1, <3>2, <3>3 DEF Poking, Served
    <3>5. b # from
      <4>1. from \in Cookie
        BY <1>8, NoVersionFirst
      <4> QED
        BY <3>1, <3>2, <4>1, VersionOrder
    <3>6. \A r \in Rows : RowsAt(b, cvrs)[r] = View(cvrs[from].rows)[r]
      BY <1>4, <3>4, <3>5, EmptyView
    <3>7. Leads(o.patches, b, from, cvrs)
      BY <1>7, <1>12, <3>4, <3>5, <3>6, NothingLeads
    <3> QED
      BY <3>1, <3>2, <3>7
  <2>9. DOMAIN cvrs \subseteq DOMAIN cvrs
    OBVIOUS
  <2>10. /\ handler' = [handler EXCEPT ![s] = handler'[s]]
         /\ handler'[s] \in [Clients -> Handler]
         /\ \A c \in Clients : /\ handler'[s][c].ws = handler[s][c].ws
                               /\ handler'[s][c].ws <= used.connects
                               /\ handler'[s][c].base \in {NoVersion} \cup DOMAIN cvrs
         /\ client' \in [Clients -> Client]
         /\ \A c \in Clients : Seeing(client'[c], cvrs) /\ Observed(client[c], client'[c], cvrs)
    BY <1>4, <1>6, <1>7, <1>12, <2>8, <2>9, PokeFacts
  <2>11. PICK hs : hs = handler'[s]
    OBVIOUS
  <2>12. Poking(hs, y, Idle, used.connects, cvrs)
    BY <1>4, <2>10, <2>11, PokingIdle
  <2>13. /\ hs \in [Clients -> Handler] /\ handler' = [handler EXCEPT ![s] = hs]
         /\ used' \in [connects : Nat, events : Nat] /\ used'.connects = used.connects
         /\ syncer[s].state = "crashed" => y.state = "crashed"
    BY <1>4, <1>6, <2>3, <2>10, <2>11
  <2> QED
    BY <1>6, <2>2, <2>4, <2>7, <2>10, <2>12, <2>13, OneStep
<1>13. CASE ~o.advance
  <2>1. PICK u : u = [o EXCEPT !.pc = "catchup"]
    OBVIOUS
  <2>2. op' = [op EXCEPT ![s] = u] /\ syncer' = [syncer EXCEPT ![s] = me]
        /\ client' = client /\ handler' = handler
    <3>1. op = [t \in Syncers |-> op[t]]
      BY <1>4 DEF Kinds
    <3> QED
      BY <1>1, <1>6, <1>13, <2>1, <3>1
  <2>3. /\ DOMAIN u = DOMAIN Idle /\ u.pc = "catchup" /\ u.from = from /\ u.patches = o.patches
        /\ u.adds = o.adds /\ u.pokers = o.pokers /\ u.advance = o.advance /\ u.to = o.to
    BY <1>2, <1>4, <2>1, IdleFacts
  <2>4. Working(me, u, cvrs, log)
    BY <1>7, <1>8, <1>9, <2>3 DEF Working
  <2>5. ASSUME from = db.version
        PROVE  Current(me, u, pending[s], db, cvrs, log)
    <3>1. Cached(o.rows ++ cvrs[from].rows) = cvrs[from].rows
      <4>1. Recording(cvrs[from], from, cvrs, log)
        BY <1>4, <1>7, CommittedFacts
      <4>2. PICK cr : cr = cvrs[from]
        OBVIOUS
      <4>3. PICK old : old = cr.rows
        OBVIOUS
      <4>4. Cached(None ++ old) = old
        BY <4>1, <4>2, <4>3, NothingWritten
      <4> QED
        BY <1>11, <2>5, <4>2, <4>3, <4>4
    <3>2. Following(me, u, pending[s], db, cvrs)
      BY <1>9, <1>11, <2>3, <2>5, <3>1 DEF Following, Shown
    <3>3. Pipes(me, cvrs[from].got, from[1], log)
      BY <1>9, <1>11, <2>5 DEF Pipes
    <3> QED
      BY <1>9, <1>10, <2>3, <2>5, <3>2, <3>3 DEF Current
  <2>6. Going(me, u, pending[s], db, cvrs, log)
    BY <1>9, <2>4, <2>5 DEF Going
  <2>7. Poking(handler[s], me, u, used.connects, cvrs)
    BY <1>4, <1>9, <2>3 DEF Poking
  <2>8. /\ handler[s] \in [Clients -> Handler] /\ handler' = [handler EXCEPT ![s] = handler[s]]
        /\ client' \in [Clients -> Client]
        /\ \A c \in Clients : Seeing(client'[c], cvrs) /\ Observed(client[c], client'[c], cvrs)
    BY <2>2, Unmoved
  <2>9. /\ used' \in [connects : Nat, events : Nat] /\ used'.connects = used.connects
        /\ syncer[s].state = "crashed" => me.state = "crashed"
    BY <1>4, <1>6, <1>9
  <2> QED
    BY <1>6, <1>9, <2>2, <2>3, <2>6, <2>7, <2>8, <2>9, OneStep
<1> QED
  BY <1>12, <1>13


LEMMA FlushWrites ==
    ASSUME IInv, NEW s \in Syncers, Flush(s), op[s].writes
    PROVE  IInv' /\ Kept
<1>1. PICK o : o = op[s]
  OBVIOUS
<1>2. PICK from : from = o.from
  OBVIOUS
<1>3. PICK to : to = o.to
  OBVIOUS
<1>4. PICK x : x = syncer[s]
  OBVIOUS
<1>5. PICK cache : cache = Cached(o.rows ++ CacheOf(s))
  OBVIOUS
<1>6. PICK cr : cr = [cvrs[from] EXCEPT !.queries = o.queries, !.got = o.got, !.rows = cache]
  OBVIOUS
<1>7. PICK me : me = [x EXCEPT !.cvr = to, !.cache = cache]
  OBVIOUS
<1>8. /\ o.pc = "flush" /\ o.writes /\ ~Conflict(s, o)
      /\ \E defer \in BOOLEAN : (Flushing(s) => defer) /\ Commit(s, o, cr, o.rows, defer)
      /\ IF o.advance
         THEN /\ Done(s, me, o)
              /\ client' = ClientsAfter(s, o, to)
              /\ handler' = HandlersAfter(s, o, to)
         ELSE /\ op' = [op EXCEPT ![s].pc = "catchup"]
              /\ syncer' = [syncer EXCEPT ![s] = me]
              /\ UNCHANGED <<client, handler>>
      /\ UNCHANGED <<log, wants, used>>
  BY <1>1, <1>2, <1>3, <1>4, <1>5, <1>6, <1>7 DEF Flush, Final
<1>9. PICK defer \in BOOLEAN : (Flushing(s) => defer) /\ Commit(s, o, cr, o.rows, defer)
  BY <1>8
<1>10. /\ Kinds /\ Coherent /\ x \in Syncing /\ DOMAIN o = DOMAIN Idle
       /\ Going(x, o, pending[s], db, cvrs, log)
       /\ Poking(handler[s], x, o, used.connects, cvrs)
       /\ \A c \in Clients : Seeing(client[c], cvrs)
       /\ used.connects \in Nat
  BY <1>1, <1>4, Parts
<1>11. /\ db.version = from /\ x.cvr = from /\ from \in DOMAIN cvrs
       /\ o.adds \subseteq Queries
       /\ o.advance /\ from = EmptyVersion => o.patches = None
       /\ x.pv <= Len(log) /\ x.pv \in Nat
       /\ Current(x, o, pending[s], db, cvrs, log)
  <2>1. x.cvr = from /\ from \in DOMAIN cvrs /\ x.pv <= Len(log) /\ o.adds \subseteq Queries
        /\ (o.advance /\ from = EmptyVersion => o.patches = None)
    BY <1>2, <1>8, <1>10 DEF Going, Working
  <2>2. db.version = from
    BY <1>2, <1>8 DEF Conflict
  <2>3. x.pv \in Nat
    BY <1>10 DEF Syncing
  <2> QED
    BY <1>10, <2>1, <2>2, <2>3 DEF Going
<1>12. Committed(cvrs, from, log)
  BY <1>10, <1>11 DEF Coherent
<1>13. from \in Version /\ from # NoVersion
  BY <1>11, <1>12, CommittedFacts
<1>14. PICK old : old = cvrs[from].rows
  OBVIOUS
<1>15. CacheOf(s) = old
  <2>1. \/ syncer[s].cache = cvrs[db.version].rows
        \/ syncer[s].cache = None /\ db.rowsVersion = db.version
    BY <1>4, <1>11 DEF Current
  <2> QED
    BY <1>11, <1>14, <2>1, CurrentCache
<1>16. PICK more : more = cvrs'
  OBVIOUS
<1>17. Flushable(x, o, cvrs, log)
  BY <1>8, <1>11 DEF Current
<1>18. Grown(cvrs, more, to, cr)
  <2>1. more = cvrs ++ [v \in {to} |-> cr]
    BY <1>3, <1>9, <1>16 DEF Commit
  <2>2. to \in Version /\ Less(from, to)
    BY <1>2, <1>3, <1>17 DEF Flushable
  <2> QED
    BY <1>12, <2>1, <2>2, Growth
<1>19. /\ cr.rows = Cached(o.rows ++ old) /\ cr.got = o.got /\ x.hydrated = cr.got
       /\ to \in Version /\ Less(from, to) /\ to[1] <= Len(log) /\ to[1] = x.pv /\ 1 <= x.pv
       /\ Recorded(o.rows, to, old, cr.rows)
       /\ Shown(o.patches, to, old, cr.rows)
       /\ Hydrated(o.patches, o.adds, cr.rows)
       /\ Recording(cr, to, more, log)
  <2>1. cr = [cvrs[from] EXCEPT !.queries = o.queries, !.got = o.got, !.rows = Cached(o.rows ++ old)]
    BY <1>5, <1>6, <1>15
  <2>2. Flushed(log, cvrs, from, to, x, o, old, cr, more)
    BY <1>2, <1>3, <1>11, <1>12, <1>14, <1>17, <1>18, <2>1 DEF Flushed
  <2> QED
    BY <2>2, FlushedFacts
<1>20. /\ Grown(cvrs, cvrs', o.to, cr) /\ Committed(cvrs', o.to, log)
       /\ db' \in Database /\ db'.version = o.to
       /\ Stored(db', cvrs', pending') /\ pending' = [t \in Syncers |-> pending'[t]]
       /\ db'.rowsVersion # o.to => Holds(pending'[s])
       /\ \A r \in Rows : LET w == (pending'[s].rows ++ db'.rows)[r] IN
             \/ AtMost(w.patch, o.from)
             \/ w.patch = o.to /\ View(cvrs[o.from].rows)[r] # View(cvrs'[o.to].rows)[r]
  <2>1. Holds(pending[s]) => defer
    BY <1>9 DEF Holds, Flushing
  <2>2. Committable(s, o.from, o.to, cr, o.rows, defer)
    BY <1>2, <1>3, <1>4, <1>9, <1>11, <1>14, <1>19, <2>1 DEF Committable
  <2>3. Recording(cr, o.to, cvrs', log)
    BY <1>3, <1>16, <1>19
  <2> QED
    BY <1>9, <2>2, <2>3, CommitFacts
<1>21. PICK e : e = db'
  OBVIOUS
<1>22. PICK p : p = pending'[s]
  OBVIOUS
<1>23. /\ Committed(more, to, log) /\ e.version = to /\ (e.rowsVersion # to => Holds(p))
       /\ \A r \in Rows :
             \/ AtMost((p.rows ++ e.rows)[r].patch, from)
             \/ (p.rows ++ e.rows)[r].patch = to /\ View(cvrs[from].rows)[r] # View(more[to].rows)[r]
  BY <1>2, <1>3, <1>16, <1>20, <1>21, <1>22
<1>24. /\ me \in Syncing /\ me.cvr = to /\ me.cache = cr.rows /\ me.pv = x.pv
       /\ me.hydrated = x.hydrated /\ me.synced = x.synced /\ me.state = x.state
  <2>1. cache = cr.rows /\ cache \in [Rows -> Rec]
    BY <1>5, <1>15, <1>19 DEF Recording, Cvr
  <2> QED
    BY <1>7, <1>10, <1>19, <2>1 DEF Syncing, Cookie
<1>25. /\ \A c \in Clients : Seeing(client[c], more)
       /\ DOMAIN cvrs \subseteq DOMAIN more /\ to \in DOMAIN more /\ more[to] = cr
       /\ from \in DOMAIN more /\ more[from] = cvrs[from] /\ to # from /\ to # NoVersion
  BY <1>10, <1>11, <1>18, <1>19, SeeingGrown, NoVersionFirst DEF Grown
<1>26. \A b : b \in {NoVersion} \cup DOMAIN cvrs => AtMost(b, from)
  BY <1>12, <1>13, CommittedFacts, NoVersionFirst DEF AtMost
<1>27. CASE o.advance
  <2>1. PICK y : y = [me EXCEPT !.ready = TRUE, !.synced = @ \/ o.run]
    OBVIOUS
  <2>2. op' = [op EXCEPT ![s] = Idle] /\ syncer' = [syncer EXCEPT ![s] = y]
    BY <1>8, <1>27, <2>1 DEF Done
  <2>3. /\ y.cvr = to /\ y.cache = cr.rows /\ y.pv = x.pv
        /\ y.hydrated = x.hydrated /\ y.state = x.state /\ y.synced = (x.synced \/ o.run)
        /\ y = [me EXCEPT !.ready = TRUE, !.synced = (x.synced \/ o.run)]
    BY <1>24, <2>1 DEF Syncing
  <2>4. y \in Syncing
    <3>1. (x.synced \/ o.run) \in BOOLEAN
      OBVIOUS
    <3>2. PICK b \in BOOLEAN : b = (x.synced \/ o.run)
      BY <3>1
    <3>3. y = [me EXCEPT !.ready = TRUE, !.synced = b]
      BY <2>3, <3>2
    <3> QED
      BY <1>24, <3>3 DEF Syncing
  <2>5. Working(y, Idle, more, log)
    BY <1>11, <1>19, <1>25, <2>3, IdleFacts DEF Working
  <2>6. Current(y, Idle, p, e, more, log)
    <3>1. Pipes(y, more[to].got, to[1], log)
      BY <1>11, <1>19, <2>3 DEF Pipes, Same
    <3> QED
      BY <1>23, <1>25, <2>3, <3>1, IdleFacts DEF Current
  <2>7. Going(y, Idle, p, e, more, log)
    BY <2>5, <2>6 DEF Going
  <2>8. \A c \in Clients : c \in Served(s, o) /\ Less(handler[s][c].base, to) =>
           Leads(o.patches, handler[s][c].base, to, more)
    <3> SUFFICES ASSUME NEW c \in Clients, c \in Served(s, o), Less(handler[s][c].base, to)
                 PROVE  Leads(o.patches, handler[s][c].base, to, more)
      OBVIOUS
    <3>1. PICK h : h = handler[s]
      OBVIOUS
    <3>2. PICK b : b = h[c].base
      OBVIOUS
    <3>3. Poking(h, x, o, used.connects, cvrs)
      BY <1>10, <3>1
    <3>4. b = from \/ (b = NoVersion /\ from = EmptyVersion)
      BY <1>2, <1>8, <1>27, <3>1, <3>2, <3>3 DEF Poking, Served
    <3>5. Shown(o.patches, to, more[from].rows, more[to].rows)
      BY <1>14, <1>19, <1>25
    <3>6. CASE b = from
      <4>1. Leads(o.patches, from, to, more)
        BY <1>13, <1>19, <3>5, ShownLeads
      <4> QED
        BY <3>1, <3>2, <3>6, <4>1
    <3>7. CASE b = NoVersion /\ from = EmptyVersion
      <4>1. o.patches = None
        BY <1>11, <1>27, <3>7
      <4>2. \A r \in Rows : View(more[from].rows)[r] = View(more[to].rows)[r]
        BY <3>5, <4>1 DEF Shown, None
      <4>3. \A r \in Rows : RowsAt(b, more)[r] = View(more[from].rows)[r]
        BY <1>23, <3>7, EmptyView
      <4>4. Leads(o.patches, b, to, more)
        BY <4>1, <4>2, <4>3, NothingLeads
      <4> QED
        BY <3>1, <3>2, <4>4
    <3> QED
      BY <3>4, <3>6, <3>7
  <2>9. /\ handler' = [handler EXCEPT ![s] = handler'[s]]
        /\ handler'[s] \in [Clients -> Handler]
        /\ \A c \in Clients : /\ handler'[s][c].ws = handler[s][c].ws
                              /\ handler'[s][c].ws <= used.connects
                              /\ handler'[s][c].base \in {NoVersion} \cup DOMAIN more
        /\ client' \in [Clients -> Client]
        /\ \A c \in Clients : Seeing(client'[c], more) /\ Observed(client[c], client'[c], more)
    BY <1>8, <1>23, <1>25, <1>27, <2>8, PokeFacts
  <2>10. PICK hs : hs = handler'[s]
    OBVIOUS
  <2>11. Poking(hs, y, Idle, used.connects, more)
    BY <1>10, <2>9, <2>10, PokingIdle
  <2>12. /\ log' = log /\ wants' = wants /\ used' = used /\ Less(db.version, to)
         /\ Grown(cvrs, cvrs', to, cr) /\ Committed(cvrs', to, log)
         /\ db' \in Database /\ db'.version = to /\ Stored(db', cvrs', pending')
         /\ pending' = [t \in Syncers |-> pending'[t]]
         /\ db'.rowsVersion # to => Holds(pending'[s])
         /\ Going(y, Idle, pending'[s], db', cvrs', log)
         /\ hs \in [Clients -> Handler] /\ handler' = [handler EXCEPT ![s] = hs]
         /\ Poking(hs, y, Idle, used.connects, cvrs')
         /\ client' \in [Clients -> Client]
         /\ \A c \in Clients : Seeing(client'[c], cvrs') /\ Observed(client[c], client'[c], cvrs')
    BY <1>3, <1>8, <1>11, <1>16, <1>19, <1>20, <1>21, <1>22, <2>7, <2>9, <2>10, <2>11
  <2> QED
    BY <1>19, <2>2, <2>4, <2>12, WriteStep
<1>28. CASE ~o.advance
  <2>1. PICK u : u = [o EXCEPT !.pc = "catchup"]
    OBVIOUS
  <2>2. op' = [op EXCEPT ![s] = u] /\ syncer' = [syncer EXCEPT ![s] = me]
        /\ client' = client /\ handler' = handler
    <3>1. op = [t \in Syncers |-> op[t]]
      BY <1>10 DEF Kinds
    <3> QED
      BY <1>1, <1>8, <1>28, <2>1, <3>1
  <2>3. /\ DOMAIN u = DOMAIN Idle /\ u.pc = "catchup" /\ u.from = from /\ u.patches = o.patches
        /\ u.adds = o.adds /\ u.pokers = o.pokers /\ u.advance = o.advance /\ u.to = to
    BY <1>2, <1>3, <1>10, <2>1, IdleFacts
  <2>4. Working(me, u, more, log)
    BY <1>11, <1>14, <1>19, <1>24, <1>25, <2>3 DEF Working
  <2>5. Current(me, u, p, e, more, log)
    <3>1. Following(me, u, p, e, more)
      BY <1>19, <1>23, <1>24, <1>25, <2>3 DEF Following, Shown
    <3>2. Pipes(me, more[to].got, to[1], log)
      BY <1>11, <1>19, <1>24 DEF Pipes, Same
    <3> QED
      BY <1>23, <1>24, <1>25, <2>3, <3>1, <3>2 DEF Current
  <2>6. Going(me, u, p, e, more, log)
    BY <2>4, <2>5 DEF Going
  <2>7. PICK hs : hs = handler[s]
    OBVIOUS
  <2>8. Poking(hs, me, u, used.connects, more)
    BY <1>2, <1>10, <1>25, <1>26, <2>3, <2>7 DEF Poking
  <2>9. /\ hs \in [Clients -> Handler] /\ handler' = [handler EXCEPT ![s] = hs]
        /\ client' \in [Clients -> Client]
        /\ \A c \in Clients : Observed(client[c], client'[c], cvrs)
    BY <2>2, <2>7, Unmoved
  <2>10. \A c \in Clients : Seeing(client'[c], cvrs') /\ Observed(client[c], client'[c], cvrs')
    BY <1>16, <1>25, <2>2 DEF Observed
  <2>11. /\ log' = log /\ wants' = wants /\ used' = used /\ Less(db.version, to)
         /\ Grown(cvrs, cvrs', to, cr) /\ Committed(cvrs', to, log)
         /\ db' \in Database /\ db'.version = to /\ Stored(db', cvrs', pending')
         /\ pending' = [t \in Syncers |-> pending'[t]]
         /\ db'.rowsVersion # to => Holds(pending'[s])
         /\ Going(me, u, pending'[s], db', cvrs', log)
         /\ Poking(hs, me, u, used.connects, cvrs')
    BY <1>3, <1>8, <1>11, <1>16, <1>19, <1>20, <1>21, <1>22, <2>6, <2>8
  <2> QED
    BY <1>19, <1>24, <2>2, <2>3, <2>9, <2>10, <2>11, WriteStep
<1> QED
  BY <1>27, <1>28

LEMMA FlushStep ==
    ASSUME IInv, NEW s \in Syncers, Flush(s)
    PROVE  IInv' /\ Kept
BY FlushSkips, FlushWrites


-----------------------------------------------------------------------------
(* #catchupClients. *)

LEMMA OldestFacts ==
    ASSUME IInv, NEW s \in Syncers, NEW v \in DOMAIN cvrs
    PROVE  /\ Oldest(s, v) \in Cookie /\ AtMost(Oldest(s, v), v)
           /\ \A c \in Clients : handler[s][c].ws # 0 => AtMost(Oldest(s, v), handler[s][c].base)
<1>1. PICK bases : bases = {v} \cup {handler[s][c].base : c \in {d \in Clients : handler[s][d].ws # 0}}
  OBVIOUS
<1>2. \A u \in DOMAIN cvrs : u \in Cookie
  BY Parts, CommittedFacts DEF Coherent
<1>3. bases \in SUBSET Cookie /\ bases # {}
  BY <1>1, <1>2, Unmoved DEF Cookie
<1>4. PICK b \in bases : \A w \in bases : AtMost(b, w)
  BY <1>3, LeastVersion
<1>5. Oldest(s, v) = CHOOSE u \in bases : \A w \in bases : AtMost(u, w)
  BY <1>1 DEF Oldest
<1>6. Oldest(s, v) \in bases /\ \A w \in bases : AtMost(Oldest(s, v), w)
  BY <1>4, <1>5
<1> QED
  BY <1>1, <1>3, <1>6

\* What a catchup sends.
Completing(s, x, o, missed, full) ==
    /\ missed = [r \in IF Behind(s, o) THEN CaughtUp(s, o) ELSE {} |->
                    [row |-> Content(s, r), to |-> db.rows[r].patch]]
    /\ full = missed ++ o.patches
    /\ x = syncer[s] /\ o = op[s] /\ o.pc = "catchup"
    /\ Behind(s, o) => ~Flushing(s) /\ db.version = x.cvr

\* Nobody is behind the CVR the operation started from.
LEMMA NobodyBehind ==
    ASSUME IInv, NEW s \in Syncers, NEW x, NEW o, NEW missed, NEW full,
           Completing(s, x, o, missed, full), ~Behind(s, o),
           NEW c \in Clients, c \in DOMAIN o.pokers, handler[s][c].ws = o.pokers[c],
           Less(handler[s][c].base, x.cvr)
    PROVE  Leads(full, handler[s][c].base, x.cvr, cvrs)
<1>0. /\ missed = [r \in {} |-> [row |-> Content(s, r), to |-> db.rows[r].patch]]
      /\ full = missed ++ o.patches
      /\ x = syncer[s] /\ o = op[s] /\ o.pc = "catchup"
  BY DEF Completing
<1>1. PICK from : from = o.from
  OBVIOUS
<1>2. PICK b : b = handler[s][c].base
  OBVIOUS
<1>3. PICK k : k = used.connects
  OBVIOUS
<1>4. /\ Working(x, o, cvrs, log) /\ Poking(handler[s], x, o, k, cvrs) /\ k \in Nat
      /\ Committed(cvrs, db.version, log)
  BY <1>0, <1>3, Parts DEF Going, Coherent
<1>5. /\ from \in DOMAIN cvrs /\ x.cvr \in {from, o.to}
      /\ x.cvr # from => Less(from, o.to) /\ Shown(o.patches, o.to, cvrs[from].rows, cvrs[o.to].rows)
  BY <1>0, <1>1, <1>4 DEF Working
<1>6. /\ b \in {NoVersion} \cup DOMAIN cvrs /\ handler[s][c].ws # 0
      /\ x.cvr # from => AtMost(b, from)
  BY <1>0, <1>1, <1>2, <1>4 DEF Poking
<1>7. from \in Version /\ from \in Cookie /\ from # NoVersion /\ b \in Cookie
  BY <1>4, <1>5, <1>6, CommittedFacts DEF Cookie
<1>8. AtMost(from, b)
  <2>1. PICK oldest : oldest = Oldest(s, from)
    OBVIOUS
  <2>2. oldest \in Cookie /\ AtMost(oldest, b)
    BY <1>2, <1>5, <1>6, <2>1, OldestFacts
  <2>3. ~Less(oldest, from)
    BY <1>1, <2>1 DEF Behind
  <2>4. AtMost(from, oldest)
    BY <1>7, <2>2, <2>3, VersionOrder
  <2> QED
    BY <1>7, <2>2, <2>4, VersionOrder
<1>9. x.cvr # from
  <2>1. ~Less(b, from)
    BY <1>7, <1>8, VersionOrder
  <2> QED
    BY <1>2, <2>1
<1>10. b = from
  <2>1. AtMost(b, from) /\ ~Less(b, from)
    BY <1>6, <1>7, <1>8, <1>9, VersionOrder
  <2> QED
    BY <2>1 DEF AtMost
<1>11. x.cvr = o.to
  BY <1>5, <1>9
<1>12. Shown(full, o.to, cvrs[from].rows, cvrs[o.to].rows)
  <2>1. DOMAIN full = DOMAIN o.patches /\ \A r \in DOMAIN full : full[r] = o.patches[r]
    BY <1>0 DEF ++
  <2> QED
    BY <1>5, <1>9, <2>1 DEF Shown
<1>13. Leads(full, from, o.to, cvrs)
  BY <1>5, <1>7, <1>9, <1>12, ShownLeads
<1> QED
  BY <1>2, <1>10, <1>11, <1>13

\* The CVR has not been modified since, and its rows are in the database.
LEMMA SomebodyBehind ==
    ASSUME IInv, NEW s \in Syncers, NEW x, NEW o, NEW missed, NEW full,
           Completing(s, x, o, missed, full), Behind(s, o),
           NEW c \in Clients, c \in DOMAIN o.pokers, handler[s][c].ws = o.pokers[c],
           Less(handler[s][c].base, x.cvr)
    PROVE  Leads(full, handler[s][c].base, x.cvr, cvrs)
<1>0. /\ missed = [r \in CaughtUp(s, o) |-> [row |-> Content(s, r), to |-> db.rows[r].patch]]
      /\ full = missed ++ o.patches
      /\ x = syncer[s] /\ o = op[s] /\ o.pc = "catchup"
      /\ ~Flushing(s) /\ db.version = x.cvr
  BY DEF Completing
<1>1. PICK from : from = o.from
  OBVIOUS
<1>2. PICK to : to = o.to
  OBVIOUS
<1>3. PICK f : f = x.cvr
  OBVIOUS
<1>4. PICK b : b = handler[s][c].base
  OBVIOUS
<1>5. PICK k : k = used.connects
  OBVIOUS
<1>6. PICK rows : rows = db.rows
  OBVIOUS
<1>7. PICK pv : pv = x.pv
  OBVIOUS
<1>8. PICK patches : patches = o.patches
  OBVIOUS
<1>9. PICK adds : adds = o.adds
  OBVIOUS
<1>10. PICK p : p = pending[s]
  OBVIOUS
<1>11. PICK oldest : oldest = Oldest(s, from)
  OBVIOUS
<1>12. PICK caught : caught = CaughtUp(s, o)
  OBVIOUS
<1>13. /\ Going(x, o, p, db, cvrs, log) /\ Poking(handler[s], x, o, k, cvrs) /\ k \in Nat
       /\ Committed(cvrs, f, log) /\ Stored(db, cvrs, pending)
  BY <1>0, <1>3, <1>5, <1>10, Parts DEF Coherent
<1>14. /\ from \in DOMAIN cvrs /\ f \in {from, to} /\ adds \in SUBSET Queries
       /\ f # from => Less(from, to) /\ Shown(patches, to, cvrs[from].rows, cvrs[to].rows)
  BY <1>0, <1>1, <1>2, <1>3, <1>8, <1>9, <1>13 DEF Going, Working
<1>15. /\ Pipes(x, cvrs[f].got, f[1], log) /\ Following(x, o, p, db, cvrs)
       /\ db.rowsVersion # f => Holds(p)
  BY <1>0, <1>3, <1>13 DEF Going, Current
<1>16. p = NotPending /\ ~Holds(p)
  BY <1>0, <1>10, <1>13 DEF Stored, Holds, Flushing
<1>17. Whole(rows, cvrs, f)
  BY <1>6, <1>13, <1>15, <1>16 DEF Stored
<1>18. \A r \in Rows : (p.rows ++ db.rows)[r] = rows[r]
  BY <1>6, <1>16, <1>17 DEF NotPending, None, ++, Whole
<1>19. /\ \A r \in DOMAIN patches : patches[r].row = View(cvrs[f].rows)[r]
       /\ Hydrated(patches, adds, cvrs[f].rows)
       /\ f # from => \A r \in Rows :
            \/ AtMost(rows[r].patch, from)
            \/ rows[r].patch = to /\ View(cvrs[from].rows)[r] # View(cvrs[to].rows)[r]
  BY <1>1, <1>2, <1>3, <1>8, <1>9, <1>15, <1>18 DEF Following
<1>20. Same(log, f[1], pv, cvrs[f].got)
  BY <1>7, <1>15 DEF Pipes
<1>21. /\ b \in {NoVersion} \cup DOMAIN cvrs /\ handler[s][c].ws # 0
  BY <1>0, <1>4, <1>13 DEF Poking
<1>22. oldest \in Cookie /\ AtMost(oldest, b) /\ Less(b, f)
  BY <1>3, <1>4, <1>11, <1>14, <1>21, OldestFacts
<1>23. caught = {r \in Rows : /\ Less(oldest, rows[r].patch) /\ AtMost(rows[r].patch, from)
                              /\ \A q \in adds : rows[r].refs[q] = 0}
  BY <1>1, <1>6, <1>9, <1>11, <1>12 DEF CaughtUp
<1>24. /\ DOMAIN full = caught \cup DOMAIN patches
       /\ \A r \in caught : full[r] = [row |-> IF Referenced(rows[r]) THEN log[pv][r] ELSE 0,
                                       to |-> rows[r].patch]
       /\ \A r \in DOMAIN patches \ caught : full[r] = patches[r]
  BY <1>0, <1>6, <1>7, <1>8, <1>12 DEF ++, Content
<1>25. Leads(full, b, f, cvrs)
  <2>1. CatchingUp(log, cvrs, f, rows, pv, from, to, patches, adds, oldest, b, caught, full)
    BY <1>13, <1>14, <1>17, <1>19, <1>20, <1>21, <1>22, <1>23, <1>24 DEF CatchingUp
  <2> QED
    BY <2>1, CatchupLeads
<1> QED
  BY <1>3, <1>4, <1>25


LEMMA CatchupStep ==
    ASSUME IInv, NEW s \in Syncers, Catchup(s)
    PROVE  IInv' /\ Kept
<1>1. PICK o : o = op[s]
  OBVIOUS
<1>2. PICK x : x = syncer[s]
  OBVIOUS
<1>3. PICK v : v = x.cvr
  OBVIOUS
<1>4. PICK missed : missed = [r \in IF Behind(s, o) THEN CaughtUp(s, o) ELSE {} |->
                                 [row |-> Content(s, r), to |-> db.rows[r].patch]]
  OBVIOUS
<1>5. PICK live : live = {c \in Served(s, o) : c \in Pokers(s, o.to)}
  OBVIOUS
<1>6. PICK full : full = [o EXCEPT !.patches = missed ++ @, !.pokers = [c \in live |-> o.pokers[c]]]
  OBVIOUS
<1>7. /\ o.pc = "catchup" /\ (Behind(s, o) => ~Flushing(s)) /\ ~CatchupConflict(s, o)
      /\ client' = ClientsAfter(s, full, v) /\ handler' = HandlersAfter(s, full, v)
      /\ Done(s, x, o)
      /\ UNCHANGED <<log, cvrs, db, pending, wants, used>>
  BY <1>1, <1>2, <1>3, <1>4, <1>5, <1>6 DEF Catchup
<1>8. /\ x \in Syncing /\ DOMAIN o = DOMAIN Idle
      /\ Going(x, o, pending[s], db, cvrs, log)
      /\ Committed(cvrs, db.version, log)
      /\ \A c \in Clients : Seeing(client[c], cvrs)
      /\ used.connects \in Nat /\ used \in [connects : Nat, events : Nat]
  BY <1>1, <1>2, Parts DEF Coherent, Kinds
<1>9. /\ v \in DOMAIN cvrs /\ x.pv <= Len(log) /\ x.hydrated = cvrs[v].got
      /\ v = db.version => Current(x, o, pending[s], db, cvrs, log)
  BY <1>3, <1>7, <1>8 DEF Going, Working
<1>10. v = db.version => /\ x.cache = cvrs[db.version].rows \/ (x.cache = None /\ db.rowsVersion = db.version)
                         /\ db.rowsVersion # db.version => Holds(pending[s])
                         /\ Pipes(x, cvrs[v].got, v[1], log)
  BY <1>7, <1>9 DEF Current
<1>11. v # NoVersion
  BY <1>8, <1>9, CommittedFacts
<1>12. PICK y : y = [x EXCEPT !.ready = TRUE, !.synced = @ \/ o.run]
  OBVIOUS
<1>13. op' = [op EXCEPT ![s] = Idle] /\ syncer' = [syncer EXCEPT ![s] = y]
  BY <1>7, <1>12 DEF Done
<1>14. /\ y.cvr = v /\ y.cache = x.cache /\ y.pv = x.pv
       /\ y.hydrated = x.hydrated /\ y.state = x.state
       /\ y = [x EXCEPT !.ready = TRUE, !.synced = (x.synced \/ o.run)]
  BY <1>3, <1>8, <1>12 DEF Syncing
<1>15. y \in Syncing
  <2>1. (x.synced \/ o.run) \in BOOLEAN
    OBVIOUS
  <2>2. PICK b \in BOOLEAN : b = (x.synced \/ o.run)
    BY <2>1
  <2>3. y = [x EXCEPT !.ready = TRUE, !.synced = b]
    BY <1>14, <2>2
  <2> QED
    BY <1>8, <2>3 DEF Syncing
<1>16. Working(y, Idle, cvrs, log)
  BY <1>9, <1>11, <1>14, IdleFacts DEF Working
<1>17. v = db.version => Current(y, Idle, pending[s], db, cvrs, log)
  BY <1>10, <1>14, IdleFacts DEF Current, Pipes
<1>18. Going(y, Idle, pending[s], db, cvrs, log)
  BY <1>14, <1>16, <1>17 DEF Going
<1>19. PICK sent : sent = full.patches
  OBVIOUS
<1>20. sent = missed ++ o.patches /\ full.pokers = [c \in live |-> o.pokers[c]]
  BY <1>6, <1>8, <1>19, IdleFacts
<1>21. Completing(s, x, o, missed, sent)
  <2>1. Behind(s, o) => db.version = x.cvr
    BY <1>2, <1>7 DEF CatchupConflict
  <2> QED
    BY <1>1, <1>2, <1>4, <1>7, <1>20, <2>1 DEF Completing
<1>22. \A c \in Clients : c \in Served(s, full) /\ Less(handler[s][c].base, v) =>
          Leads(full.patches, handler[s][c].base, v, cvrs)
  <2> SUFFICES ASSUME NEW c \in Clients, c \in Served(s, full), Less(handler[s][c].base, v)
               PROVE  Leads(full.patches, handler[s][c].base, v, cvrs)
    OBVIOUS
  <2>1. c \in DOMAIN o.pokers /\ handler[s][c].ws = o.pokers[c]
    BY <1>5, <1>20 DEF Served
  <2>2. Leads(sent, handler[s][c].base, x.cvr, cvrs)
    <3>1. CASE Behind(s, o)
      BY <1>3, <1>21, <2>1, <3>1, SomebodyBehind
    <3>2. CASE ~Behind(s, o)
      BY <1>3, <1>21, <2>1, <3>2, NobodyBehind
    <3> QED
      BY <3>1, <3>2
  <2> QED
    BY <1>3, <1>19, <2>2
<1>23. DOMAIN cvrs \subseteq DOMAIN cvrs
  OBVIOUS
<1>24. /\ handler' = [handler EXCEPT ![s] = handler'[s]]
       /\ handler'[s] \in [Clients -> Handler]
       /\ \A c \in Clients : /\ handler'[s][c].ws = handler[s][c].ws
                             /\ handler'[s][c].ws <= used.connects
                             /\ handler'[s][c].base \in {NoVersion} \cup DOMAIN cvrs
       /\ client' \in [Clients -> Client]
       /\ \A c \in Clients : Seeing(client'[c], cvrs) /\ Observed(client[c], client'[c], cvrs)
  BY <1>7, <1>8, <1>9, <1>22, <1>23, PokeFacts
<1>25. PICK hs : hs = handler'[s]
  OBVIOUS
<1>26. Poking(hs, y, Idle, used.connects, cvrs)
  BY <1>8, <1>24, <1>25, PokingIdle
<1>27. /\ hs \in [Clients -> Handler] /\ handler' = [handler EXCEPT ![s] = hs]
       /\ used' \in [connects : Nat, events : Nat] /\ used'.connects = used.connects
       /\ syncer[s].state = "crashed" => y.state = "crashed"
  BY <1>2, <1>7, <1>8, <1>14, <1>24, <1>25
<1>28. DOMAIN Idle = DOMAIN Idle
  OBVIOUS
<1> QED
  BY <1>7, <1>13, <1>15, <1>18, <1>24, <1>26, <1>27, <1>28, OneStep

-----------------------------------------------------------------------------
(* The specification. *)

LEMMA Initially ==
    ASSUME Init
    PROVE  IInv
<1>1. PICK zero : zero = [r \in Rows |-> 0]
  OBVIOUS
<1>2. /\ Len(log) = 1 /\ log[1] = [r \in Rows |-> 1] /\ log \in Seq([Rows -> Nat])
  BY DEF Init
<1>3. Logged(log)
  BY <1>2, ViewSyncAssumption DEF Logged
<1>4. EmptyVersion \in Version /\ EmptyVersion[1] = 0 /\ EmptyVersion[2] = 0 /\ NoVersion # EmptyVersion
      /\ NoVersion \in Cookie
  BY DEF EmptyVersion, NoVersion, Version, Cookie
<1>5. Absent \in Rec /\ ~Referenced(Absent) /\ \A q \in Queries : Absent.refs[q] = 0
  BY AbsentFacts
<1>6. NoRows \in [Rows -> Rec] /\ \A r \in Rows : NoRows[r] = Absent
  BY <1>5 DEF NoRows
<1>7. db \in Database
  BY <1>4, <1>6 DEF Init, Database
<1>8. Fresh \in Syncing
  BY <1>4 DEF Fresh, Syncing
<1>9. syncer \in [Syncers -> Syncing]
  BY <1>8 DEF Init
<1>10. handler \in [Syncers -> [Clients -> Handler]]
  BY NoHandlerFacts DEF Init
<1>11. client \in [Clients -> Client]
  BY <1>4 DEF Init, Client
<1>12. Kinds
  <2>1. wants \in [Clients -> SUBSET Queries] /\ used \in [connects : Nat, events : Nat]
        /\ op = [s \in Syncers |-> op[s]] /\ pending = [s \in Syncers |-> pending[s]]
        /\ \A s \in Syncers : DOMAIN op[s] = DOMAIN Idle
    BY DEF Init
  <2> QED
    BY <1>3, <1>7, <1>9, <1>10, <1>11, <2>1 DEF Kinds
<1>13. /\ DOMAIN cvrs = {EmptyVersion} /\ cvrs[EmptyVersion].rows = NoRows
       /\ cvrs[EmptyVersion].got = {} /\ cvrs[EmptyVersion].queries = {}
       /\ cvrs[EmptyVersion] = [queries |-> {}, got |-> {}, rows |-> NoRows,
                                desired |-> [c \in Clients |-> Unknown]]
  BY DEF Init
<1>14. Recording(cvrs[EmptyVersion], EmptyVersion, cvrs, log)
  <2>1. cvrs[EmptyVersion] \in Cvr
    BY <1>6, <1>13 DEF Cvr
  <2>2. Exact(NoRows, {}, EmptyVersion[1], log)
    BY <1>5, <1>6 DEF Exact
  <2>3. \A r \in Rows : NoRows[r].patch = EmptyVersion
    BY <1>6 DEF Absent
  <2> QED
    BY <1>4, <1>13, <2>1, <2>2, <2>3 DEF Recording, AtMost
<1>15. Committed(cvrs, db.version, log)
  <2>1. db.version = EmptyVersion
    BY DEF Init
  <2>2. EmptyVersion[1] <= Len(log)
    BY <1>2, <1>4
  <2>3. AtMost(EmptyVersion, EmptyVersion)
    BY DEF AtMost
  <2>4. ASSUME NEW v \in DOMAIN cvrs
        PROVE  /\ v \in Version /\ AtMost(v, EmptyVersion) /\ v[1] <= Len(log)
               /\ Recording(cvrs[v], v, cvrs, log)
    <3>1. v = EmptyVersion
      BY <1>13
    <3> QED
      BY <1>4, <1>14, <2>2, <2>3, <3>1
  <2> QED
    BY <1>13, <2>1, <2>4 DEF Committed
<1>16. Stored(db, cvrs, pending)
  <2>1. db.rows = NoRows /\ db.rowsVersion = EmptyVersion /\ db.version = EmptyVersion
    BY DEF Init
  <2>2. Cached(NoRows) = NoRows
    <3>1. \A r \in Rows : Cached(NoRows)[r] = NoRows[r]
      BY <1>5, <1>6 DEF Cached
    <3> QED
      BY <1>6, <3>1 DEF Cached
  <2>3. Whole(NoRows, cvrs, EmptyVersion)
    <3>1. \A r \in Rows : NoRows[r].patch = EmptyVersion
      BY <1>6 DEF Absent
    <3> QED
      BY <1>6, <1>13, <2>2, <3>1 DEF Whole
  <2>4. \A s \in Syncers : pending[s] = NotPending
    BY DEF Init
  <2>5. ~Holds(NotPending)
    BY DEF Holds, NotPending
  <2> QED
    BY <1>13, <2>1, <2>3, <2>4, <2>5 DEF Stored
<1>17. Lagging(db, pending, syncer)
  BY DEF Init, Lagging
<1>18. ASSUME NEW s \in Syncers
       PROVE  /\ Going(syncer[s], op[s], pending[s], db, cvrs, log)
              /\ Poking(handler[s], syncer[s], op[s], used.connects, cvrs)
  <2>1. syncer[s] = Fresh /\ op[s] = Idle /\ handler[s] = NoHandlers /\ used.connects = 0
    BY DEF Init
  <2>2. Fresh.cvr = NoVersion /\ Fresh.pv = 0
    BY DEF Fresh
  <2>3. Going(Fresh, Idle, pending[s], db, cvrs, log)
    BY <1>2, <1>15, <2>2, GoingNowhere
  <2>4. Poking(NoHandlers, Fresh, Idle, 0, cvrs)
    <3>1. \A c \in Clients : NoHandlers[c].base \in {NoVersion} \cup DOMAIN cvrs /\ NoHandlers[c].ws <= 0
      BY NoHandlerFacts
    <3> QED
      BY <3>1, PokingIdle
  <2> QED
    BY <2>1, <2>3, <2>4
<1>19. \A c \in Clients : Seeing(client[c], cvrs)
  BY DEF Init, Seeing, RowsAt
<1> QED
  BY <1>12, <1>15, <1>16, <1>17, <1>18, <1>19 DEF IInv, Coherent

LEMMA Stuttering ==
    ASSUME IInv, UNCHANGED vars
    PROVE  IInv' /\ Kept
<1>1. /\ log' = log /\ cvrs' = cvrs /\ db' = db /\ syncer' = syncer /\ pending' = pending
      /\ handler' = handler /\ op' = op /\ client' = client /\ wants' = wants /\ used' = used
  BY DEF vars
<1>2. IInv'
  BY <1>1 DEF IInv, Kinds, Coherent, Stored, Lagging
<1>3. Kept
  BY <1>1 DEF Kept, Observed
<1> QED
  BY <1>2, <1>3

\* Each action keeps the invariant and what the clients are promised.
LEMMA EachStep ==
    ASSUME IInv, ~Survivors, [Next]_vars
    PROVE  IInv' /\ Kept
<1>1. CASE Environment
  BY <1>1, ReplicateStep, StopStep, CrashStep, ChangeDesiredStep, ConnectStep DEF Environment
<1>2. CASE Internal
  <2>1. PICK s \in Syncers : \/ Step(s) \/ Claim(s) \/ FlushPending(s)
                             \/ \E c \in Clients : Notice(s, c)
    BY <1>2 DEF Internal
  <2>2. CASE Claim(s) \/ FlushPending(s) \/ \E c \in Clients : Notice(s, c)
    BY <2>2, ClaimStep, FlushPendingStep, NoticeStep
  <2>3. CASE Step(s)
    BY <2>3, RetryLoadStep, LoadFailsStep, RunStep, FlushConfigStep, FlushStep, FlushFailsStep,
       CatchupStep, CatchupFailsStep, ServeStep, RefuseStep DEF Step
  <2> QED
    BY <2>1, <2>2, <2>3
<1>3. CASE UNCHANGED vars
  BY <1>3, Stuttering
<1> QED
  BY <1>1, <1>2, <1>3 DEF Next


LEMMA Invariant ==
    ASSUME ~Survivors
    PROVE  Spec => []IInv
<1>1. Init => IInv
  BY Initially
<1>2. IInv /\ [Next]_vars => IInv'
  BY EachStep
<1> QED
  BY <1>1, <1>2, PTL DEF Spec

\* The rows of a committed CVR and their reference counts are those its got
\* queries select in the replica at its state version, however many syncers,
\* connections, rows and queries there are (cvr.ts received,
\* deleteUnreferencedRows).
THEOREM CvrsAreConsistent ==
    ASSUME ~Survivors
    PROVE  Spec => []CvrIsConsistent
<1>1. IInv => CvrIsConsistent
  <2> SUFFICES ASSUME IInv, NEW v \in DOMAIN cvrs, NEW r \in Rows
               PROVE  LET rec == cvrs[v].rows[r]
                          Selected(q) == q \in cvrs[v].got /\ r \in Selects[q]
                                         /\ v[1] > 0 /\ log[v[1]][r] # 0
                      IN  /\ \A q \in Queries : rec.refs[q] = IF Selected(q) THEN 1 ELSE 0
                          /\ Referenced(rec) => rec.at = log[v[1]][r] /\ AtMost(rec.patch, v)
    BY DEF CvrIsConsistent
  <2>1. Recording(cvrs[v], v, cvrs, log)
    BY Parts, CommittedFacts DEF Coherent
  <2>2. Exact(cvrs[v].rows, cvrs[v].got, v[1], log) /\ AtMost(cvrs[v].rows[r].patch, v)
    BY <2>1 DEF Recording
  <2> QED
    BY <2>2 DEF Exact
<1> QED
  BY <1>1, Invariant, PTL

\* The row records in the database are those of the version they are marked
\* with, whoever flushed them and when (row-record-cache.ts #flush).
THEOREM RowsBelong ==
    ASSUME ~Survivors
    PROVE  Spec => []RowsBelongToVersion
<1>1. IInv => RowsBelongToVersion
  BY Parts DEF Coherent, Stored, Whole, RowsBelongToVersion
<1> QED
  BY <1>1, Invariant, PTL

\* If the rows are behind the CVR, a syncer that is alive has what they lack, or
\* a process died (cvr-store.ts #load, row-record-cache.ts #flush).
THEOREM LaggingRowsAreFlushed ==
    ASSUME ~Survivors
    PROVE  Spec => []LaggingRowsHaveAFlusher
<1>1. IInv => LaggingRowsHaveAFlusher
  BY Parts DEF Coherent, Stored, Lagging, LaggingRowsHaveAFlusher
<1> QED
  BY <1>1, Invariant, PTL

\* Every client has exactly the rows of the CVR its cookie names
\* (client-handler.ts startPoke, #catchupClients).
THEOREM ViewsMatchCookies ==
    ASSUME ~Survivors
    PROVE  Spec => []ViewMatchesCookie
<1>1. IInv => ViewMatchesCookie
  BY Parts DEF Seeing, RowsAt, ViewMatchesCookie
<1> QED
  BY <1>1, Invariant, PTL

-----------------------------------------------------------------------------
(* The types. *)

LEMMA RecordsTyped ==
    ASSUME NEW rows \in [Rows -> Rec], \A r \in Rows : rows[r].patch \in DOMAIN cvrs
    PROVE  rows \in [Rows -> Records]
<1>1. ASSUME NEW r \in Rows
      PROVE  rows[r] \in Records
  BY DEF Rec, Records
<1> QED
  BY <1>1

LEMMA ViewBounded ==
    ASSUME IInv, NEW v \in DOMAIN cvrs
    PROVE  View(cvrs[v].rows) \in [Rows -> 0..Tip]
<1>1. /\ Recording(cvrs[v], v, cvrs, log) /\ v[1] \in Nat /\ v[1] <= Len(log) /\ Logged(log)
  BY Parts, CommittedFacts DEF Coherent, Kinds
<1>2. PICK n : n = v[1]
  OBVIOUS
<1>3. PICK rows : rows = cvrs[v].rows
  OBVIOUS
<1>4. PICK got : got = cvrs[v].got
  OBVIOUS
<1>5. Exact(rows, got, n, log) /\ got \in SUBSET Queries
  BY <1>1, <1>2, <1>3, <1>4 DEF Recording, Cvr
<1>6. Len(log) \in Nat
  BY <1>1 DEF Logged
<1>7. ASSUME NEW r \in Rows
      PROVE  View(rows)[r] \in 0..Tip
  <2>1. CASE Referenced(rows[r])
    <3>1. n > 0 /\ rows[r].at = log[n][r]
      BY <1>5, <2>1, Counted
    <3>2. log[n] \in [Rows -> 0..n]
      BY <1>1, <1>2, <3>1, LoggedFacts
    <3>3. rows[r].at \in 0..n /\ n \in Nat /\ n <= Len(log)
      BY <1>1, <1>2, <3>1, <3>2
    <3>4. View(rows)[r] = rows[r].at
      BY <2>1, CachedFacts
    <3> QED
      BY <1>6, <3>3, <3>4 DEF Tip
  <2>2. CASE ~Referenced(rows[r])
    <3>1. View(rows)[r] = 0
      BY <2>2, CachedFacts
    <3> QED
      BY <1>6, <3>1 DEF Tip
  <2> QED
    BY <2>1, <2>2
<1> QED
  BY <1>3, <1>7 DEF View

\* Every version a handler, a client, a syncer or the database goes by has been
\* committed, and no record counts or dates what the replica has not seen.
THEOREM TypesAreCorrect ==
    ASSUME ~Survivors
    PROVE  Spec => []TypeOK
<1>1. IInv => TypeOK
  <2> SUFFICES ASSUME IInv
               PROVE  TypeOK
    OBVIOUS
  <2>1. /\ Logged(log) /\ Committed(cvrs, db.version, log) /\ Stored(db, cvrs, pending)
        /\ db \in Database /\ MaxVersion \in Nat /\ Tip \in Nat /\ Len(log) <= MaxVersion
        /\ DOMAIN log = 1..Len(log) /\ Tip = Len(log)
    BY Parts, ViewSyncAssumption DEF Coherent, Kinds, Logged, Tip
  <2>2. \A v \in DOMAIN log : log[v] \in [Rows -> 0..v]
    BY <2>1 DEF Logged
  <2>3. ASSUME NEW v \in DOMAIN cvrs
        PROVE  /\ v[1] \in 0..MaxVersion /\ v[2] \in Nat
               /\ cvrs[v].queries \subseteq Queries /\ cvrs[v].got \subseteq cvrs[v].queries
               /\ cvrs[v].rows \in [Rows -> Records]
               /\ \A c \in Clients : cvrs[v].desired[c] = Unknown \/ cvrs[v].desired[c] \subseteq Queries
    <3>1. /\ v \in Version /\ v[1] \in Nat /\ v[1] <= Len(log) /\ Recording(cvrs[v], v, cvrs, log)
          /\ cvrs[v].rows \in [Rows -> Rec]
      BY <2>1, CommittedFacts
    <3>2. /\ cvrs[v] \in Cvr /\ cvrs[v].got \subseteq cvrs[v].queries
          /\ \A r \in Rows : cvrs[v].rows[r].patch \in DOMAIN cvrs
      BY <3>1 DEF Recording
    <3>3. cvrs[v].rows \in [Rows -> Records]
      BY <3>1, <3>2, RecordsTyped
    <3>4. v[1] \in 0..MaxVersion /\ v[2] \in Nat
      BY <2>1, <3>1 DEF Version
    <3> QED
      BY <3>2, <3>3, <3>4 DEF Cvr
  <2>4. {db.version, db.rowsVersion} \subseteq DOMAIN cvrs /\ db.rows \in [Rows -> Records]
    <3>1. db.version \in DOMAIN cvrs
      BY <2>1 DEF Committed
    <3>2. db.rowsVersion \in DOMAIN cvrs /\ db.rows \in [Rows -> Rec]
          /\ \A r \in Rows : db.rows[r].patch \in DOMAIN cvrs
      BY <2>1 DEF Stored, Whole
    <3> QED
      BY <3>1, <3>2, RecordsTyped
  <2>5. ASSUME NEW s \in Syncers
        PROVE  /\ syncer[s].state \in {"none", "up", "stopped", "crashed"}
               /\ syncer[s].cvr \in Versions
               /\ syncer[s].pv \in 0..Tip /\ syncer[s].hydrated \subseteq Queries
               /\ op[s].pc \in {"idle", "config", "flush", "catchup"}
               /\ pending[s].version \in Versions
               /\ \A c \in Clients : /\ handler[s][c].base \in Versions
                                    /\ handler[s][c].msg \in {"none", "init", "change"}
    <3>1. syncer[s] \in Syncing /\ Working(syncer[s], op[s], cvrs, log)
          /\ \A c \in Clients : handler[s][c] \in Handler
      BY Parts DEF Going
    <3>2. pending[s].version \in Versions
      <4>1. Holds(pending[s]) => pending[s].version = db.version
        BY <2>1 DEF Stored
      <4> QED
        BY <2>4, <4>1 DEF Holds, Versions
    <3>3. \A c \in Clients : handler[s][c].base \in Versions
      BY Unmoved DEF Versions
    <3>4. syncer[s].cvr \in Versions /\ syncer[s].pv <= Len(log)
          /\ op[s].pc \in {"idle", "config", "flush", "catchup"}
      BY <3>1 DEF Working, Versions
    <3>5. /\ syncer[s].state \in {"none", "up", "stopped", "crashed"}
          /\ syncer[s].pv \in Nat /\ syncer[s].hydrated \subseteq Queries
      BY <3>1 DEF Syncing
    <3>6. \A c \in Clients : handler[s][c].msg \in {"none", "init", "change"}
      BY <3>1 DEF Handler
    <3> QED
      BY <2>1, <3>2, <3>3, <3>4, <3>5, <3>6
  <2>6. ASSUME NEW c \in Clients
        PROVE  client[c].cookie \in Versions /\ client[c].rows \in [Rows -> 0..Tip]
    <3>1. Seeing(client[c], cvrs)
      BY Parts
    <3>2. CASE client[c].cookie = NoVersion
      BY <2>1, <3>1, <3>2 DEF Seeing, RowsAt, Versions
    <3>3. CASE client[c].cookie # NoVersion
      BY <3>1, <3>3, ViewBounded DEF Seeing, RowsAt, Versions
    <3> QED
      BY <3>2, <3>3
  <2> QED
    BY <2>2, <2>3, <2>4, <2>5, <2>6 DEF TypeOK
<1> QED
  BY <1>1, Invariant, PTL

-----------------------------------------------------------------------------
(* What clients are promised. *)

Seen(k, rows, lost) == [cookie |-> k, rows |-> rows, lost |-> lost]
SeenLost(was) == [was EXCEPT !.lost = TRUE]
SeenLater(was, l, r) == [was EXCEPT !.cookie = l, !.rows = r]

LEMMA SeenLostFacts ==
    ASSUME NEW k, NEW rows, NEW lost, NEW was,
           was = Seen(k, rows, lost), NEW is,
           is = [cookie |-> k, rows |-> rows, lost |-> TRUE]
    PROVE  is = SeenLost(was)
<1>1. /\ DOMAIN is = {"cookie", "rows", "lost"} /\ DOMAIN was = DOMAIN is
      /\ is = [z \in DOMAIN is |-> is[z]]
  BY DEF Seen
<1>2. PICK next : next = [was EXCEPT !.lost = TRUE]
  OBVIOUS
<1>3. DOMAIN next = DOMAIN is /\ next = [z \in DOMAIN next |-> next[z]]
  BY <1>1, <1>2
<1>4. next.cookie = is.cookie /\ next.rows = is.rows /\ next.lost = is.lost
  BY <1>2 DEF Seen
<1>5. \A z \in DOMAIN is : next[z] = is[z]
  BY <1>1, <1>4
<1> QED
  BY <1>1, <1>2, <1>3, <1>5 DEF SeenLost

LEMMA SeenLaterFacts ==
    ASSUME NEW k, NEW rows, NEW lost, NEW was,
           was = Seen(k, rows, lost), NEW l, NEW r, NEW is,
           is = Seen(l, r, lost)
    PROVE  is = SeenLater(was, l, r)
<1>1. /\ DOMAIN is = {"cookie", "rows", "lost"} /\ DOMAIN was = DOMAIN is
      /\ is = [z \in DOMAIN is |-> is[z]]
  BY DEF Seen
<1>2. PICK next : next = [was EXCEPT !.cookie = l, !.rows = r]
  OBVIOUS
<1>3. DOMAIN next = DOMAIN is /\ next = [z \in DOMAIN next |-> next[z]]
  BY <1>1, <1>2
<1>4. next.cookie = is.cookie /\ next.rows = is.rows /\ next.lost = is.lost
  BY <1>2 DEF Seen
<1>5. \A z \in DOMAIN is : next[z] = is[z]
  BY <1>1, <1>4
<1> QED
  BY <1>1, <1>2, <1>3, <1>5 DEF SeenLater

LEMMA PromiseStep ==
    ASSUME IInv, IInv', Kept
    PROVE  Promise!Next
<1>1. PICK views : views = [v \in DOMAIN cvrs |-> View(cvrs[v].rows)]
  OBVIOUS
<1>2. PICK more : more = [v \in DOMAIN cvrs' |-> View(cvrs'[v].rows)]
  OBVIOUS
<1>3. /\ \A u \in DOMAIN cvrs : u \in DOMAIN cvrs' /\ cvrs'[u] = cvrs[u]
      /\ \A u, v \in DOMAIN cvrs' \ DOMAIN cvrs : u = v
      /\ \A u \in DOMAIN cvrs, v \in DOMAIN cvrs' \ DOMAIN cvrs : Less(u, v)
  BY DEF Kept, Grown
<1>4. Promise!Publish
  <2>1. \A u \in DOMAIN views : u \in DOMAIN more /\ more[u] = views[u]
    BY <1>1, <1>2, <1>3
  <2> QED
    BY <1>1, <1>2, <1>3, <2>1 DEF Promise!Publish, Promise!New, Promise!Before, Less
<1>5. ASSUME NEW c \in Clients
      PROVE  Promise!Observe(c)
  <2>1. PICK cl : cl = client[c]
    OBVIOUS
  <2>2. PICK after : after = client'[c]
    OBVIOUS
  <2>3. cl \in Client /\ after \in Client
    BY <2>1, <2>2 DEF IInv, Kinds
  <2>4. Observed(cl, after, cvrs')
    BY <2>1, <2>2 DEF Kept
  <2>5. PICK was : was = [cookie |-> cl.cookie, rows |-> cl.rows, lost |-> cl.lost]
    OBVIOUS
  <2>6. PICK is : is = [cookie |-> after.cookie, rows |-> after.rows, lost |-> after.lost]
    OBVIOUS
  <2>7. \/ is = was
        \/ /\ ~was.lost /\ Less(was.cookie, is.cookie) /\ is.cookie \in DOMAIN more
           /\ is = [was EXCEPT !.cookie = is.cookie, !.rows = more[is.cookie]]
        \/ is = [was EXCEPT !.lost = TRUE]
    <3>1. cl.lost \in BOOLEAN /\ after.lost \in BOOLEAN
      BY <2>3 DEF Client
    <3>2. CASE after.cookie = cl.cookie /\ after.rows = cl.rows /\ after.lost = cl.lost
      BY <2>5, <2>6, <3>2
    <3>3. CASE after.cookie = cl.cookie /\ after.rows = cl.rows /\ after.lost
      <4>1. after.lost = TRUE
        BY <3>1, <3>3
      <4>2. is = [cookie |-> cl.cookie, rows |-> cl.rows, lost |-> TRUE]
        BY <2>6, <3>3, <4>1
      <4>3. is = [was EXCEPT !.lost = TRUE]
        <5>1. was = Seen(cl.cookie, cl.rows, cl.lost)
          BY <2>5 DEF Seen
        <5>2. is = SeenLost(was)
          BY <4>2, <5>1, SeenLostFacts
        <5> QED
          BY <5>2 DEF SeenLost
      <4> QED
        BY <4>3
    <3>4. CASE /\ ~cl.lost /\ after.lost = cl.lost
               /\ Less(cl.cookie, after.cookie) /\ after.cookie \in DOMAIN cvrs'
               /\ after.rows = View(cvrs'[after.cookie].rows)
      <4>1. is.cookie = after.cookie /\ was.cookie = cl.cookie /\ was.lost = cl.lost
        BY <2>5, <2>6
      <4>2. more[is.cookie] = after.rows /\ DOMAIN more = DOMAIN cvrs'
        BY <1>2, <3>4, <4>1
      <4>3. PICK k : k = is.cookie
        OBVIOUS
      <4>4. PICK new : new = more[k]
        OBVIOUS
      <4>5. is = Seen(k, new, cl.lost)
        BY <2>6, <3>4, <4>1, <4>2, <4>3, <4>4 DEF Seen
      <4>6. is = [was EXCEPT !.cookie = k, !.rows = new]
        <5>1. was = Seen(cl.cookie, cl.rows, cl.lost)
          BY <2>5 DEF Seen
        <5>2. is = SeenLater(was, k, new)
          BY <4>5, <5>1, SeenLaterFacts
        <5> QED
          BY <5>2 DEF SeenLater
      <4> QED
        BY <3>4, <4>1, <4>2, <4>3, <4>4, <4>6
    <3> QED
      BY <2>4, <3>2, <3>3, <3>4 DEF Observed
  <2> QED
    BY <1>2, <2>1, <2>2, <2>5, <2>6, <2>7 DEF Promise!Observe, Promise!Before, Less
<1> QED
  BY <1>4, <1>5 DEF Promise!Next

\* The flushes of all syncers make one history of versions, and a client only
\* ever moves forward in it, a whole version at a time, or is told to start over
\* (cvr-store.ts #checkVersionAndOwnership, client-handler.ts startPoke).
THEOREM PromiseKept ==
    ASSUME ~Survivors
    PROVE  Spec => ImplementsClientView
<1>1. Init => Promise!Init
  <2> SUFFICES ASSUME Init
               PROVE  Promise!Init
    OBVIOUS
  <2>1. DOMAIN cvrs = {EmptyVersion} /\ cvrs[EmptyVersion].rows = NoRows
    BY DEF Init
  <2>2. View(NoRows) = [r \in Rows |-> 0]
    BY AbsentFacts DEF View, NoRows
  <2>3. \A c \in Clients : client[c].cookie = NoVersion /\ client[c].rows = [r \in Rows |-> 0]
                           /\ client[c].lost = FALSE
    BY DEF Init
  <2> QED
    BY <2>1, <2>2, <2>3 DEF Promise!Init, Promise!Start, Promise!None, EmptyVersion, NoVersion
<1>2. IInv /\ [Next]_vars => IInv' /\ Promise!Next
  BY EachStep, PromiseStep
<1>3. Init => IInv
  BY Initially
<1> QED
  BY <1>1, <1>2, <1>3, PTL DEF Spec, ImplementsClientView, Promise!Spec

=============================================================================
