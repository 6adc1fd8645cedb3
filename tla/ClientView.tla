----------------------------- MODULE ClientView -----------------------------
(***************************************************************************)
(* What a client group is promised.  Its view is published in versions of  *)
(* ever higher number and a published version never changes.  A client     *)
(* moves from a version it has to a later one in a single step, so that    *)
(* its rows are always those of exactly one version, or it is told to      *)
(* start over.  zero-protocol/src/poke.ts.                                 *)
(***************************************************************************)
EXTENDS Integers

CONSTANT Clients

VARIABLES
    views,  \* the rows of each published version
    seen    \* the version and the rows each client has

vars == <<views, seen>>

None == <<-1, 0>>
Start == <<0, 0>>
Before(u, v) == u[1] < v[1] \/ (u[1] = v[1] /\ u[2] < v[2])

Init ==
    /\ DOMAIN views = {Start}
    /\ \A c \in Clients : seen[c] = [cookie |-> None, rows |-> views[Start], lost |-> FALSE]

New == DOMAIN views' \ DOMAIN views

\* At most one version is added, after all others.
Publish ==
    /\ \A u \in DOMAIN views : u \in DOMAIN views' /\ views'[u] = views[u]
    /\ \A u, v \in New : u = v
    /\ \A u \in DOMAIN views, v \in New : Before(u, v)

\* A client takes a later version as a whole, or drops what it has for good.
Observe(c) ==
    \/ seen'[c] = seen[c]
    \/ /\ ~seen[c].lost
       /\ Before(seen[c].cookie, seen'[c].cookie)
       /\ seen'[c].cookie \in DOMAIN views'
       /\ seen'[c] = [seen[c] EXCEPT !.cookie = seen'[c].cookie,
                                     !.rows = views'[seen'[c].cookie]]
    \/ seen'[c] = [seen[c] EXCEPT !.lost = TRUE]

Next == Publish /\ \A c \in Clients : Observe(c)

Spec == Init /\ [][Next]_vars

=============================================================================
