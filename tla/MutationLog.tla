---------------------------- MODULE MutationLog ----------------------------
(***************************************************************************)
(* What a client group is promised of its mutations: each client numbers   *)
(* the mutations it makes, and the upstream database takes them in that    *)
(* order, each of them once, either applied or set aside with an error.    *)
(* zero-protocol/src/push.ts, zero-cache/src/services/mutagen/pusher.ts.   *)
(***************************************************************************)
EXTENDS Naturals, Sequences

CONSTANT Clients

VARIABLES
    made,  \* how many mutations each client has made
    log    \* what was committed

vars == <<made, log>>

Init == made = [c \in Clients |-> 0] /\ log = << >>

Make(c) == made' = [made EXCEPT ![c] = @ + 1] /\ UNCHANGED log

Committed(c) == {i \in DOMAIN log : log[i].client = c}

\* The next mutation of a client, and no other, is committed.
Commit(c) ==
    \E id \in 1 .. made[c], res \in {"applied", "failed"} :
        /\ {log[i].id : i \in Committed(c)} = 1 .. (id - 1)
        /\ log' = Append(log, [client |-> c, id |-> id, res |-> res])
        /\ UNCHANGED made

Next == \E c \in Clients : Make(c) \/ Commit(c)

Spec == Init /\ [][Next]_vars

=============================================================================
