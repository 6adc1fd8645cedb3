--------------------------- MODULE ReplicaHistory ---------------------------
(***************************************************************************)
(* What replication promises: every replica applies the upstream           *)
(* transactions one by one, in order, none missing and none twice, and     *)
(* leaves that history only by being restored from the current backup.     *)
(***************************************************************************)
EXTENDS Naturals

CONSTANTS Replicas, MaxTx

VARIABLES applied,   \* the last transaction each replica has applied
          backup     \* the transaction at which the latest backup was made

vars == <<applied, backup>>

Init ==
    /\ backup \in 0 .. MaxTx
    /\ applied = [r \in Replicas |-> backup]

Apply(r) ==
    /\ applied[r] < MaxTx
    /\ applied' = [applied EXCEPT ![r] = @ + 1]
    /\ UNCHANGED backup

Restore(r) ==
    /\ applied' = [applied EXCEPT ![r] = backup]
    /\ UNCHANGED backup

BackUp ==
    /\ backup' \in backup + 1 .. MaxTx
    /\ UNCHANGED applied

Next ==
    \/ \E r \in Replicas : Apply(r) \/ Restore(r)
    \/ BackUp

Spec == Init /\ [][Next]_vars

============================================================================
