-------------------------- MODULE MCClientViewSync --------------------------
(***************************************************************************)
(* A small instance of ClientViewSync: each syncer on a task of its own.   *)
(***************************************************************************)
EXTENDS ClientViewSync, TLC

CONSTANTS s1, s2

Tasks == [s \in Syncers |-> s]

\* The first query selects every row, the others one of them.
Select == [q \in Queries |-> IF q = "q1" THEN Rows ELSE {CHOOSE r \in Rows : TRUE}]

Symmetry == Permutations(Syncers)

=============================================================================
