-------------------------- MODULE MCBackfillStream --------------------------
(***************************************************************************)
(* A small instance of BackfillStream: two names of tables and two of      *)
(* columns.                                                                *)
(***************************************************************************)
EXTENDS BackfillStream

\* One table with one column, which has to be backfilled; the other column
\* and the other table are still to be created.
Schema == [t \in Tables |-> IF t = "t" THEN {Key, "a"} ELSE {}]

Requests == [t \in Tables |-> IF t = "t" THEN {"a"} ELSE {}]

=============================================================================
