--------------------------- MODULE MCMutationFlow ---------------------------
(***************************************************************************)
(* A small instance of MutationFlow: one tab makes mutations, the first    *)
(* of which the application rejects, and the other may have to push them.  *)
(***************************************************************************)
EXTENDS MutationFlow

CONSTANT Most

Limits == [c \in Clients |-> IF c = "a" THEN Most ELSE 0]
First == {[client |-> "a", id |-> 1]}

=============================================================================
