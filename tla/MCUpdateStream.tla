--------------------------- MODULE MCUpdateStream ---------------------------
(* Small instances of UpdateStream for TLC. *)
EXTENDS UpdateStream

\* Ann listens to events, of which the second is bob's, or to a job of either.
MCUsers  == [r \in Readers |-> "ann"]
MCOwners == [m \in Messages |-> IF m = 2 THEN "bob" ELSE "ann"]
=============================================================================
