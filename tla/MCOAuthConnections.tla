------------------------ MODULE MCOAuthConnections ------------------------
(* Small instances of OAuthConnections for TLC. *)
EXTENDS OAuthConnections, TLC

CONSTANTS l1, l2, c1, c2, i1, i2

\* Logins, callbacks and ids are random names.
LoginSymmetry == Permutations(Logins) \cup Permutations(Callbacks) \cup Permutations(Ids)
=============================================================================
