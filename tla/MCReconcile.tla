---------------------------- MODULE MCReconcile ----------------------------
(* A small instance of Reconcile for TLC. *)
EXTENDS Reconcile

Scan(i, t, at, by, n) == [id |-> i, ticket |-> t, scannedAt |-> at, scanner |-> by, sequence |-> n]

\* Scans of a and one of b: at the same moment by two scanners, by one scanner
\* with one sequence number out of order, and one that only its id tells apart.
MCReceipts == {
  Scan(4, "a", 1, 1, 2), Scan(3, "a", 1, 2, 1), Scan(5, "a", 1, 1, 1),
  Scan(2, "a", 2, 1, 3), Scan(1, "a", 2, 1, 3), Scan(6, "b", 1, 2, 2) }
=============================================================================
