------------------------- MODULE MCTicketInventory -------------------------
(* Small instances of TicketInventory for TLC. *)
EXTENDS TicketInventory, TLC

CONSTANTS p1, p2, h1, h2, h3

\* Callers and reservations are interchangeable: nothing orders or names them.
InventorySymmetry == Permutations(Configurers) \cup Permutations(Holds)
=============================================================================
