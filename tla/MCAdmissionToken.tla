-------------------------- MODULE MCAdmissionToken --------------------------
(* A small instance of AdmissionToken for TLC. *)
EXTENDS AdmissionToken

Descriptor(id, n, from, to, material) ==
  [keyId |-> id, epoch |-> n, activeFrom |-> from, retireAt |-> to, publicKey |-> material]

\* Two keys that overlap, the second for the next epoch.
Old == Descriptor("old", 1, 0, 3, "m1")
New == Descriptor("new", 2, 1, 4, "m2")

\* A signer with other material under a registered id, and one that is refused.
Stray   == Descriptor("new", 2, 0, 4, "m3")
Refused == Descriptor("void", 1, 2, 2, "m4")

MCKeys    == {Old, New}
MCSigners == {Old, New, Stray, Refused}

MCTickets == [t \in {"t1", "t2"} |-> IF t = "t1" THEN "e1" ELSE "e2"]
=============================================================================
