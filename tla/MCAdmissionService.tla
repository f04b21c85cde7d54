------------------------- MODULE MCAdmissionService -------------------------
(* Small instances of AdmissionService for TLC. *)
EXTENDS AdmissionService

MCOrders == [o \in {"o1"} |-> "e1"]

Signing(id, n, from, to, material) ==
  [keyId |-> id, epoch |-> n, activeFrom |-> from, retireAt |-> to, publicKey |-> material]
Scanner(n, to, material) ==
  [scanner |-> n, keyId |-> "key", publicKey |-> material, activeFrom |-> 0, retireAt |-> to]
Entitlement(t, o, n) == [ticket |-> t, order |-> o, event |-> "e1", epoch |-> n]
Token(id, t, from, to) ==
  [id |-> id, ticket |-> t, order |-> "o1", event |-> "e1", epoch |-> 1, keyId |-> "k1",
   issuedAt |-> from, expiresAt |-> to]
Scan(id, t, k, by, n, at) ==
  [id |-> id, ticket |-> t, order |-> "o1", event |-> "e1", token |-> k, scanner |-> by,
   keyId |-> "key", by |-> "m", sequence |-> n, scannedAt |-> at]

\* A key id bound twice; an entitlement of another epoch for the same ticket; a
\* token id for two periods, the longer outlasting the key.
MCSigningKeys  == {Signing("k1", 1, 0, 2, "m1"), Signing("k1", 1, 0, 3, "m1")}
MCScannerKeys  == {Scanner(1, 2, "m"), Scanner(2, 3, "m")}
MCEntitlements == {Entitlement("t1", "o1", 1), Entitlement("t1", "o1", 2)}
MCTokens       == {Token("a", "t1", 0, 2), Token("a", "t1", 0, 3)}
\* Two scanners at one moment, one of them again, later and with the same number.
MCReceipts     == {Scan(1, "t1", "a", 2, 1, 0), Scan(2, "t1", "a", 1, 1, 0),
                   Scan(3, "t1", "a", 2, 1, 2), Scan(4, "t2", "a", 1, 2, 1)}
=============================================================================
