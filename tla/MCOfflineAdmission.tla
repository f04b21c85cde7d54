------------------------- MODULE MCOfflineAdmission -------------------------
(* A small instance of OfflineAdmission for TLC. *)
EXTENDS OfflineAdmission

MCOrders == [o \in {"o1"} |-> "e1"]
MCSigningKeys ==
  {[keyId |-> "k1", epoch |-> 1, activeFrom |-> 0, retireAt |-> 2, publicKey |-> "m1"]}
MCScannerKeys ==
  {[scanner |-> n, keyId |-> "key", publicKey |-> "m", activeFrom |-> 0, retireAt |-> 2 + n] :
     n \in {1, 2}}
MCEntitlements == {[ticket |-> "t1", order |-> "o1", event |-> "e1", epoch |-> 1]}
MCTokens ==
  {[id |-> "a", ticket |-> "t1", order |-> "o1", event |-> "e1", epoch |-> 1, keyId |-> "k1",
    issuedAt |-> 0, expiresAt |-> 2]}
MCReceipts ==
  {[id |-> 10 * at + by, ticket |-> "t1", order |-> "o1", event |-> "e1",
    token |-> "a", scanner |-> by, keyId |-> "key", by |-> "m", sequence |-> 1,
    scannedAt |-> at] : by \in {1, 2}, at \in 0..2}
=============================================================================
