\* A scanner, a token and a revocation, of two tickets for two events; two keys
\* of two epochs that overlap, a stray signer and one that is refused.
SPECIFICATION Spec
CHECK_DEADLOCK FALSE
CONSTANTS
  None = None
  Tokens = {"k1"}
  Tickets <- MCTickets
  Signers <- MCSigners
  Keys <- MCKeys
  Scanners = {"s1"}
  MaxLifetime = 2
  MaxTime = 3
  MaxRevocations = 1
INVARIANTS RevocationReachesDoor RevocationCatchesUp OnlyInKeyWindow GenuineGetsIn
PROPERTIES LetInUntilItEnds
