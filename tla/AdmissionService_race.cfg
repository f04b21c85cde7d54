\* Two calls at a time.
SPECIFICATION Spec
CHECK_DEADLOCK FALSE
CONSTANTS
  None = None
  Calls = {1, 2}
  OrderEvent <- MCOrders
  SigningKeys <- MCSigningKeys
  ScannerKeys <- MCScannerKeys
  Entitlements <- MCEntitlements
  Tokens <- MCTokens
  Receipts <- MCReceipts
INVARIANTS OkMeansStored AcceptedIsCovered
PROPERTIES ImplementsAdmissionLedger
