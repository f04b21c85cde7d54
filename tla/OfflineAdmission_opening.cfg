\* Two doors, one ticket, three moments; one call to the server at a time.
SPECIFICATION OpeningSpec
CHECK_DEADLOCK FALSE
CONSTANTS
  None = None
  Calls = {1}
  OrderEvent <- MCOrders
  SigningKeys <- MCSigningKeys
  ScannerKeys <- MCScannerKeys
  Entitlements <- MCEntitlements
  Tokens <- MCTokens
  Receipts <- MCReceipts
  MaxLifetime = 2
  MaxTime = 2
INVARIANTS DoorAndServerAgree FirstEntryCounts StaleEntryIsFound
