\* Every sequence of up to five arrivals of six receipts.
SPECIFICATION Spec
CHECK_DEADLOCK FALSE
CONSTANTS
  Receipts <- MCReceipts
  MaxArrivals = 5
INVARIANTS OrderIsIrrelevant
PROPERTIES ReviewIsFinal
