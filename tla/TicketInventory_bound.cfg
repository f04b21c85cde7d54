\* How far the event can be oversold.
SPECIFICATION Spec
CHECK_DEADLOCK FALSE
CONSTANTS
  p1 = p1
  p2 = p2
  h1 = h1
  h2 = h2
  h3 = h3
  None = None
  Configurers = {p1, p2}
  Holds = {h1, h2}
  Classes = {"general"}
  MaxCapacity = 3
  MaxTime = 1
SYMMETRY InventorySymmetry
INVARIANTS OversoldOnlyByLate
