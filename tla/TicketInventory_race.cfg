\* A reduction of the capacity races with a reservation.
SPECIFICATION Spec
CHECK_DEADLOCK FALSE
CONSTANTS
  p1 = p1
  p2 = p2
  h1 = h1
  h2 = h2
  h3 = h3
  None = None
  Configurers = {p1}
  Holds = {h1, h2}
  Classes = {"general"}
  MaxCapacity = 2
  MaxTime = 1
PROPERTIES CapacityCoversStock
