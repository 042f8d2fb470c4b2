SPECIFICATION Spec
CONSTANTS
  None = None
  Destinations = {d1, d2}
  Egresses = {e1, e2, e3}
  Clients = {c1, c2}
  MaxRequests = 4
  MaxFailures = 1
SYMMETRY Anonymous
INVARIANT TypeOK
PROPERTIES
  EgressStaysOwned
CHECK_DEADLOCK FALSE
