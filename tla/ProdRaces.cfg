SPECIFICATION Spec
CONSTANTS
  None = None
  Productions = {p1, p2}
  Clients = {c1, c2}
  FormStatuses = {}
  MaxRequests = 5
SYMMETRY ClientSymmetry
INVARIANT TypeOK
PROPERTY WritesGoWrongOnlyWhenStale
CHECK_DEADLOCK FALSE
