SPECIFICATION Spec
CONSTANTS
  None = None
  Productions = {p1}
  Clients = {c1}
  FormStatuses <- EveryStatus
  MaxRequests = 4
PROPERTY TransitionsAreListed
CHECK_DEADLOCK FALSE
