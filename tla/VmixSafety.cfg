SPECIFICATION Spec
CONSTANTS
  None = None
  Productions = {prod}
  Instances = {i1, i2, i3}
  DisconnectAfter = 3
  FailureWindow = 2
  Urls = {u1, u2}
  Programs = {a, b}
  MaxOps = 3
  MaxRestarts = 1
SYMMETRY ObjectSymmetry
INVARIANTS
  TypeOK
  PollingFollowsRow
PROPERTIES
  StateEventsAgree
  ProgramEventsAgree
CHECK_DEADLOCK FALSE
