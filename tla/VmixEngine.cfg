SPECIFICATION HFairSpec
CONSTANTS
  None = None
  Productions = {prod}
  Instances = {i1, i2, i3}
  DisconnectAfter = 3
  FailureWindow = 2
  Urls = {u1, u2}
  Programs = {a}
  MaxOps = 2
  MaxRestarts = 0
PROPERTIES
  LossIsSustained
  EngineIsReflected
CHECK_DEADLOCK FALSE
