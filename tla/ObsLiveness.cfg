SPECIFICATION FairSpec
CONSTANTS
  prod = prod
  main = main
  extra = extra
  fallback = fallback
  None = None
  Productions = {prod}
  Conns = {main, fallback}
  Owner <- MCOwner
  Default <- MCDefault
  Fallback <- MCFallback
  Urls = {u1}
  Instances = {i1, i2, i3}
  MaxOps = 2
  MaxRestarts = 0
PROPERTY
  RetriesIndefinitely
CHECK_DEADLOCK FALSE
