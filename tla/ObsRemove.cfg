SPECIFICATION Spec
CONSTANTS
  prod = prod
  main = main
  extra = extra
  fallback = fallback
  None = None
  Productions = {prod}
  Conns = {main, extra, fallback}
  Owner <- MCOwner
  Default <- MCDefault
  Fallback <- MCFallback
  Urls = {u1}
  Instances = {i1, i2, i3}
  MaxOps = 3
  MaxRestarts = 1
PROPERTY
  RemoveKeepsOthers
CHECK_DEADLOCK FALSE
