SPECIFICATION MCSpec
CONSTANTS
  p1 = p1

  b1 = b1
  b2 = b2
  None = None
  Productions = {p1, p2}
  Blocks = {b1, b2}
  ProductionOf <- MCProductionOf
  Durations = {1}
  Clients = {c1, c2}
  MaxRequests = 2
  MaxTime = 1
  Rules = {r1}
  RuleForms <- MCRuleForms
  RuleOwner <- MCRuleOwner
  Ticks = {t1, t2}
  Keys = {k1}
  InstantClip = InstantClip
SYMMETRY Anonymous
INVARIANTS
  TypeOK
  OneActiveBlock
  ChangesAreAnnounced
PROPERTY DueTriggersRunOnce
CHECK_DEADLOCK FALSE
