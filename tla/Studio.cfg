\* The components share model values, so that one group of symmetries serves all of them.
SPECIFICATION StudioSpec
CONSTANTS
  None = None
  Destinations = {d1}
  Egresses = {e1, e2}
  Clients = {t1, t2, c1}
  Ticks = {t1, t2}
  Schedules = {s1}
  MaxRequests = 4
  MaxFailures = 1
  Hubs = {h1}
  Targets = {b1, b2}
  Processes = {f1, f2, f3, f4}
  MaxHubRequests = 3
  NoObject = NoObject
  Objects = {i1, i2}
  MasterInputs = {"Desktop Audio", "Mic/Aux"}
  FirstInput = "Desktop Audio"
  MaxChanges = 2
  MaxRejected = 1
  Guests = {e1, e2}
  GuestRequests = {t1, t2}
  NoSlot = None
  MaxGuestRequests = 4
  MaxGuestFailures = 1
  Overlays = {e1, e2}
  Scores = {0, 1}
  Updates = {t1, t2}
  Seeds = {t1, t2}
  NoOverlay = None
  MaxScoreChanges = 4
  MaxScoreFailures = 1
SYMMETRY Anonymous
INVARIANTS
  StudioTypeOK
  SendersAreHeld
  MirrorIsCurrent
  PollingFollowsConnection
  SlotsAreKept
  ScoreIsShown
PROPERTIES
  SchedulesActOnce
CHECK_DEADLOCK FALSE
