\* The components share model values, so that one group of symmetries serves all of them.
SPECIFICATION RoomSpec
CONSTANTS
  u1 = u1
  Users = {u1}
  Productions = {b1, b2}
  Sockets = {s1, s2, s3}
  UserOf <- MCUserOf
  None = None
  MaxMessages = 2
  Emails = {a1, a2}
  AdminEmail = a1
  AccountRequests = {b1, b2}
  NoAccount = None
  MaxAccountRequests = 3
  MaxAccountFailures = 1
  Sessions = {s1, s2, s3}
  SignInRequests = {b1, b2}
  NoSession = None
  MaxLoginAttempts = 2
  MaxSignIns = 6
  ChatSockets = {s1, s2, s3}
  ConnectRuns = {b1, b2}
  NoSocket = None
  MaxLinks = 4
  MaxLosses = 1
  Comments = {m1, m2}
  Polls = {k1, k2}
  WallRequests = {b1, b2}
  NoComment = None
  MaxWall = 5
  Names = {n1, n2, n3}
  Defaults = {n1, n2}
  Readers = {b1, b2}
  Crew = {c1}
  Commands = {m1, m2}
  MaxTemplates = 2
  MaxIntercom = 3
  Recordings = {s1, s2, s3}
  CallRequests = {b1, b2}
  NoCall = None
  MaxCallRequests = 6
  MaxCallFailures = 1
  Posts = {m1, m2}
  PinRequests = {b1, b2}
  NoPost = None
  MaxChats = 5
  MaxChatFailures = 1
SYMMETRY Anonymous
INVARIANTS
  RoomTypeOK
  AccountsAgree
  SignInAgrees
  OneChatConnection
  WallAgrees
  TemplatesAreSeeded
  RecordingStaysOwned
  PinsAreToggled
PROPERTIES
  ChangesAreBroadcast
  RosterIsKept
CHECK_DEADLOCK FALSE
