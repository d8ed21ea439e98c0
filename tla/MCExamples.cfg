SPECIFICATION ExamplesSpec
CONSTANTS
  c1 = c1
  r1 = r1
  r2 = r2
  k1 = k1
  k2 = k2
  k3 = k3
  ferris = ferris
  admin = admin
  users = users
  superusers = superusers
  w1 = w1
  w2 = w2
  m1 = m1
  m2 = m2
  None = None
  Clients <- OneClient
  Requests <- TwoRequests
  Keys <- ThreeKeys
  Users <- TwoUsers
  Hashes <- TwoPasswords
  AppData <- TwoMessages
  Groups <- MCGroups
  Joined <- MCJoined
  Granted <- MCGranted
  MaxChanges = 2
  Watched = "restricted"
SYMMETRY MCSymmetry
INVARIANTS
  TypeOK
  FlashTypeOK
  ServedToMembers
  SettledIsGone
PROPERTIES
  PageImplementsRequire
  SilentRequestsKeepSessions
CHECK_DEADLOCK FALSE
