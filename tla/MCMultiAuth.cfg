SPECIFICATION MultiSpec
CONSTANTS
  c1 = c1
  c2 = c2
  r1 = r1
  r2 = r2
  k1 = k1
  k2 = k2
  u1 = u1
  a1 = a1
  a2 = a2
  p1 = p1
  p2 = p2
  w1 = w1
  t1 = t1
  None = None
  Clients <- TwoClients
  Requests <- TwoRequests
  Keys <- TwoKeys
  Users <- OneUser
  Hashes <- MCHashes
  AppData <- Pending
  Attempts <- TwoAttempts
  Pages <- TwoPages
  NextUrl <- MCNextUrl
  Passwords <- OnePassword
  Tokens <- OneToken
CONSTRAINT Bound
SYMMETRY MCSymmetry
INVARIANTS
  TypeOK
  MultiTypeOK
  OnlyOwnAttempts
  RefusedOnlyIfOvertaken
  UserGoesByRow
PROPERTY LandsOnOwnPage
