SPECIFICATION Spec
CONSTANTS
  c1 = c1
  c2 = c2
  r1 = r1
  r2 = r2
  r3 = r3
  k1 = k1
  k2 = k2
  k3 = k3
  u1 = u1
  u2 = u2
  h1 = h1
  h2 = h2
  a1 = a1
  None = None
  Clients <- OneClient
  Requests <- TwoRequests
  Keys <- TwoKeys
  Users <- OneUser
  Hashes <- TwoHashes
  AppData <- NoValue
  OnEveryRequest = TRUE
PROPERTY LoginIsKept
