SPECIFICATION MCSpec
CONSTANTS
  r1 = r1
  u1 = u1
  p1 = p1
  p2 = p2
  None = None
  Missing = Missing
  Users <- OneUser
  Permissions <- TwoPermissions
  Requests <- OneRequest
  Routes <- MCRoutes
INVARIANTS TypeOK StatusTellsWhy PassedAreEntitled RefusedLackPermissions
PROPERTY RequestsAreAnswered
