SPECIFICATION HandlersSpec
CONSTANTS
  r1 = r1
  r2 = r2
  u1 = u1
  None = None
  Missing = Missing
  Broken = Broken
  Bare = Bare
  IsPathAndQuery <- MCIsPathAndQuery
  Unasked = Unasked
  Users <- OneUser
  Permissions <- TestPermissions
  Requests <- TwoRequests
  Characters <- MCCharacters
  Reserved <- MCReserved
  Pages <- MCPages
  LoginUrls <- LoginUrlOfSqlite
  AfterFailure <- Redirecting
  MaxFailures = 2
  Statuses <- MCStatuses
  Bodies <- MCBodies
  ContentTypes <- MCContentTypes
  Names <- MCNames
  Values <- MCValues
  Maps <- MCMaps
  Valid <- MCValid
  Header <- MCHeader
  MaxCalls = 3
INVARIANT NextSurvivesFailure
CHECK_DEADLOCK FALSE
