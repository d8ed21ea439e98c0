SPECIFICATION FairStoresSpec
CONSTANTS
  k1 = k1
  k2 = k2
  s1 = s1
  s2 = s2
  c1 = c1
  c2 = c2
  None = None
  Keys <- TwoKeys
  States <- MCStates
  Callers <- TwoCallers
  Ttls <- MCTtls
  Patience = 1
  MaxTime = 5
INVARIANTS
  TypeOK
  LoadsAnswerInTime
PROPERTIES
  ChangesFollowContract
  OverdueAreDeleted
  ImplementsContract
CHECK_DEADLOCK FALSE
