CONSTANTS
  m1 = m1
  m2 = m2
  c1 = c1
  c2 = c2
  r1 = r1
  r2 = r2
  None = None
  Models <- TwoModels
  Default = m1
  MaxLoaded = 1
  Clients <- TwoClients
  Requests <- TwoRequests
  MaxSessions = 2
  MaxIds <- Ids
  MaxLoads <- Loadings
SPECIFICATION Spec
SYMMETRY Symmetry
CHECK_DEADLOCK FALSE
INVARIANT KeysUnique
