SPECIFICATION Spec
CONSTANTS
  Proxies = {p1, p2}
  Overlap = TRUE
  Deaths = TRUE
  None = None
  Dead = Dead
  Regular = Regular
INVARIANTS
  AdminReachesServer
