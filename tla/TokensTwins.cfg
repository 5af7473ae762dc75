SPECIFICATION AccessSpec
CONSTANTS
  Boot = Boot
  Bootstrap = Bootstrap
  Secrets = {k1, k2}
  Names = {alice}
  Calls = {c1, c2}
  Quorum = 2
  Nobody = Nobody
  MaxFaults = 1
  MaxRestarts = 2
  Agents = {ag}
  Grants = {g1, g2, g3, g4}
  Requests = {r1, r2}
  Actions = {"read", "merge"}
  Targets = {"acme", "beta"}
  Scopes <- TheScopes
  Confs <- SteadyConfs
  Policy <- ThePolicy
  MaxDepth = 2
  MaxActive = 2
  MaxTtl = 2
  Horizon = 1
  None = None
  Gone = Gone
  Never = Never
CHECK_DEADLOCK FALSE
INVARIANT OneLivePerName
