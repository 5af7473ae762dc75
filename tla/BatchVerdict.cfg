SPECIFICATION MCSpec
CONSTANTS
  read = read
  merge = merge
  main = main
  fork = fork
  Actions = {read, merge}
  Targets = {main, fork}
  Contents = {c1}
  Policies <- AllPolicies
  MaxBatch = 2
  MaxRemembered = 1
  Grants = {g1, g2}
  Windows = {w1}
  Scopes <- MergeOnly
  Ttl = 1
  MaxActive = 1
  ApprovalTtl = 1
  Calls = {k1}
  MaxClock = 3
CHECK_DEADLOCK FALSE
INVARIANT NoLaundering
INVARIANT ExplainFollowsDispatch
INVARIANT PermitsAreScoped
