SPECIFICATION HostSpec
CONSTANTS
  Proxies = {p1, p2, p3}
  Overlap = FALSE
  Deaths = TRUE
  None = None
  Dead = Dead
  Regular = Regular
  Agents = {a, b, c}
  Proxy = Proxy
  Commands = {k1, k2}
  Torn = Torn
  KillInodes = {1, 2, 3, 4, 5}
  bot = bot
  new = new
  Ids = {bot, new}
  Ups = {hub}
  Clis = {c1, c2}
  Mints = {m1, m2}
  OrgKey = OrgKey
  OtherKey = OtherKey
  ConfigInodes = {1, 2, 3, 4, 5}
  Callers = {q1, q2}
  Values = {v1, v2}
  Absent = Absent
  Failed = Failed
  Ttl = 2
  Timeout = 1
  Horizon = 4
  MinInterval = 1
  MaxInterval = 3
  MinLifetime = 3
  MaxLifetime = 5
  MaxFailures = 2
  Offers = {0, 2, 6}
  LastSecond = 9
  Watched = {a}
  Keys = {read, write}
  MaxKeys = 1
  RiskWindow = 1
  PerDenial = 15
  DenialCap = 40
  RateFrom = 2
  RateBonus = 20
  DistinctFrom = 2
  PerDistinct = 5
  ElevatedAt = 25
  HighAt = 60
  LastTick = 3
  MaxRequests = 2
  MaxBytes = {1, 3}
  ChunkSizes = {1, 2, 4}
  MaxBody = 6
CHECK_DEADLOCK FALSE
INVARIANT AdminReachesServer
INVARIANT WordIsKept
INVARIANT FileIsKept
INVARIANT ConnectIsSafe
INVARIANT WatchersAreHonest
INVARIANT IntakeIsBounded
PROPERTY NoneWaitsForEver
