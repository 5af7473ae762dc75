SPECIFICATION PlaneSpec
CONSTANTS
  rogue = rogue
  other = other
  Agents = {rogue, other}
  FailClosed = TRUE
  MaxAge = 2
  Delays = {1, 2}
  Timeout = 1
  Sets <- SignedSets
  SignsTwice = TRUE
  MaxTime = 9
  MaxFaults = 1
  MaxCrashes = 2
  Modes = {TRUE, FALSE}
  Notifiers = {TRUE, FALSE}
  Contents = {good, other, broken, undeclared}
  Uncompilable = {broken}
  Undeclared = {undeclared}
  Local = local
  MaxVersion = 2
  PolicyCrashes = 1
CHECK_DEADLOCK FALSE
INVARIANT PlaneIsFollowed
INVARIANT EnforcedIsPersisted
INVARIANT StaleDeniesAll
PROPERTY OnlyANewerSetRestores
PROPERTY FleetConverges
