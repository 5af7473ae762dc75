SPECIFICATION MCSpec
CONSTANTS
  NoOne = NoOne
  Ids = {i1, i2}
  Approvers = {alice, relayName}
  RelayName = relayName
  QuorumArgs = {0, 1, 2, 3}
  k1 = k1
  i1 = i1
  Keys = {k1, k2}
  Quorums = {1, 2}
  MaxPending = 1
  MaxEntries = 1
CHECK_DEADLOCK FALSE
INVARIANT QuorumMet
INVARIANT OnlyHumansRelease
INVARIANT DrainedAreAnswered
PROPERTY ImplementsQuorumDecision
PROPERTY NotIntoTheVoid
PROPERTY EveryAskReturns
