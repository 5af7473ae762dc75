SPECIFICATION MCSpec
CONSTANTS
  agent = agent
  sub = sub
  decoy = decoy
  r1 = r1
  r2 = r2
  r3 = r3
  Nobody = Nobody
  Requests = {r1, r2, r3}
  Agents = {agent}
  Subs = {sub}
  Decoys = {decoy}
  Costs = {1, 2}
  MaxInFlight = 2
  Revocable = {agent, sub, decoy}
  RootOf <- SubOfAgent
  Policies <- AllPolicies
  Sent <- AllRequests
CHECK_DEADLOCK FALSE
INVARIANT LogIsHonest
INVARIANT PerformedAsDecided
INVARIANT OvershootIsBounded
INVARIANT RefusalsHold
