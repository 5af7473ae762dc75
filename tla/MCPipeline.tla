------------------------------ MODULE MCPipeline ------------------------------
(* Instances of RequestPipeline: one root agent with a sub-token and one     *)
(* decoy.  The proxy runs in one of a few scenarios, chosen at the start and *)
(* kept: which policies may be in force, which requests its clients have,    *)
(* what anybody revokes, and whether it was started with --shadow.  Each     *)
(* scenario is small in all but one direction.                               *)
EXTENDS RequestPipeline, TLC

CONSTANTS agent, sub, decoy, r1, r2, r3

VARIABLE scenario

SubOfAgent == sub :> agent

Policy(verdict, dlp, trips, limit) == [verdict |-> verdict, dlp |-> dlp, trips |-> trips, limit |-> limit]

\* Every decision and DLP setting, and both tripwire modes, under a limit nobody reaches.
GatingPolicies ==
  {Policy("allow", "require_approval", "no", 9), Policy("require_approval", "require_approval", "no", 9),
   Policy("require_approval", "deny", "no", 9), Policy("deny", "off", "no", 9),
   Policy("allow", "off", "cascade", 9), Policy("allow", "off", "leaf", 9)}

\* One prompt for the action and one for its body, then a wire.
CrossingPolicies ==
  {Policy("require_approval", "require_approval", "no", 9), Policy("allow", "off", "cascade", 9)}

\* A tight limit, with a human in between.
BudgetPolicies == {Policy("require_approval", "off", "no", 2)}

\* The same limit under --shadow, which waives one of two verdicts and not the limit.
ObservedPolicies == {Policy("allow", "off", "no", 2), Policy("deny", "off", "no", 2)}

AllPolicies == GatingPolicies \union CrossingPolicies \union BudgetPolicies \union ObservedPolicies

\* Proper requests only, with or without a secret.
ProperRequests == {q \in Request : q.to = "real" /\ q.who \in {agent, sub}}

\* Only the agent's own requests, none with a secret.
PlainRequests == {q \in ProperRequests : ~q.secret /\ q.who = agent}

\* A request with a secret, and one at the decoy upstream.
CrossingRequests ==
  {q \in Request : q.who \in {agent, sub} /\ ((q.to = "real" /\ q.secret) \/ (q.to = "decoy" /\ ~q.secret))}

AllRequests == Request

Scenarios ==
  { \* one request of any kind against every gate, the environment moving at each await
    [policies |-> GatingPolicies, requests |-> {r1}, sent |-> {q \in Request : q.cost = 1},
     revocable |-> {agent, sub, decoy}, shadow |-> FALSE],
    \* two requests that cross a tripwire, a decoy and two prompts
    [policies |-> CrossingPolicies, requests |-> {r1, r2}, sent |-> {q \in CrossingRequests : q.cost = 1},
     revocable |-> {agent}, shadow |-> FALSE],
    \* the same two clients under --shadow
    [policies |-> CrossingPolicies, requests |-> {r1, r2}, sent |-> {q \in ProperRequests : q.cost = 1},
     revocable |-> {agent}, shadow |-> TRUE],
    \* three requests of different cost under a tight budget
    [policies |-> BudgetPolicies, requests |-> {r1, r2, r3}, sent |-> PlainRequests,
     revocable |-> {}, shadow |-> FALSE],
    \* two of them under --shadow, waived or allowed, and one limit
    [policies |-> ObservedPolicies, requests |-> {r1, r2}, sent |-> PlainRequests,
     revocable |-> {}, shadow |-> TRUE] }

MCInit ==
  /\ Init
  /\ scenario \in Scenarios
  /\ policy \in scenario.policies
  /\ shadow = scenario.shadow

MCNext ==
  /\ UNCHANGED scenario
  /\ Happens(scenario.requests, scenario.sent, scenario.revocable, scenario.policies)

MCSpec == MCInit /\ [][MCNext]_<<vars, scenario>>
=============================================================================
