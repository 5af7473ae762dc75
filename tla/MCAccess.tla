------------------------------- MODULE MCAccess -------------------------------
(* Who may act: the operators' tokens (AdminTokens) and the sub-tokens agents hand on          *)
(* (Delegation).  They are two stores that share nothing, so a course is of one or of the     *)
(* other.                                                                                      *)
EXTENDS AdminTokens, TLC

CONSTANTS
  Agents, Grants, Requests, Actions, Targets, Scopes, Confs, Policy,
  MaxDepth, MaxActive, MaxTtl, Horizon, None, Gone, Never

VARIABLES
  subject,  \* what this course is of: "operators" or "agents"
  agents, byId, revoked, now, req, line

grantVars == <<agents, byId, revoked, now, req, line>>

D == INSTANCE Delegation

ASSUME DepthIsSound == D!DepthAssumption
ASSUME CapIsSound == D!CapAssumption
ASSUME ConfsAreSound == D!ConfAssumption

ThePolicy == [wide |-> {"read", "merge"}, narrow |-> {"read"}]

Entry(p, xs, ts, e) == [profile |-> p, actions |-> xs, targets |-> ts, expires |-> e]

\* One profile for good: only scope and expiry vary, over a restart.
SteadyConfs ==
  {Entry("wide", {}, {}, Never), Entry("wide", {"read"}, {"acme"}, 1)}

TheScopes ==
  {[actions |-> {"read"}, targets |-> {}],
   [actions |-> {"read", "merge"}, targets |-> {"acme"}]}

\* Which id a grant gets, and which of two requests is which, make no difference.
Perms == Permutations(Grants) \cup Permutations(Requests)

AccessInit ==
  /\ Init /\ D!Init
  /\ \/ subject = "agents"
     \/ subject = "operators" /\ agents = [a \in Agents |-> Entry("wide", {}, {}, Never)]

OfOperators(A) == subject = "operators" /\ A /\ UNCHANGED <<subject, grantVars>>
OfAgents(A) == subject = "agents" /\ A /\ UNCHANGED <<subject, vars>>

AccessSpec ==
  AccessInit /\ [][OfOperators(Next) \/ OfAgents(D!Next)]_<<subject, vars, grantVars>>

\* What an operator was told about a token holds, whatever the disk refuses and over
\* restarts; and a quorum needs as many tokens.
TokensAreHonoured == RevokedStaysOut /\ IssuedWorks /\ QuorumNeedsTokens

\* The attenuation of a sub-token: cut off with whatever it descends from, and never wider
\* than its parent or than its agent's scope of today; and how many there can be.
AttenuationHolds ==
  /\ D!CascadeHolds
  /\ D!NarrowerThanItsParent
  /\ D!WithinItsAgent
  /\ D!LiveIsBounded

\* NoDeadBranch of Delegation.
GrantsLiveOut == D!NoDeadBranch
===============================================================================
