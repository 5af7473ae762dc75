------------------------------ MODULE Delegation ------------------------------
(* Attenuated sub-tokens: delegate/store.ts, the POST /delegate handler of     *)
(* proxy/server.ts, the operator's mint of proxy/console.ts, and the           *)
(* resolution of a presented token to a principal in proxy/auth.ts.            *)
(*                                                                             *)
(* A mint is asynchronous twice: the handler authenticates, checks the         *)
(* kill-switch and the capacity, awaits the request's body, clamps the         *)
(* lifetime to the parent's, and awaits the hash of the new token before the   *)
(* grant is stored. Revocations, other mints and the clock move in between.    *)
(*                                                                             *)
(* Globs are the finite sets they match: a scope is a set of actions and a set *)
(* of targets. The store persists inside the call that changes it, so its file *)
(* is not a variable of its own: a restart keeps the records and drops the     *)
(* expired ones. Decoys, the fleet set, the wrong listener and body errors     *)
(* refuse a mint and change nothing here; they are left out.                   *)
EXTENDS Naturals, FiniteSets

CONSTANTS
  Agents,     \* ids of configured agents
  Grants,     \* ids of delegations
  Requests,   \* mints in flight at once
  Actions, Targets,
  Scopes,     \* the scopes a mint may ask for: [actions, targets]
  Confs,      \* the entries an agent may have in grenz.yaml
  Policy,     \* profile -> the actions its policy allows
  MaxDepth,   \* MAX_DEPTH
  MaxActive,  \* MAX_ACTIVE
  MaxTtl,     \* MAX_TTL_SECONDS
  Horizon,    \* bound on the clock
  None, Gone, Never

DepthAssumption == MaxDepth \in Nat \ {0}
CapAssumption == MaxActive \in Nat \ {0} /\ MaxTtl \in Nat \ {0} /\ IsFiniteSet(Requests)

Ids == Agents \cup Grants
Times == 0 .. Horizon + MaxTtl
Profiles == DOMAIN Policy
Scope == [actions : SUBSET Actions, targets : SUBSET Targets]
Conf == [profile : Profiles, actions : SUBSET Actions, targets : SUBSET Targets,
         expires : Times \cup {Never}]
ConfAssumption == Confs \subseteq Conf /\ Horizon \in Nat /\ None \notin Grants
Grant == [root : Agents, parent : Grants \cup {None}, profile : Profiles,
          scope : Scope, expires : Times]
Mint == [root : Agents, parent : Grants \cup {None}, profile : Profiles]

VARIABLES
  agents,   \* the live AgentStore: id -> its entry, or Gone
  byId,     \* DelegationStore.byId: id -> record
  revoked,  \* ids in the kill-switch store
  now,
  req,      \* mints in flight
  line      \* history: id -> every id it descends from, itself and the root agent included
vars == <<agents, byId, revoked, now, req, line>>

Idle == [step |-> "idle"]

TypeOK ==
  /\ agents \in [Agents -> Conf \cup {Gone}]
  /\ DOMAIN byId \subseteq Grants /\ \A g \in DOMAIN byId : byId[g] \in Grant
  /\ revoked \subseteq Ids
  /\ now \in 0 .. Horizon
  /\ \A r \in Requests :
       \/ req[r] = Idle
       \/ req[r].step = "body" /\ req[r].mint \in Mint
       \/ req[r].step = "hash" /\ req[r].grant \in Grant
  /\ DOMAIN byId \subseteq DOMAIN line
  /\ \A g \in DOMAIN line : line[g] \subseteq Ids

-------------------------------------------------------------------------------
(* Resolution of a token. *)

\* The n-th ancestor of a grant, None past the grant an agent minted and past
\* a record that is no longer stored.
Up(g) ==
  LET up[n \in 0 .. MaxDepth] ==
        IF n = 0 THEN g
        ELSE IF up[n - 1] \in DOMAIN byId THEN byId[up[n - 1]].parent ELSE None
  IN  up

Hops(g) == {Up(g)[n] : n \in 0 .. MaxDepth - 1} \ {None}

Present(g) == g \in DOMAIN byId /\ byId[g].expires > now

\* chainById: null when the chain is longer than the cap, or a hop of it is
\* missing or expired.
ChainById(g) ==
  IF Up(g)[MaxDepth] = None /\ \A h \in Hops(g) : Present(h) THEN Hops(g) ELSE {}

\* Faulty variant: any configured root will do, expired or not.
AgentConfigured(a) == agents[a] # Gone

AgentLives(a) ==
  agents[a] # Gone /\ ~(agents[a].expires # Never /\ agents[a].expires <= now)

\* resolvePrincipal for a sub-token: the chain resolves and its root agent is
\* still configured and unexpired.
Resolves(g) == ChainById(g) # {} /\ AgentLives(byId[g].root)

TopOf(chain) == CHOOSE h \in chain : byId[h].parent = None

\* Faulty variant: only the presented token's own id and its root are looked up.
CutOffLeafOnly(g) == {g, byId[g].root} \cap revoked # {}

\* The kill-switch of dispatch: the root agent and every hop.
CutOff(g) == byId[g].root \in revoked \/ ChainById(g) \cap revoked # {}

Accepted(g) == Resolves(g) /\ ~CutOff(g)
AgentAccepted(a) == AgentLives(a) /\ a \notin revoked

\* An agent's scope: an axis that lists nothing is unrestricted.
WithinAgent(a, x, t) ==
  /\ agents[a].actions = {} \/ x \in agents[a].actions
  /\ agents[a].targets = {} \/ t \in agents[a].targets

\* A hop's scope: its actions always constrain, its targets only when listed.
WithinHop(h, x, t) ==
  /\ x \in byId[h].scope.actions
  /\ byId[h].scope.targets = {} \/ t \in byId[h].scope.targets

\* Faulty variant: only the presented grant's scope is matched.
ReachOfLeaf(g) ==
  {xt \in Actions \X Targets :
     /\ WithinAgent(byId[g].root, xt[1], xt[2])
     /\ WithinHop(g, xt[1], xt[2])
     /\ xt[1] \in Policy[byId[TopOf(ChainById(g))].profile]}

\* The fold of dispatch, and the policy of the snapshotted profile.
Reach(g) ==
  {xt \in Actions \X Targets :
     /\ WithinAgent(byId[g].root, xt[1], xt[2])
     /\ \A h \in ChainById(g) : WithinHop(h, xt[1], xt[2])
     /\ xt[1] \in Policy[byId[TopOf(ChainById(g))].profile]}

AgentReach(a) ==
  {xt \in Actions \X Targets :
     WithinAgent(a, xt[1], xt[2]) /\ xt[1] \in Policy[agents[a].profile]}

\* Faulty variant: the capacity is not enforced.
AtCapacityIgnored == FALSE

AtCapacity == Cardinality({g \in DOMAIN byId : byId[g].expires > now}) >= MaxActive

-------------------------------------------------------------------------------
(* The mint. *)

Init ==
  /\ agents \in [Agents -> Confs]
  /\ byId = << >>
  /\ revoked = {}
  /\ now = 0
  /\ req = [r \in Requests |-> Idle]
  /\ line = << >>

Await(r, mint) ==
  req' = [req EXCEPT ![r] = [step |-> "body", mint |-> mint]]

\* POST /delegate up to the await of the body: an agent's own token.
AuthAgent(r) ==
  /\ req[r] = Idle
  /\ \E a \in Agents :
       /\ AgentAccepted(a)
       /\ ~AtCapacity
       /\ Await(r, [root |-> a, parent |-> None, profile |-> agents[a].profile])
  /\ UNCHANGED <<agents, byId, revoked, now, line>>

\* The same with a sub-token: refused at the depth cap. The profile is the one
\* its root grant carries, not the agent's of today.
AuthGrant(r) ==
  /\ req[r] = Idle
  /\ \E g \in DOMAIN byId :
       /\ Accepted(g)
       /\ Cardinality(ChainById(g)) < MaxDepth
       /\ ~AtCapacity
       /\ Await(r, [root |-> byId[g].root, parent |-> g,
                    profile |-> byId[TopOf(ChainById(g))].profile])
  /\ UNCHANGED <<agents, byId, revoked, now, line>>

\* Faulty variant: no clamp.
ExpiryUnclamped(parent, ttl) == now + ttl

\* The lifetime a child gets: what it asked for, clamped to its parent's.
Expiry(parent, ttl) ==
  IF parent # None /\ byId[parent].expires < now + ttl
  THEN byId[parent].expires ELSE now + ttl

Hash(r, mint, scope, expires) ==
  req' = [req EXCEPT ![r] =
            [step |-> "hash",
             grant |-> [root |-> mint.root, parent |-> mint.parent,
                        profile |-> mint.profile, scope |-> scope, expires |-> expires]]]

\* The body has been read. Nothing is authenticated again: only the parent has
\* to be there and to have time left.
Body(r) ==
  /\ req[r].step = "body"
  /\ LET m == req[r].mint IN
       IF m.parent # None /\ ~Present(m.parent)
       THEN req' = [req EXCEPT ![r] = Idle]
       ELSE \E s \in Scopes, ttl \in 1 .. MaxTtl : Hash(r, m, s, Expiry(m.parent, ttl))
  /\ UNCHANGED <<agents, byId, revoked, now, line>>

\* The operator's mint: the kill-switch is not consulted, nor is the expiry of
\* the agent it is for.
AdminMint(r) ==
  /\ req[r] = Idle
  /\ ~AtCapacity
  /\ \E a \in Agents, s \in Scopes, ttl \in 1 .. MaxTtl :
       /\ agents[a] # Gone
       /\ Hash(r, [root |-> a, parent |-> None, profile |-> agents[a].profile], s, now + ttl)
  /\ UNCHANGED <<agents, byId, revoked, now, line>>

Lineage(g, grant) ==
  {g, grant.root} \cup (IF grant.parent = None THEN {} ELSE line[grant.parent])

\* The token is hashed: the record is stored and persisted under a fresh id.
Store(r) ==
  /\ req[r].step = "hash"
  /\ \E g \in Grants \ DOMAIN line :
       LET grant == req[r].grant IN
         /\ byId' = [h \in DOMAIN byId \cup {g} |-> IF h = g THEN grant ELSE byId[h]]
         /\ line' = [h \in DOMAIN line \cup {g} |->
                       IF h = g THEN Lineage(g, grant) ELSE line[h]]
  /\ req' = [req EXCEPT ![r] = Idle]
  /\ UNCHANGED <<agents, revoked, now>>

-------------------------------------------------------------------------------
(* The rest of the world. *)

\* revoke and restore of the kill-switch store; a grant is known once minted.
Revoke ==
  /\ \E i \in (Agents \cup DOMAIN line) \ revoked : revoked' = revoked \cup {i}
  /\ UNCHANGED <<agents, byId, now, req, line>>

Restore ==
  /\ \E i \in revoked : revoked' = revoked \ {i}
  /\ UNCHANGED <<agents, byId, now, req, line>>

\* POST /console/agents: a new agent is live at once; an id in use is refused.
AddAgent ==
  /\ \E a \in Agents, c \in Confs :
       agents[a] = Gone /\ agents' = [agents EXCEPT ![a] = c]
  /\ UNCHANGED <<byId, revoked, now, req, line>>

\* purgeExpired, called by `grenz run` and by nothing else.
Unexpired == {g \in DOMAIN byId : byId[g].expires > now}

\* The proxy stops and starts, on a grenz.yaml that may have been edited.
\* Requests in flight die with it.
Restart ==
  /\ agents' \in [Agents -> Confs \cup {Gone}]
  /\ byId' = [g \in Unexpired |-> byId[g]]
  /\ req' = [r \in Requests |-> Idle]
  /\ UNCHANGED <<revoked, now, line>>

Tick ==
  /\ now < Horizon
  /\ now' = now + 1
  /\ UNCHANGED <<agents, byId, revoked, req, line>>

Next ==
  \/ \E r \in Requests : AuthAgent(r) \/ AuthGrant(r) \/ Body(r) \/ AdminMint(r) \/ Store(r)
  \/ Revoke \/ Restore \/ AddAgent \/ Restart \/ Tick

Spec == Init /\ [][Next]_vars

-------------------------------------------------------------------------------
(* Properties. *)

\* A grant that has not expired always resolves, as far as its chain goes: the
\* clamp keeps every ancestor alive for as long as it, the purge never takes an
\* ancestor from under it, and the cap refuses a mint one hop too deep rather
\* than handing out a token that can never work.
NoDeadBranch ==
  \A g \in DOMAIN byId : byId[g].expires > now => ChainById(g) # {}

\* A sub-token is never accepted after its root agent or any grant it descends
\* from was cut off, whatever has been purged or restarted since, and whatever
\* was in flight when the operator acted.
CascadeHolds ==
  \A g \in DOMAIN byId : Accepted(g) => line[g] \cap revoked = {}

\* Attenuation: what a sub-token reaches, the grant it was minted under reaches
\* too, and with that grant refused it is refused.
NarrowerThanItsParent ==
  \A g \in DOMAIN byId :
    byId[g].parent # None /\ Accepted(g) =>
      /\ Accepted(byId[g].parent)
      /\ Reach(g) \subseteq Reach(byId[g].parent)

\* What a sub-token reaches is within the scope its agent is configured with
\* now; an agent that was deleted or has expired has no children.
WithinItsAgent ==
  \A g \in DOMAIN byId :
    Accepted(g) =>
      /\ agents[byId[g].root] \in {c \in Confs : c.expires = Never \/ c.expires > now}
      /\ \A xt \in Reach(g) : WithinAgent(byId[g].root, xt[1], xt[2])

\* The capacity is checked before two awaits: mints in flight together can
\* pass it together, and by no more than that.
LiveIsBounded ==
  Cardinality({g \in DOMAIN byId : byId[g].expires > now})
    <= MaxActive + Cardinality(Requests) - 1

\* What a document or a comment says and the code does not do: README.md, section 4.

\* delegate/store.ts:11-13, "a child can never gain an action the parent lacks".
NeverMoreThanTheAgent ==
  \A g \in DOMAIN byId : Accepted(g) => Reach(g) \subseteq AgentReach(byId[g].root)

\* delegate/store.ts:33, MAX_ACTIVE "bounds memory/disk".
StoreIsBounded == Cardinality(DOMAIN byId) <= MaxActive

\* console.ts:731, the `revoked` flag of the delegations list, and the operator
\* reading it: a grant listed as not revoked is not cut off.
ShownRevoked(g) == g \in revoked \/ byId[g].root \in revoked
ListIsHonest ==
  \A g \in DOMAIN byId : byId[g].expires > now /\ ~ShownRevoked(g) => ~CutOff(g)
===============================================================================
