--------------------------- MODULE RequestPipeline ---------------------------
(***************************************************************************)
(* proxy/server.ts dispatch(): one request to /u/<upstream>/..., from its  *)
(* token to its log row.  Code between two awaits is one action; the       *)
(* awaits are resolvePrincipal (hashing), the body, the approval gate, the *)
(* vault and the upstream's answer, and at each of them other requests,    *)
(* `grenz revoke`, a policy swap or a disconnect may come in between.      *)
(*                                                                         *)
(* A policy is what the request meets when policyFor() selects it: the     *)
(* decision once the engine, grants and dynamic gates have spoken, the     *)
(* tripwire, the hourly limit and the DLP setting.  The approval gate is   *)
(* its own module (ApprovalGate); here a held request gets a yes or a no.  *)
(* All requests fall into one budget window.                               *)
(***************************************************************************)
EXTENDS Naturals, FiniteSets, FiniteSetsExt

CONSTANTS
  Requests,
  Agents,       \* configured agents that hold real tokens
  Subs,         \* delegated sub-tokens
  Decoys,       \* agents declared `decoy: true`
  Nobody,       \* a token that resolves to no principal
  RootOf,       \* [Subs -> Agents]: the root agent of a sub-token's chain
  Policies,     \* what policyFor() may select
  Costs,        \* billable: the summed cost of a request's actions
  Sent,         \* the requests clients send
  Revocable,    \* the ids an operator or the fleet revokes
  MaxInFlight   \* requests the agents have open at once (a bound on clients)

Decisions == {"allow", "deny", "require_approval"}
Snapshot == [verdict : Decisions, dlp : {"off", "require_approval", "deny"}, trips : {"no", "leaf", "cascade"}, limit : Nat]

VARIABLES
  pc,        \* [Requests -> where dispatch() is]
  req,       \* [Requests -> the request]
  seen,      \* [Requests -> the policy it selected]
  row,       \* [Requests -> its log row, or NoRow]
  wire,      \* [Requests -> the reason the client is told]
  gone,      \* requests whose client disconnected
  revoked,   \* the local kill-switch
  fleet,     \* the signed fleet set
  stale,     \* revocationDistribution.staleClosed
  policy,    \* what policyFor() selects now
  yes,       \* [Requests -> the prompts a human said yes to]
  performed, \* requests the upstream has carried out
  cutOff,    \* history: requests cut off ever since they arrived
  shadow     \* --shadow, given when the process was started

environment == <<revoked, fleet, stale, policy, cutOff, shadow>>
vars == <<pc, req, seen, row, wire, gone, yes, performed, environment>>

Tokens == Agents \union Subs \union Decoys \union {Nobody}
Nodes == Agents \union Subs \union Decoys

Request == [who : Tokens, to : {"real", "decoy", "none"}, secret : BOOLEAN, cost : Costs]

\* No token is of two kinds: each resolves to one principal, and a decoy is an agent of its own.
ASSUME PipelineAssumption ==
  /\ RootOf \in [Subs -> Agents]
  /\ Agents \intersect Subs = {} /\ Decoys \intersect (Agents \union Subs) = {}
  /\ Nobody \notin Nodes
  /\ Policies \subseteq Snapshot
  /\ Costs \subseteq Nat
  /\ Sent \subseteq Request
  /\ Revocable \subseteq Nodes

\* What a sum over the log needs: finitely many requests and costs, and a bound on open ones.
ASSUME LogAssumption == IsFiniteSet(Requests) /\ IsFiniteSet(Costs) /\ MaxInFlight \in Nat

Row == [decision : Decisions, forwarded : BOOLEAN, count : Nat]
NoRow == [decision |-> "none", forwarded |-> FALSE, count |-> 0]
NoPolicy == [verdict |-> "deny", dlp |-> "off", trips |-> "no", limit |-> 0]
NoRequest == [who |-> Nobody, to |-> "none", secret |-> FALSE, cost |-> 0]

\* principal.agentId, and the ids a revocation of which cuts the principal off.
Root(who) == IF who \in Subs THEN RootOf[who] ELSE who
Chain(who) == {who, Root(who)}

InFlight == {r \in Requests : pc[r] \notin {"unsent", "done"}}

TypeOK ==
  /\ pc \in [Requests -> {"unsent", "authenticating", "reading", "held", "held_dlp",
                          "vault", "forwarding", "done"}]
  /\ req \in [Requests -> Request \union {NoRequest}]
  /\ row \in [Requests -> Row \union {NoRow}]
  /\ gone \subseteq Requests
  /\ revoked \subseteq Nodes
  /\ fleet \subseteq Nodes
  /\ stale \in BOOLEAN
  /\ yes \in [Requests -> SUBSET {"policy", "dlp"}]
  /\ performed \subseteq Requests
  /\ shadow \in BOOLEAN

Init ==
  /\ pc = [r \in Requests |-> "unsent"]
  /\ req = [r \in Requests |-> NoRequest]
  /\ policy \in Policies
  /\ seen = [r \in Requests |-> NoPolicy]
  /\ row = [r \in Requests |-> NoRow]
  /\ wire = [r \in Requests |-> "none"]
  /\ yes = [r \in Requests |-> {}]
  /\ gone = {} /\ revoked = {} /\ fleet = {} /\ stale = FALSE
  /\ performed = {} /\ cutOff = {}
  /\ shadow \in BOOLEAN

-----------------------------------------------------------------------------
\* The two revocation stores, consulted and never merged.

\* The kill-switch consulting only the ids revoked here.
CutLocally(who, localIds, fleetIds) == Chain(who) \intersect localIds # {}

Cut(who, localIds, fleetIds) == Chain(who) \intersect (localIds \union fleetIds) # {}

StillCut(localIds, fleetIds) == {r \in cutOff : Chain(req[r].who) \intersect (localIds \union fleetIds) # {}}

Revoke(id) ==
  /\ id \notin revoked
  /\ revoked' = revoked \union {id}
  /\ UNCHANGED <<pc, req, seen, row, wire, gone, yes, performed, fleet, stale, policy, cutOff, shadow>>

Restore(id) ==
  /\ id \in revoked
  /\ revoked' = revoked \ {id}
  /\ cutOff' = StillCut(revoked', fleet)
  /\ UNCHANGED <<pc, req, seen, row, wire, gone, yes, performed, fleet, stale, policy, shadow>>

\* A verified pull replaces the fleet set and lifts the stale state.
ReplaceFleet(ids) ==
  /\ fleet' = ids
  /\ stale' = FALSE
  /\ cutOff' = StillCut(revoked, ids)
  /\ <<fleet', stale'>> # <<fleet, stale>>
  /\ UNCHANGED <<pc, req, seen, row, wire, gone, yes, performed, revoked, policy, shadow>>

FleetGoesStale ==
  /\ ~stale
  /\ stale' = TRUE
  /\ UNCHANGED <<pc, req, seen, row, wire, gone, yes, performed, revoked, fleet, policy, cutOff, shadow>>

\* A reload, or the closed slot taken or left.
SwapPolicy(p) ==
  /\ p # policy
  /\ policy' = p
  /\ UNCHANGED <<pc, req, seen, row, wire, gone, yes, performed, revoked, fleet, stale, cutOff, shadow>>

-----------------------------------------------------------------------------
\* Arrival, authentication, kill-switch, routing.

Arrive(r, q) ==
  /\ pc[r] = "unsent"
  /\ Cardinality(InFlight) < MaxInFlight
  /\ pc' = [pc EXCEPT ![r] = "authenticating"]
  /\ req' = [req EXCEPT ![r] = q]
  /\ cutOff' = IF Chain(q.who) \intersect (revoked \union fleet) # {} THEN cutOff \union {r} ELSE cutOff
  /\ UNCHANGED <<seen, row, wire, gone, yes, performed, revoked, fleet, stale, policy, shadow>>

\* deny(): one row, nothing forwarded, nothing billed.
Deny(r, decision, wireReason) ==
  /\ pc' = [pc EXCEPT ![r] = "done"]
  /\ row' = [row EXCEPT ![r] = [decision |-> decision, forwarded |-> FALSE, count |-> 0]]
  /\ wire' = [wire EXCEPT ![r] = wireReason]
  /\ UNCHANGED <<req, gone, performed>>

NoPrincipal(r) ==
  /\ pc[r] = "authenticating" /\ req[r].who = Nobody
  /\ Deny(r, "deny", "invalid_token")
  /\ UNCHANGED <<seen, yes, environment>>

\* A decoy token that is caught by the kill-switch once it has tripped.
TouchDecoyTokenAfterKillSwitch(r) ==
  /\ pc[r] = "authenticating" /\ req[r].who \in Decoys
  /\ Deny(r, "deny", IF req[r].who \in revoked THEN "token_revoked" ELSE "invalid_token")
  /\ revoked' = revoked \union {req[r].who}
  /\ UNCHANGED <<seen, yes, fleet, stale, policy, cutOff, shadow>>

\* The decoy token, ahead of the kill-switch: revoked on first touch, masked for ever.
TouchDecoyToken(r) ==
  /\ pc[r] = "authenticating" /\ req[r].who \in Decoys
  /\ Deny(r, "deny", "invalid_token")
  /\ revoked' = revoked \union {req[r].who}
  /\ UNCHANGED <<seen, yes, fleet, stale, policy, cutOff, shadow>>

Identified(r) == pc[r] = "authenticating" /\ req[r].who \in Agents \union Subs

KillSwitch(r) ==
  /\ Identified(r)
  /\ Cut(req[r].who, revoked, fleet) \/ stale
  /\ Deny(r, "deny", IF Cut(req[r].who, revoked, fleet) THEN "token_revoked" ELSE "revocation_stale")
  /\ UNCHANGED <<seen, yes, environment>>

PassesKillSwitch(r) == Identified(r) /\ ~Cut(req[r].who, revoked, fleet) /\ ~stale

\* The wrong listener, or an upstream that is not configured.
Misrouted(r) ==
  /\ PassesKillSwitch(r) /\ req[r].to = "none"
  /\ Deny(r, "deny", "unknown_upstream")
  /\ UNCHANGED <<seen, yes, environment>>

\* The decoy upstream cascades: the root of whoever touched it is revoked.
TouchDecoyUpstream(r) ==
  /\ PassesKillSwitch(r) /\ req[r].to = "decoy"
  /\ Deny(r, "deny", "no_matching_allow")
  /\ revoked' = revoked \union {Root(req[r].who)}
  /\ UNCHANGED <<seen, yes, fleet, stale, policy, cutOff, shadow>>

Admit(r) ==
  /\ PassesKillSwitch(r) /\ req[r].to = "real"
  /\ pc' = [pc EXCEPT ![r] = "reading"]
  /\ UNCHANGED <<req, seen, row, wire, gone, yes, performed, environment>>

-----------------------------------------------------------------------------
\* The verdict, once the body is there.

\* countAllowedSince() over the rows of the root agent.
Spent(root) ==
  MapThenSumSet(LAMBDA r : row[r].count,
                {r \in Requests : row[r].decision = "allow" /\ Root(req[r].who) = root})

\* A limit on requests where it should be one on their cost.
WithinBudgetUnweighted(r, p) == Spent(Root(req[r].who)) + 1 <= p.limit

WithinBudget(r, p) == Spent(Root(req[r].who)) + req[r].cost <= p.limit

\* The client is lost while the body is read: handle() answers 500 and logs nothing.
BodyFails(r) ==
  /\ pc[r] = "reading" /\ r \in gone
  /\ pc' = [pc EXCEPT ![r] = "done"]
  /\ wire' = [wire EXCEPT ![r] = "internal_error"]
  /\ UNCHANGED <<req, seen, row, gone, yes, performed, environment>>

\* The request maps to no action, is beyond its agent's or delegation's scope, or its
\* profile is not known: refused before the policy is looked at, --shadow or not.
OutOfScope(r) ==
  /\ pc[r] = "reading"
  /\ Deny(r, "deny", "out_of_scope")
  /\ UNCHANGED <<seen, yes, environment>>

Sees(r) == pc[r] = "reading" /\ seen' = [seen EXCEPT ![r] = policy]

\* A tripwire's mere attempt revokes the root, or the leaf token with on_trip: leaf.
Trip(r) ==
  /\ Sees(r)
  /\ policy.trips # "no"
  /\ Deny(r, "deny", "tripwire")
  /\ revoked' = revoked \union {IF policy.trips = "leaf" THEN req[r].who ELSE Root(req[r].who)}
  /\ UNCHANGED <<yes, fleet, stale, policy, cutOff, shadow>>

Refuse(r) ==
  /\ Sees(r)
  /\ policy.trips = "no" /\ policy.verdict = "deny" /\ ~shadow
  /\ Deny(r, "deny", "denied")
  /\ UNCHANGED <<yes, environment>>

\* The budget gate: before a prompt is raised, and again once the verdict is a yes.
BudgetGate(r, p) == WithinBudget(r, p)

OverBudget(r, p) == ~BudgetGate(r, p) /\ Deny(r, "deny", "budget_exceeded")

\* Body inspection left out in shadow mode.
NeedsSecondPromptEnforced(r, p) == ~shadow /\ req[r].secret /\ p.dlp = "require_approval"

NeedsSecondPrompt(r, p) == req[r].secret /\ p.dlp = "require_approval"

SecretDenied(r, p) == req[r].secret /\ p.dlp = "deny"

MoveTo(r, stage) ==
  /\ pc' = [pc EXCEPT ![r] = stage]
  /\ UNCHANGED <<req, row, wire, gone, performed>>

\* The egress guard: to the vault only if the URL resolves to the configured origin.
ToVault(r) == MoveTo(r, "vault") \/ Deny(r, "deny", "egress_blocked")

\* From a yes to the vault: budget, body inspection, egress.
Cleared(r, p) ==
  \/ OverBudget(r, p)
  \/ BudgetGate(r, p) /\ SecretDenied(r, p) /\ Deny(r, "deny", "dlp_secret_detected")
  \/ /\ BudgetGate(r, p) /\ ~SecretDenied(r, p)
     /\ IF NeedsSecondPrompt(r, p) THEN MoveTo(r, "held_dlp") ELSE ToVault(r)

Allowed(r) ==
  /\ Sees(r)
  /\ policy.trips = "no" /\ (policy.verdict = "allow" \/ shadow)
  /\ UNCHANGED <<yes, environment>>
  /\ Cleared(r, policy)

\* Over budget now is denied at once; otherwise the request is held for a human.
Hold(r) ==
  /\ Sees(r)
  /\ policy.trips = "no" /\ policy.verdict = "require_approval" /\ ~shadow
  /\ UNCHANGED <<yes, environment>>
  /\ OverBudget(r, policy) \/ (BudgetGate(r, policy) /\ MoveTo(r, "held"))

-----------------------------------------------------------------------------
\* After the gate: approval, vault, upstream, log row.

GateSaysNo(r) ==
  /\ pc[r] \in {"held", "held_dlp"}
  /\ Deny(r, "deny", "approval_denied")
  /\ UNCHANGED <<seen, yes, environment>>

\* A yes that finds its client gone is turned into a no by the gate (NotIntoTheVoid).
PolicyApproved(r) ==
  /\ pc[r] = "held" /\ r \notin gone
  /\ yes' = [yes EXCEPT ![r] = @ \union {"policy"}]
  /\ UNCHANGED <<seen, environment>>
  /\ Cleared(r, seen[r])

SecretApproved(r) ==
  /\ pc[r] = "held_dlp" /\ r \notin gone
  /\ yes' = [yes EXCEPT ![r] = @ \union {"dlp"}]
  /\ ToVault(r)
  /\ UNCHANGED <<seen, environment>>

VaultFails(r) ==
  /\ pc[r] = "vault"
  /\ Deny(r, "deny", "vault_error")
  /\ UNCHANGED <<seen, yes, environment>>

\* vault.get() resolved; forward() sends the request before its first await.
VaultReturns(r) ==
  /\ pc[r] = "vault"
  /\ MoveTo(r, "forwarding")
  /\ UNCHANGED <<seen, yes, environment>>

\* Under --shadow a refusal is waived: the verdict is kept, and the request goes on as if allowed.
Waived(r) == shadow /\ seen[r].verdict # "allow"

\* Nothing billed once --shadow is on, the requests the policy allows included.
BillableEnforced(r) == IF shadow THEN 0 ELSE req[r].cost

\* What shadow mode merely observes is not billed; what the policy allows is, --shadow or not.
Billable(r) == IF Waived(r) THEN 0 ELSE req[r].cost

\* The row of a forwarded request; what --shadow waived keeps its true verdict.
ForwardRow(r, forwarded, count) ==
  [decision |-> IF Waived(r) THEN seen[r].verdict ELSE "allow", forwarded |-> forwarded, count |-> count]

Finish(r, newRow, told) ==
  /\ pc' = [pc EXCEPT ![r] = "done"]
  /\ row' = [row EXCEPT ![r] = newRow]
  /\ wire' = [wire EXCEPT ![r] = told]
  /\ UNCHANGED <<req, seen, yes, gone, performed, environment>>

\* The upstream carries the request out.
Perform(r) ==
  /\ pc[r] = "forwarding" /\ r \notin performed
  /\ performed' = performed \union {r}
  /\ UNCHANGED <<pc, req, seen, row, wire, yes, gone, environment>>

Answered(r) ==
  /\ pc[r] = "forwarding" /\ r \in performed
  /\ Finish(r, ForwardRow(r, TRUE, Billable(r)), "none")

\* on_exceed: deny: the body is withheld, the row is a deny that was forwarded.
TooLarge(r) ==
  /\ pc[r] = "forwarding" /\ r \in performed
  /\ Finish(r, [decision |-> "deny", forwarded |-> TRUE, count |-> 0], "response_too_large")

\* fetch() threw, whether or not the upstream had received the request; billed all the same.
LostButBilled(r) ==
  /\ pc[r] = "forwarding"
  /\ Finish(r, ForwardRow(r, FALSE, Billable(r)), "upstream_error")

\* fetch() threw, whether or not the upstream had received the request.
Lost(r) ==
  /\ pc[r] = "forwarding"
  /\ Finish(r, ForwardRow(r, FALSE, 0), "upstream_error")

Disconnect(r) ==
  /\ pc[r] \notin {"unsent", "done"} /\ r \notin gone
  /\ gone' = gone \union {r}
  /\ UNCHANGED <<pc, req, seen, row, wire, yes, performed, environment>>

Dispatch(r) ==
  \/ NoPrincipal(r) \/ TouchDecoyToken(r) \/ KillSwitch(r) \/ Misrouted(r) \/ TouchDecoyUpstream(r)
  \/ Admit(r) \/ BodyFails(r) \/ OutOfScope(r) \/ Trip(r) \/ Refuse(r) \/ Allowed(r) \/ Hold(r)
  \/ GateSaysNo(r) \/ PolicyApproved(r) \/ SecretApproved(r)
  \/ VaultFails(r) \/ VaultReturns(r) \/ Answered(r) \/ TooLarge(r) \/ Lost(r)

Environment(revocable, policies) ==
  \/ \E id \in revocable : Revoke(id) \/ Restore(id)
  \/ \E ids \in SUBSET revocable : ReplaceFleet(ids)
  \/ FleetGoesStale
  \/ \E p \in policies : SwapPolicy(p)

\* What may happen to these requests, when clients may send these and others may revoke
\* these ids and load these policies.
Happens(requests, sent, revocable, policies) ==
  \/ \E r \in requests, q \in sent : Arrive(r, q)
  \/ \E r \in requests : Dispatch(r) \/ Perform(r) \/ Disconnect(r)
  \/ Environment(revocable, policies)

Next == Happens(Requests, Sent, Revocable, Policies)

Spec == Init /\ [][Next]_vars

-----------------------------------------------------------------------------

(* Nothing is performed that its own policy snapshot did not let through:  *)
(* no tripped wire, no denied action, no unapproved one, and no secret in  *)
(* the body that the snapshot's DLP setting forbids or wants a second yes  *)
(* for - although the policy may be swapped at every await and a yes to    *)
(* the action is not a yes to what its body carries.                       *)
PerformedAsDecided ==
  \A r \in performed :
    /\ seen[r].trips = "no"
    /\ ~shadow => /\ seen[r].verdict # "deny"
                  /\ seen[r].verdict = "require_approval" => "policy" \in yes[r]
    /\ req[r].secret => /\ seen[r].dlp # "deny"
                        /\ seen[r].dlp = "require_approval" => "dlp" \in yes[r]

(* The cut-off holds for whatever is sent after it: a request whose token, *)
(* or whose root, has been revoked here or by the fleet ever since it      *)
(* arrived is never performed, whichever store holds the id and however    *)
(* the other one changes meanwhile.                                        *)
CutOffHolds == cutOff \intersect performed = {}

(* A decoy token cannot be told from a token that does not exist: both get *)
(* the same answer on every probe, before and after the first one revoked  *)
(* it, stale fleet set or not.                                             *)
DecoysLookUnknown ==
  \A r \in Requests : pc[r] = "done" /\ req[r].who \in Decoys \union {Nobody} => wire[r] = "invalid_token"

(* The log is honest about what was done and what it cost: a row says      *)
(* forwarded only of what the upstream carried out; it bills an allowed    *)
(* forward in full, --shadow or not, and nothing else, so that a budget    *)
(* counts the same traffic in both modes; under --shadow it calls allowed  *)
(* only what the policy would have let through on its own; and an          *)
(* unfinished request has no row.                                          *)
LogIsHonest ==
  \A r \in Requests :
    /\ row[r].forwarded => r \in performed
    /\ row[r].count = IF row[r].forwarded /\ row[r].decision = "allow" THEN req[r].cost ELSE 0
    /\ row[r].decision = "allow" => ~Waived(r)
    /\ row[r] # NoRow => pc[r] = "done"

(* Nothing is sent for whoever was cut off when it was judged, and a decoy *)
(* answers like a token nobody has.                                        *)
RefusalsHold == CutOffHolds /\ DecoysLookUnknown

\* The limits under which an agent's billed requests were let through.
Limits(root) == {seen[r].limit : r \in {x \in Requests : row[x].count > 0 /\ Root(req[x].who) = root}}

(* The hourly limit is read before the request waits for a human, a vault  *)
(* and the upstream, and billed after: it can be overshot, but only by     *)
(* what the agent's other open requests cost, never by more however many   *)
(* follow.                                                                 *)
OvershootIsBounded ==
  \A root \in Agents :
    Spent(root) > 0 => Spent(root) <= Max(Limits(root)) + (MaxInFlight - 1) * Max(Costs)

\* What a document or a comment says and the code does not do: README.md, section 4.

(* README.md, "Budgets": max_actions_per_hour is the ceiling every agent   *)
(* gets.                                                                   *)
CeilingHolds == \A root \in Agents : Spent(root) > 0 => Spent(root) <= Max(Limits(root))

(* README.md, "Kill-switch": the running proxy denies a revoked agent's    *)
(* every request from that moment, before any credential fetch.            *)
RevokedFetchNothing ==
  [][\A r \in Requests :
       (pc[r] # "vault" /\ pc'[r] = "vault") => ~Cut(req[r].who, revoked, fleet)]_vars

(* README.md, "Approvals": an action is never performed for a requester    *)
(* that has already left.                                                  *)
NeverForTheDeparted ==
  [][\A r \in Requests : (pc[r] # "forwarding" /\ pc'[r] = "forwarding") => r \notin gone]_vars

(* server.ts: a request whose forwarding threw never reached the upstream. *)
UnforwardedNeverPerformed ==
  \A r \in Requests : row[r] # NoRow /\ ~row[r].forwarded => r \notin performed
=============================================================================
