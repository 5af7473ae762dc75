------------------------ MODULE RequestPipelineProofs ------------------------
(***************************************************************************)
(* Proofs about RequestPipeline for any number of requests, agents,        *)
(* sub-tokens and decoys, any policies and any costs: what is performed is *)
(* what the snapshot decided, refusals hold and do not tell a decoy from   *)
(* nobody, and the log claims no more than what happened.                  *)
(***************************************************************************)
EXTENDS RequestPipeline, FiniteSetTheorems, WellFoundedInduction, TLAPS

\* What a client may be told; "none" until it is, and for the upstream's own answer.
Answers == {"none", "invalid_token", "token_revoked", "revocation_stale", "unknown_upstream",
            "no_matching_allow", "internal_error", "out_of_scope", "tripwire", "denied",
            "budget_exceeded", "egress_blocked", "dlp_secret_detected", "approval_denied",
            "vault_error", "response_too_large", "upstream_error"}

\* What the properties rely on of the types.
Typed ==
  /\ pc \in [Requests -> {"unsent", "authenticating", "reading", "held", "held_dlp", "vault", "forwarding", "done"}]
  /\ req \in [Requests -> Request \union {NoRequest}]
  /\ policy \in Snapshot
  /\ seen \in [Requests -> Snapshot]
  /\ row \in [Requests -> Row \union {NoRow}]
  /\ wire \in [Requests -> Answers]
  /\ yes \in [Requests -> SUBSET {"policy", "dlp"}]
  /\ gone \subseteq Requests
  /\ performed \subseteq Requests
  /\ cutOff \subseteq Requests
  /\ revoked \subseteq Nodes
  /\ fleet \subseteq Nodes
  /\ stale \in BOOLEAN
  /\ shadow \in BOOLEAN

\* The snapshot lets the action through, with the yes it asks for.
ActionAllowed(r) ==
  /\ seen[r].trips = "no"
  /\ ~shadow => /\ seen[r].verdict # "deny"
                /\ seen[r].verdict = "require_approval" => "policy" \in yes[r]

\* The snapshot lets the body through, with the yes it asks for.
BodyAllowed(r) ==
  req[r].secret => /\ seen[r].dlp # "deny"
                   /\ seen[r].dlp = "require_approval" => "dlp" \in yes[r]

\* How far a request has come says what its snapshot has decided.
Progress ==
  \A r \in Requests :
    /\ pc[r] = "held" => seen[r].trips = "no" /\ seen[r].verdict = "require_approval"
    /\ pc[r] = "held_dlp" => ActionAllowed(r) /\ seen[r].dlp = "require_approval"
    /\ pc[r] \in {"vault", "forwarding"} \/ r \in performed => ActionAllowed(r) /\ BodyAllowed(r)
    /\ r \in performed => pc[r] \in {"forwarding", "done"}

\* Only real principals get past authentication; whoever does not is told the same.
Known ==
  \A r \in Requests :
    /\ pc[r] \in {"reading", "held", "held_dlp", "vault", "forwarding"} => req[r].who \in Agents \union Subs
    /\ pc[r] = "done" /\ req[r].who \in Decoys \union {Nobody} => wire[r] = "invalid_token"

\* Who has been cut off ever since the arrival has not been admitted.
CutOffWaits ==
  \A r \in cutOff :
    /\ Cut(req[r].who, revoked, fleet)
    /\ pc[r] \in {"authenticating", "done"}
    /\ r \notin performed

IInv == Typed /\ Progress /\ Known /\ CutOffWaits /\ LogIsHonest

-----------------------------------------------------------------------------

\* The invariant holds at the start: nothing has arrived yet.
LEMMA InitInv == Init => IInv
<1> SUFFICES ASSUME Init PROVE IInv
  OBVIOUS
<1>1. Typed
  <2>1. policy \in Snapshot
    BY PipelineAssumption DEF Init
  <2>2. seen \in [Requests -> Snapshot]
    BY DEF Init, NoPolicy, Snapshot, Decisions
  <2>3. pc \in [Requests -> {"unsent", "authenticating", "reading", "held", "held_dlp", "vault", "forwarding", "done"}]
    BY DEF Init
  <2>4. wire \in [Requests -> Answers]
    BY DEF Init, Answers
  <2>5. row \in [Requests -> Row \union {NoRow}] /\ req \in [Requests -> Request \union {NoRequest}]
    BY DEF Init
  <2>6. yes \in [Requests -> SUBSET {"policy", "dlp"}]
    BY DEF Init
  <2> QED
    BY <2>1, <2>2, <2>3, <2>4, <2>5, <2>6 DEF Init, Typed
<1>2. Progress /\ Known /\ CutOffWaits
  BY DEF Init, Progress, Known, CutOffWaits
<1>3. LogIsHonest
  BY DEF Init, LogIsHonest, Waived, NoRow
<1> QED
  BY <1>1, <1>2, <1>3 DEF IInv

\* A refusal - one deny row, whatever else is revoked on the way - keeps the invariant for a
\* request that has not been sent on, if a decoy is told what nobody is told.
LEMMA DenyKeeps ==
  ASSUME IInv, NEW r \in Requests, NEW w \in Answers, Deny(r, "deny", w),
         pc[r] \notin {"unsent", "forwarding", "done"},
         req[r].who \in Decoys \union {Nobody} => w = "invalid_token",
         seen' \in [Requests -> Snapshot], \A x \in Requests : x # r => seen'[x] = seen[x],
         yes' \in [Requests -> SUBSET {"policy", "dlp"}], \A x \in Requests : x # r => yes'[x] = yes[x],
         revoked \subseteq revoked', revoked' \subseteq Nodes,
         UNCHANGED <<fleet, stale, policy, cutOff, shadow>>
  PROVE  IInv'
<1> USE DEF Deny
<1>0. r \notin performed
  BY DEF IInv, Progress
<1>1. Typed'
  BY DEF IInv, Typed, Row, Decisions
<1>2. /\ pc'[r] = "done" /\ wire'[r] = w
      /\ row'[r] = [decision |-> "deny", forwarded |-> FALSE, count |-> 0]
      /\ \A x \in Requests : x # r => pc'[x] = pc[x] /\ wire'[x] = wire[x] /\ row'[x] = row[x]
  BY DEF IInv, Typed
<1>3. Progress'
  BY <1>0, <1>2 DEF IInv, Progress, ActionAllowed, BodyAllowed
<1>4. Known'
  BY <1>2 DEF IInv, Known
<1>5. CutOffWaits'
  BY <1>0, <1>2 DEF IInv, Typed, CutOffWaits, Cut
<1>6. LogIsHonest'
  BY <1>2 DEF IInv, LogIsHonest, Waived
<1> QED
  BY <1>1, <1>3, <1>4, <1>5, <1>6 DEF IInv

\* A step forward keeps the invariant if the snapshot has decided what the next stage needs.
LEMMA MoveKeeps ==
  ASSUME IInv, NEW r \in Requests, NEW stage \in {"reading", "held", "held_dlp", "vault", "forwarding"},
         MoveTo(r, stage),
         pc[r] \notin {"unsent", "forwarding", "done"}, r \notin cutOff, req[r].who \in Agents \union Subs,
         seen' \in [Requests -> Snapshot], \A x \in Requests : x # r => seen'[x] = seen[x],
         yes' \in [Requests -> SUBSET {"policy", "dlp"}], \A x \in Requests : x # r => yes'[x] = yes[x],
         stage = "held" => seen'[r].trips = "no" /\ seen'[r].verdict = "require_approval",
         stage = "held_dlp" => ActionAllowed(r)' /\ seen'[r].dlp = "require_approval",
         stage \in {"vault", "forwarding"} => ActionAllowed(r)' /\ BodyAllowed(r)',
         UNCHANGED environment
  PROVE  IInv'
<1> USE DEF MoveTo, environment
<1>0. r \notin performed
  BY DEF IInv, Progress
<1>1. Typed'
  BY DEF IInv, Typed
<1>2. pc'[r] = stage /\ \A x \in Requests : x # r => pc'[x] = pc[x]
  BY DEF IInv, Typed
<1>3. Progress'
  <2> SUFFICES ASSUME NEW x \in Requests
               PROVE  /\ pc'[x] = "held" => seen'[x].trips = "no" /\ seen'[x].verdict = "require_approval"
                      /\ pc'[x] = "held_dlp" => ActionAllowed(x)' /\ seen'[x].dlp = "require_approval"
                      /\ pc'[x] \in {"vault", "forwarding"} \/ x \in performed' => ActionAllowed(x)' /\ BodyAllowed(x)'
                      /\ x \in performed' => pc'[x] \in {"forwarding", "done"}
    BY DEF Progress
  <2>1. CASE x = r
    BY <2>1, <1>0, <1>2
  <2>2. CASE x # r
    BY <2>2, <1>2 DEF IInv, Progress, ActionAllowed, BodyAllowed
  <2> QED
    BY <2>1, <2>2
<1>4. Known'
  BY <1>2 DEF IInv, Known
<1>5. CutOffWaits'
  BY <1>0, <1>2 DEF IInv, Typed, CutOffWaits, Cut
<1>6. LogIsHonest'
  <2> SUFFICES ASSUME NEW x \in Requests
               PROVE  /\ row'[x].forwarded => x \in performed'
                      /\ row'[x].count = IF row'[x].forwarded /\ row'[x].decision = "allow" THEN req'[x].cost ELSE 0
                      /\ row'[x].decision = "allow" => ~Waived(x)'
                      /\ row'[x] # NoRow => pc'[x] = "done"
    BY DEF LogIsHonest
  <2>1. CASE x = r
    <3>1. row'[x] = NoRow
      BY <2>1 DEF IInv, LogIsHonest
    <3> QED
      BY <3>1 DEF NoRow
  <2>2. CASE x # r
    <3>1. pc'[x] = pc[x] /\ seen'[x] = seen[x] /\ row'[x] = row[x] /\ req'[x] = req[x]
      BY <1>2, <2>2
    <3> QED
      BY <3>1 DEF IInv, LogIsHonest, Waived
  <2> QED
    BY <2>1, <2>2
<1> QED
  BY <1>1, <1>3, <1>4, <1>5, <1>6 DEF IInv

\* The end of a request that was sent on keeps the invariant if its row claims no more than
\* what was carried out.
LEMMA FinishKeeps ==
  ASSUME IInv, NEW r \in Requests, NEW newRow \in Row, NEW told \in Answers, Finish(r, newRow, told),
         pc[r] = "forwarding",
         newRow.forwarded => r \in performed,
         newRow.count = IF newRow.forwarded /\ newRow.decision = "allow" THEN req[r].cost ELSE 0,
         newRow.decision = "allow" => ~Waived(r)
  PROVE  IInv'
<1> USE DEF Finish, environment
<1>1. Typed'
  BY DEF IInv, Typed
<1>2. /\ pc'[r] = "done" /\ row'[r] = newRow
      /\ \A x \in Requests : x # r => pc'[x] = pc[x] /\ wire'[x] = wire[x] /\ row'[x] = row[x]
  BY DEF IInv, Typed
<1>3. Progress'
  BY <1>2 DEF IInv, Progress, ActionAllowed, BodyAllowed
<1>4. Known'
  BY <1>2, PipelineAssumption DEF IInv, Known, Nodes
<1>5. CutOffWaits'
  BY <1>2 DEF IInv, Typed, CutOffWaits, Cut
<1>6. LogIsHonest'
  BY <1>2 DEF IInv, LogIsHonest, Waived
<1> QED
  BY <1>1, <1>3, <1>4, <1>5, <1>6 DEF IInv

\* Who is past the kill-switch has not been cut off ever since the arrival, and is a principal.
LEMMA PastTheKillSwitch ==
  ASSUME IInv, NEW r \in Requests, pc[r] \in {"reading", "held", "held_dlp", "vault", "forwarding"}
  PROVE  r \notin cutOff /\ req[r].who \in Agents \union Subs /\ req[r].who \notin Decoys \union {Nobody}
BY PipelineAssumption DEF IInv, Known, CutOffWaits, Nodes

\* The egress guard keeps the invariant for a request whose snapshot lets it through.
LEMMA ToVaultKeeps ==
  ASSUME IInv, NEW r \in Requests, ToVault(r), pc[r] \in {"reading", "held", "held_dlp"},
         seen' \in [Requests -> Snapshot], \A x \in Requests : x # r => seen'[x] = seen[x],
         yes' \in [Requests -> SUBSET {"policy", "dlp"}], \A x \in Requests : x # r => yes'[x] = yes[x],
         ActionAllowed(r)', BodyAllowed(r)', UNCHANGED environment
  PROVE  IInv'
<1>1. r \notin cutOff /\ req[r].who \in Agents \union Subs /\ req[r].who \notin Decoys \union {Nobody}
  BY PastTheKillSwitch
<1>2. CASE MoveTo(r, "vault")
  BY <1>1, <1>2, MoveKeeps
<1>3. CASE Deny(r, "deny", "egress_blocked")
  <2>1. revoked' = revoked /\ revoked \subseteq Nodes /\ UNCHANGED <<fleet, stale, policy, cutOff, shadow>>
    BY DEF environment, IInv, Typed
  <2> QED
    BY <1>1, <1>3, <2>1, DenyKeeps DEF Answers
<1> QED
  BY <1>2, <1>3 DEF ToVault

\* What follows a yes - budget, body, egress - keeps the invariant if the snapshot lets the
\* action through.
LEMMA ClearedKeeps ==
  ASSUME IInv, NEW r \in Requests, Cleared(r, seen'[r]), pc[r] \in {"reading", "held"},
         seen' \in [Requests -> Snapshot], \A x \in Requests : x # r => seen'[x] = seen[x],
         yes' \in [Requests -> SUBSET {"policy", "dlp"}], \A x \in Requests : x # r => yes'[x] = yes[x],
         ActionAllowed(r)', UNCHANGED environment
  PROVE  IInv'
<1>1. r \notin cutOff /\ req[r].who \in Agents \union Subs /\ req[r].who \notin Decoys \union {Nobody}
  BY PastTheKillSwitch
<1>2. revoked' = revoked /\ revoked \subseteq Nodes /\ UNCHANGED <<fleet, stale, policy, cutOff, shadow>>
  BY DEF environment, IInv, Typed
<1>3. CASE Deny(r, "deny", "budget_exceeded") \/ Deny(r, "deny", "dlp_secret_detected")
  BY <1>1, <1>2, <1>3, DenyKeeps DEF Answers
<1>4. CASE MoveTo(r, "held_dlp") /\ NeedsSecondPrompt(r, seen'[r])
  BY <1>1, <1>4, MoveKeeps DEF NeedsSecondPrompt
<1>5. CASE ToVault(r) /\ ~SecretDenied(r, seen'[r]) /\ ~NeedsSecondPrompt(r, seen'[r])
  <2>1. req' = req
    BY <1>5 DEF ToVault, MoveTo, Deny
  <2>2. BodyAllowed(r)'
    BY <1>5, <2>1 DEF BodyAllowed, NeedsSecondPrompt, SecretDenied
  <2> QED
    BY <1>5, <2>2, ToVaultKeeps
<1> QED
  BY <1>3, <1>4, <1>5 DEF Cleared, OverBudget

-----------------------------------------------------------------------------

\* The refusals before the policy is looked at: nobody's token, a decoy's, whoever is cut off,
\* a route that leads nowhere and the decoy upstream.
LEMMA RefusedAtTheDoor ==
  ASSUME IInv, NEW r \in Requests,
         NoPrincipal(r) \/ TouchDecoyToken(r) \/ KillSwitch(r) \/ Misrouted(r) \/ TouchDecoyUpstream(r)
  PROVE  IInv'
<1>1. Typed /\ PipelineAssumption
  BY PipelineAssumption DEF IInv
<1>2. CASE NoPrincipal(r)
  BY <1>1, <1>2, DenyKeeps DEF NoPrincipal, Typed, environment, Answers
<1>3. CASE TouchDecoyToken(r)
  <2>1. revoked' \subseteq Nodes
    BY <1>1, <1>3 DEF TouchDecoyToken, Typed, Nodes
  <2> QED
    BY <1>1, <1>3, <2>1, DenyKeeps DEF TouchDecoyToken, Typed, Answers
<1>4. ASSUME Identified(r) PROVE req[r].who \notin Decoys \union {Nobody} /\ pc[r] = "authenticating"
  BY <1>1, <1>4 DEF Identified, PipelineAssumption, Nodes
<1>5. CASE KillSwitch(r)
  <2> DEFINE w == IF Cut(req[r].who, revoked, fleet) THEN "token_revoked" ELSE "revocation_stale"
  <2>1. w \in Answers /\ Deny(r, "deny", w) /\ Identified(r)
    BY <1>5 DEF KillSwitch, Answers
  <2> QED
    BY <1>1, <1>4, <1>5, <2>1, DenyKeeps DEF KillSwitch, Typed, environment
<1>6. CASE Misrouted(r)
  BY <1>1, <1>4, <1>6, DenyKeeps DEF Misrouted, PassesKillSwitch, Typed, environment, Answers
<1>7. CASE TouchDecoyUpstream(r)
  <2>1. revoked' \subseteq Nodes
    BY <1>1, <1>7 DEF TouchDecoyUpstream, PassesKillSwitch, Identified, Typed, Nodes, Root, PipelineAssumption
  <2> QED
    BY <1>1, <1>4, <1>7, <2>1, DenyKeeps DEF TouchDecoyUpstream, PassesKillSwitch, Typed, Answers
<1> QED
  BY <1>2, <1>3, <1>5, <1>6, <1>7

\* Whoever is admitted has passed the kill-switch, so was not cut off ever since the arrival.
LEMMA AdmitKeeps == ASSUME IInv, NEW r \in Requests, Admit(r) PROVE IInv'
<1>1. r \notin cutOff
  BY DEF Admit, PassesKillSwitch, IInv, CutOffWaits
<1>2. MoveTo(r, "reading") /\ UNCHANGED <<seen, yes, environment>> /\ pc[r] = "authenticating" /\ req[r].who \in Agents \union Subs
  BY DEF Admit, MoveTo, PassesKillSwitch, Identified
<1> QED
  BY <1>1, <1>2, MoveKeeps DEF IInv, Typed

\* The verdict: the snapshot is taken, and trips, refuses, holds or clears the request.
LEMMA JudgedOnItsSnapshot ==
  ASSUME IInv, NEW r \in Requests,
         OutOfScope(r) \/ Trip(r) \/ Refuse(r) \/ Allowed(r) \/ Hold(r)
  PROVE  IInv'
<1>1. Typed /\ PipelineAssumption
  BY PipelineAssumption DEF IInv
<1>2. pc[r] = "reading"
  BY DEF OutOfScope, Trip, Refuse, Allowed, Hold, Sees
<1>3. r \notin cutOff /\ req[r].who \in Agents \union Subs /\ req[r].who \notin Decoys \union {Nobody}
  BY <1>2, PastTheKillSwitch
<1>4. ASSUME Sees(r)
      PROVE  /\ seen' \in [Requests -> Snapshot] /\ seen'[r] = policy
             /\ \A x \in Requests : x # r => seen'[x] = seen[x]
  BY <1>1, <1>4 DEF Sees, Typed
<1>5. CASE OutOfScope(r)
  BY <1>1, <1>2, <1>3, <1>5, DenyKeeps DEF OutOfScope, Typed, environment, Answers
<1>6. CASE Trip(r)
  <2>1. revoked' \subseteq Nodes
    BY <1>1, <1>3, <1>6 DEF Trip, Typed, Nodes, Root, PipelineAssumption
  <2>2. /\ Deny(r, "deny", "tripwire") /\ Sees(r) /\ revoked \subseteq revoked'
        /\ UNCHANGED <<yes, fleet, stale, policy, cutOff, shadow>>
    BY <1>6 DEF Trip
  <2> QED
    BY <1>1, <1>2, <1>3, <1>4, <2>1, <2>2, DenyKeeps DEF Typed, Answers
<1>7. CASE Refuse(r)
  <2>1. Deny(r, "deny", "denied") /\ Sees(r) /\ UNCHANGED <<yes, revoked, fleet, stale, policy, cutOff, shadow>>
    BY <1>7 DEF Refuse, environment
  <2> QED
    BY <1>1, <1>2, <1>3, <1>4, <2>1, DenyKeeps DEF Typed, Answers
<1>8. CASE Allowed(r)
  <2>1. Sees(r) /\ Cleared(r, seen'[r]) /\ UNCHANGED <<yes, environment>>
    BY <1>4, <1>8 DEF Allowed
  <2>2. ActionAllowed(r)'
    BY <1>4, <1>8, <2>1 DEF Allowed, ActionAllowed, environment
  <2> QED
    BY <1>1, <1>2, <1>4, <2>1, <2>2, ClearedKeeps DEF Typed
<1>9. CASE Hold(r)
  <2>1. Sees(r) /\ UNCHANGED <<yes, environment>>
    BY <1>9 DEF Hold
  <2>2. CASE Deny(r, "deny", "budget_exceeded")
    BY <1>1, <1>2, <1>3, <1>4, <2>1, <2>2, DenyKeeps DEF Typed, environment, Answers
  <2>3. CASE MoveTo(r, "held")
    <3>1. seen'[r].trips = "no" /\ seen'[r].verdict = "require_approval"
      BY <1>4, <1>9, <2>1 DEF Hold
    <3> QED
      BY <1>1, <1>2, <1>3, <1>4, <2>1, <2>3, <3>1, MoveKeeps DEF Typed
  <2> QED
    BY <1>9, <2>2, <2>3 DEF Hold, OverBudget
<1> QED
  BY <1>5, <1>6, <1>7, <1>8, <1>9

\* A human's answer: a no ends the request, a yes lets through what it was asked for.
LEMMA AnsweredByAHuman ==
  ASSUME IInv, NEW r \in Requests, GateSaysNo(r) \/ PolicyApproved(r) \/ SecretApproved(r)
  PROVE  IInv'
<1>1. Typed /\ pc[r] \in {"held", "held_dlp"}
  BY DEF IInv, GateSaysNo, PolicyApproved, SecretApproved
<1>2. r \notin cutOff /\ req[r].who \in Agents \union Subs /\ req[r].who \notin Decoys \union {Nobody}
  BY <1>1, PastTheKillSwitch
<1>3. CASE GateSaysNo(r)
  BY <1>1, <1>2, <1>3, DenyKeeps DEF GateSaysNo, Typed, environment, Answers
<1>4. CASE PolicyApproved(r)
  <2>1. /\ Cleared(r, seen'[r]) /\ pc[r] = "held" /\ UNCHANGED <<seen, environment>>
        /\ yes' = [yes EXCEPT ![r] = @ \union {"policy"}]
    BY <1>4 DEF PolicyApproved
  <2>2. /\ yes' \in [Requests -> SUBSET {"policy", "dlp"}] /\ "policy" \in yes'[r]
        /\ \A x \in Requests : x # r => yes'[x] = yes[x]
    BY <1>1, <2>1 DEF Typed
  <2>3. ActionAllowed(r)'
    BY <2>1, <2>2 DEF ActionAllowed, IInv, Progress
  <2> QED
    BY <1>1, <2>1, <2>2, <2>3, ClearedKeeps DEF Typed
<1>5. CASE SecretApproved(r)
  <2>1. /\ ToVault(r) /\ pc[r] = "held_dlp" /\ UNCHANGED <<seen, environment>>
        /\ yes' = [yes EXCEPT ![r] = @ \union {"dlp"}]
    BY <1>5 DEF SecretApproved
  <2>2. /\ yes' \in [Requests -> SUBSET {"policy", "dlp"}] /\ yes'[r] = yes[r] \union {"dlp"}
        /\ \A x \in Requests : x # r => yes'[x] = yes[x]
    BY <1>1, <2>1 DEF Typed
  <2>3. ActionAllowed(r) /\ seen[r].dlp = "require_approval"
    BY <2>1 DEF IInv, Progress
  <2>4. ActionAllowed(r)' /\ BodyAllowed(r)'
    BY <2>1, <2>2, <2>3 DEF ActionAllowed, BodyAllowed, environment
  <2> QED
    BY <1>1, <2>1, <2>2, <2>4, ToVaultKeeps DEF Typed
<1> QED
  BY <1>3, <1>4, <1>5

\* The vault's answer, a forward's outcome and a body that never came.
LEMMA FromTheVaultOn ==
  ASSUME IInv, NEW r \in Requests,
         VaultFails(r) \/ VaultReturns(r) \/ Answered(r) \/ TooLarge(r) \/ Lost(r)
  PROVE  IInv'
<1>1. Typed /\ PipelineAssumption
  BY PipelineAssumption DEF IInv
<1>2. r \notin cutOff /\ req[r].who \in Agents \union Subs /\ req[r].who \notin Decoys \union {Nobody}
  BY PastTheKillSwitch DEF VaultFails, VaultReturns, Answered, TooLarge, Lost
<1>3. CASE VaultFails(r)
  BY <1>1, <1>2, <1>3, DenyKeeps DEF VaultFails, Typed, environment, Answers
<1>4. CASE VaultReturns(r)
  <2>1. ActionAllowed(r)' /\ BodyAllowed(r)'
    BY <1>4 DEF VaultReturns, MoveTo, IInv, Progress, ActionAllowed, BodyAllowed, environment
  <2> QED
    BY <1>1, <1>2, <1>4, <2>1, MoveKeeps DEF VaultReturns, Typed
<1>5. Billable(r) \in Nat /\ seen[r].verdict \in Decisions
  <2>1. req[r].cost \in Nat
    <3>1. req[r] \in Request \/ req[r] = NoRequest
      BY <1>1 DEF Typed
    <3>2. CASE req[r] \in Request
      BY <1>1, <3>2 DEF PipelineAssumption, Request
    <3>3. CASE req[r] = NoRequest
      BY <3>3 DEF NoRequest
    <3> QED
      BY <3>1, <3>2, <3>3
  <2>2. seen[r].verdict \in Decisions
    BY <1>1 DEF Typed, Snapshot
  <2> QED
    BY <2>1, <2>2 DEF Billable
<1>6. CASE Answered(r)
  <2> DEFINE newRow == ForwardRow(r, TRUE, Billable(r))
  <2>1. newRow \in Row /\ newRow.forwarded /\ newRow.count = Billable(r)
    BY <1>5 DEF ForwardRow, Row, Decisions
  <2>2. newRow.decision = "allow" <=> ~Waived(r)
    BY DEF ForwardRow, Waived
  <2>3. newRow.count = IF newRow.forwarded /\ newRow.decision = "allow" THEN req[r].cost ELSE 0
    BY <2>1, <2>2 DEF Billable
  <2>4. Finish(r, newRow, "none") /\ pc[r] = "forwarding" /\ r \in performed
    BY <1>6 DEF Answered
  <2> HIDE DEF newRow
  <2> QED
    BY <2>1, <2>2, <2>3, <2>4, FinishKeeps DEF Answers
<1>7. CASE TooLarge(r)
  <2>1. [decision |-> "deny", forwarded |-> TRUE, count |-> 0] \in Row
    BY DEF Row, Decisions
  <2> QED
    BY <1>7, <2>1, FinishKeeps DEF TooLarge, Answers
<1>8. CASE Lost(r)
  <2> DEFINE newRow == ForwardRow(r, FALSE, 0)
  <2>1. newRow \in Row /\ ~newRow.forwarded /\ newRow.count = 0
    BY <1>5 DEF ForwardRow, Row, Decisions
  <2>2. newRow.decision = "allow" => ~Waived(r)
    BY DEF ForwardRow, Waived
  <2>3. Finish(r, newRow, "upstream_error") /\ pc[r] = "forwarding"
    BY <1>8 DEF Lost
  <2> HIDE DEF newRow
  <2> QED
    BY <2>1, <2>2, <2>3, FinishKeeps DEF Answers
<1> QED
  BY <1>3, <1>4, <1>6, <1>7, <1>8

-----------------------------------------------------------------------------
\* The upstream, the client and the environment.

\* A client lost while its body is read leaves the rest as it was.
LEMMA BodyFailsKeeps == ASSUME IInv, NEW r \in Requests, BodyFails(r) PROVE IInv'
<1> USE DEF BodyFails, environment
<1>1. Typed'
  BY DEF IInv, Typed, Answers
<1>2. /\ pc'[r] = "done" /\ req[r].who \notin Decoys \union {Nobody}
      /\ \A x \in Requests : x # r => pc'[x] = pc[x] /\ wire'[x] = wire[x]
  BY PastTheKillSwitch DEF IInv, Typed
<1>3. Progress'
  BY <1>2 DEF IInv, Progress, ActionAllowed, BodyAllowed
<1>4. Known'
  BY <1>2 DEF IInv, Known
<1>5. CutOffWaits'
  BY <1>2 DEF IInv, Typed, CutOffWaits, Cut
<1>6. LogIsHonest'
  BY <1>2 DEF IInv, LogIsHonest, Waived
<1> QED
  BY <1>1, <1>3, <1>4, <1>5, <1>6 DEF IInv

\* The upstream carries out only what was forwarded, which its snapshot let through.
LEMMA PerformKeeps == ASSUME IInv, NEW r \in Requests, Perform(r) PROVE IInv'
<1> USE DEF Perform, environment
<1>1. Typed' /\ Known' /\ LogIsHonest'
  BY DEF IInv, Typed, Known, LogIsHonest, Waived
<1>2. Progress'
  BY DEF IInv, Progress, ActionAllowed, BodyAllowed
<1>3. CutOffWaits'
  BY PastTheKillSwitch DEF IInv, CutOffWaits, Cut
<1> QED
  BY <1>1, <1>2, <1>3 DEF IInv

\* A request that arrives is cut off if its chain is at that moment, and has no row yet.
LEMMA ArriveKeeps == ASSUME IInv, NEW r \in Requests, NEW q \in Sent, Arrive(r, q) PROVE IInv'
<1> USE DEF Arrive
<1>0. q \in Request /\ Typed
  BY PipelineAssumption DEF IInv
<1>1. Typed'
  BY <1>0 DEF Typed
<1>2. /\ pc'[r] = "authenticating" /\ pc[r] = "unsent" /\ req'[r] = q /\ r \notin performed
      /\ \A x \in Requests : x # r => pc'[x] = pc[x] /\ req'[x] = req[x]
  BY <1>0 DEF IInv, Typed, Progress
<1>3. Progress'
  BY <1>2 DEF IInv, Progress, ActionAllowed, BodyAllowed
<1>4. Known'
  BY <1>2 DEF IInv, Known
<1>5. CutOffWaits'
  <2>1. r \in cutOff' => Cut(q.who, revoked, fleet)
    BY <1>2 DEF IInv, CutOffWaits, Cut
  <2> QED
    BY <1>0, <1>2, <2>1 DEF IInv, Typed, CutOffWaits, Cut
<1>6. LogIsHonest'
  BY <1>2 DEF IInv, LogIsHonest, Waived
<1> QED
  BY <1>1, <1>3, <1>4, <1>5, <1>6 DEF IInv

\* Whatever changes the stores, the policy or the clients leaves the requests where they are,
\* and keeps as cut off only those that still are.
LEMMA AroundKeeps ==
  ASSUME IInv, UNCHANGED <<pc, req, seen, row, wire, yes, performed, shadow>>,
         gone' \subseteq Requests, revoked' \subseteq Nodes, fleet' \subseteq Nodes, stale' \in BOOLEAN,
         policy' \in Snapshot,
         \/ cutOff' = StillCut(revoked', fleet')
         \/ cutOff' = cutOff /\ revoked \subseteq revoked' /\ fleet' = fleet
  PROVE  IInv'
<1>1. Typed'
  BY DEF IInv, Typed, StillCut
<1>2. Progress' /\ Known' /\ LogIsHonest'
  BY DEF IInv, Progress, ActionAllowed, BodyAllowed, Known, LogIsHonest, Waived
<1>3. CutOffWaits'
  BY DEF IInv, CutOffWaits, StillCut, Cut
<1> QED
  BY <1>1, <1>2, <1>3 DEF IInv

\* The client leaving, and each change of the environment, is such a change.
LEMMA EnvironmentKeeps ==
  ASSUME IInv, (\E r \in Requests : Disconnect(r)) \/ Environment(Revocable, Policies)
  PROVE  IInv'
<1>1. Typed /\ PipelineAssumption
  BY PipelineAssumption DEF IInv
<1>2. ASSUME NEW r \in Requests, Disconnect(r) PROVE IInv'
  BY <1>1, <1>2, AroundKeeps DEF Disconnect, environment, Typed
<1>3. ASSUME NEW id \in Revocable, Revoke(id) PROVE IInv'
  BY <1>1, <1>3, AroundKeeps DEF Revoke, Typed, PipelineAssumption
<1>4. ASSUME NEW id \in Revocable, Restore(id) PROVE IInv'
  BY <1>1, <1>4, AroundKeeps DEF Restore, Typed
<1>5. ASSUME NEW ids \in SUBSET Revocable, ReplaceFleet(ids) PROVE IInv'
  BY <1>1, <1>5, AroundKeeps DEF ReplaceFleet, Typed, PipelineAssumption
<1>6. CASE FleetGoesStale
  BY <1>1, <1>6, AroundKeeps DEF FleetGoesStale, Typed
<1>7. ASSUME NEW p \in Policies, SwapPolicy(p) PROVE IInv'
  BY <1>1, <1>7, AroundKeeps DEF SwapPolicy, Typed, PipelineAssumption
<1> QED
  BY <1>2, <1>3, <1>4, <1>5, <1>6, <1>7 DEF Environment

-----------------------------------------------------------------------------

\* Every step keeps the invariant.
LEMMA NextInv == IInv /\ [Next]_vars => IInv'
<1> SUFFICES ASSUME IInv, [Next]_vars PROVE IInv'
  OBVIOUS
<1>1. ASSUME NEW r \in Requests, NEW q \in Sent, Arrive(r, q) PROVE IInv'
  BY <1>1, ArriveKeeps
<1>2. ASSUME NEW r \in Requests, Dispatch(r) PROVE IInv'
  BY <1>2, RefusedAtTheDoor, AdmitKeeps, BodyFailsKeeps, JudgedOnItsSnapshot, AnsweredByAHuman, FromTheVaultOn
     DEF Dispatch
<1>3. ASSUME NEW r \in Requests, Perform(r) PROVE IInv'
  BY <1>3, PerformKeeps
<1>4. CASE (\E r \in Requests : Disconnect(r)) \/ Environment(Revocable, Policies)
  BY <1>4, EnvironmentKeeps
<1>5. CASE UNCHANGED vars
  BY <1>5 DEF vars, environment, IInv, Typed, Progress, ActionAllowed, BodyAllowed, Known, CutOffWaits, Cut, LogIsHonest, Waived
<1> QED
  BY <1>1, <1>2, <1>3, <1>4, <1>5 DEF Next, Happens

\* In every state the pipeline reaches, for any clients, operators and policies.
THEOREM PipelineInvariant == Spec => []IInv
BY InitInv, NextInv, PTL DEF Spec

(* Nothing is performed that its own snapshot did not let through: dispatch() takes its policy *)
(* once and the swaps at its awaits change nothing.                                            *)
THEOREM PerformedIsDecided == Spec => []PerformedAsDecided
<1>1. IInv => PerformedAsDecided
  BY DEF IInv, Typed, Progress, ActionAllowed, BodyAllowed, PerformedAsDecided
<1> QED
  BY <1>1, PipelineInvariant, PTL

(* A request cut off ever since it arrived is never performed, by either store's doing, and a  *)
(* decoy's token is answered like one that nobody has.                                         *)
THEOREM RefusalsAreKept == Spec => []RefusalsHold
<1>1. IInv => RefusalsHold
  BY DEF IInv, Typed, Known, CutOffWaits, RefusalsHold, CutOffHolds, DecoysLookUnknown
<1> QED
  BY <1>1, PipelineInvariant, PTL

(* A row says forwarded only of what was carried out and bills only allowed forwards.          *)
THEOREM LogClaimsNoMore == Spec => []LogIsHonest
<1>1. IInv => LogIsHonest
  BY DEF IInv
<1> QED
  BY <1>1, PipelineInvariant, PTL

-----------------------------------------------------------------------------
(* Sums over sets: induction on the size of a set, and what MapThenSumSet() of the  *)
(* community modules computes.                                                     *)

\* A set of numbers has a least one.
LEMMA LeastNumber ==
  ASSUME NEW S, S \subseteq Nat, S # {}
  PROVE  \E n \in S : \A m \in S : n <= m
<1>1. IsWellFoundedOn(OpToRel(<, Nat), Nat)
  BY NatLessThanWellFounded
<1>2. PICK n \in S : \A m \in S : ~(<<m, n>> \in OpToRel(<, Nat))
  BY <1>1, WFMin
<1>3. \A m \in S : ~(m < n)
  BY <1>2 DEF OpToRel
<1> QED
  BY <1>3

\* What holds of a set whenever it holds of its proper subsets holds of every finite set.
LEMMA BySize ==
  ASSUME NEW S, IsFiniteSet(S), NEW Good,
         \A T \in SUBSET S : (\A U \in SUBSET T : U # T => U \in Good) => T \in Good
  PROVE  \A T \in SUBSET S : T \in Good
<1> SUFFICES ASSUME NEW T0 \in SUBSET S, T0 \notin Good PROVE FALSE
  OBVIOUS
<1> DEFINE Sizes == {Cardinality(T) : T \in {U \in SUBSET S : U \notin Good}}
<1>1. \A T \in SUBSET S : IsFiniteSet(T) /\ Cardinality(T) \in Nat
  BY FS_Subset, FS_CardinalityType
<1>2. Sizes \subseteq Nat /\ Sizes # {}
  BY <1>1
<1>3. PICK n \in Sizes : \A m \in Sizes : n <= m
  BY <1>2, LeastNumber
<1>4. PICK T \in SUBSET S : T \notin Good /\ Cardinality(T) = n
  BY <1>3
<1>5. ASSUME NEW U \in SUBSET T, U # T PROVE U \in Good
  <2>1. U \in SUBSET S
    OBVIOUS
  <2>2. IsFiniteSet(T) /\ Cardinality(T) \in Nat /\ Cardinality(U) \in Nat
    BY <1>1, <2>1
  <2>3. Cardinality(U) <= Cardinality(T) /\ (Cardinality(U) = Cardinality(T) => U = T)
    BY <2>2, FS_Subset
  <2>4. Cardinality(U) < Cardinality(T)
    BY <1>5, <2>2, <2>3
  <2>5. ASSUME U \notin Good PROVE FALSE
    <3>1. Cardinality(U) \in Sizes
      BY <2>1, <2>5
    <3> HIDE DEF Sizes
    <3>2. Cardinality(T) <= Cardinality(U)
      BY <1>3, <1>4, <3>1
    <3> QED
      BY <2>2, <2>4, <3>2
  <2> QED
    BY <2>5
<1> QED
  BY <1>4, <1>5

\* MapThenSumSet() of the community modules, over a function.
Some(T) == CHOOSE x \in T : TRUE
Sums(g, f, S) == g = [T \in SUBSET S |-> IF T = {} THEN 0 ELSE f[Some(T)] + g[T \ {Some(T)}]]
Fold(f, S) == (CHOOSE g : Sums(g, f, S))[S]

\* The fold, one element further.
LEMMA SumsStep ==
  ASSUME NEW S, NEW f, NEW g, Sums(g, f, S), NEW T \in SUBSET S
  PROVE  /\ T = {} => g[T] = 0
         /\ T # {} => Some(T) \in T /\ g[T] = f[Some(T)] + g[T \ {Some(T)}]
<1>1. g[T] = IF T = {} THEN 0 ELSE f[Some(T)] + g[T \ {Some(T)}]
  BY DEF Sums
<1> QED
  BY <1>1 DEF Some

\* Two folds over the same terms agree on a set that both are over.
LEMMA SumsAgree ==
  ASSUME NEW S, NEW R, NEW f, NEW e, NEW g, NEW h, Sums(g, f, S), Sums(h, e, R),
         NEW T, IsFiniteSet(T), T \subseteq S, T \subseteq R, \A x \in T : f[x] = e[x]
  PROVE  g[T] = h[T]
<1> DEFINE Good == {U \in SUBSET T : g[U] = h[U]}
<1>1. ASSUME NEW U \in SUBSET T, \A V \in SUBSET U : V # U => V \in Good PROVE U \in Good
  <2>1. CASE U = {}
    BY <2>1, SumsStep
  <2>2. CASE U # {}
    <3>1. /\ Some(U) \in U
          /\ g[U] = f[Some(U)] + g[U \ {Some(U)}]
          /\ h[U] = e[Some(U)] + h[U \ {Some(U)}]
      BY <2>2, SumsStep
    <3>2. U \ {Some(U)} \in Good
      BY <1>1, <3>1
    <3> QED
      BY <3>1, <3>2
  <2> QED
    BY <2>1, <2>2
<1> HIDE DEF Good
<1>2. \A U \in SUBSET T : U \in Good
  BY <1>1, BySize
<1> QED
  BY <1>2 DEF Good

\* The recursive definition of the fold has a solution.
LEMMA SumsExist ==
  ASSUME NEW S, IsFiniteSet(S), NEW f
  PROVE  \A T \in SUBSET S : Sums(CHOOSE g : Sums(g, f, T), f, T)
<1> DEFINE The(T) == CHOOSE g : Sums(g, f, T)
           Good == {T \in SUBSET S : Sums(The(T), f, T)}
<1>1. ASSUME NEW T \in SUBSET S, \A U \in SUBSET T : U # T => U \in Good PROVE T \in Good
  <2> DEFINE Last == IF T = {} THEN 0 ELSE f[Some(T)] + The(T \ {Some(T)})[T \ {Some(T)}]
             g == [U \in SUBSET T |-> IF U = T THEN Last ELSE The(U)[U]]
  <2> HIDE DEF The
  <2>1. ASSUME NEW U \in SUBSET T PROVE g[U] = IF U = {} THEN 0 ELSE f[Some(U)] + g[U \ {Some(U)}]
    <3>1. CASE U = {} /\ U = T
      BY <3>1
    <3>2. CASE U = {} /\ U # T
      <4>1. Sums(The(U), f, U)
        BY <1>1, <3>2
      <4> QED
        BY <3>2, <4>1, SumsStep
    <3>3. CASE U # {}
      <4> DEFINE V == U \ {Some(U)}
      <4>1. Some(U) \in U /\ V \in SUBSET T /\ V # T /\ V \in SUBSET U
        BY <3>3 DEF Some
      <4>2. g[V] = The(V)[V] /\ Sums(The(V), f, V)
        BY <1>1, <4>1
      <4>3. CASE U = T
        BY <3>3, <4>2, <4>3
      <4>4. CASE U # T
        <5>1. Sums(The(U), f, U) /\ g[U] = The(U)[U]
          BY <1>1, <4>4
        <5>2. The(U)[U] = f[Some(U)] + The(U)[V]
          BY <3>3, <5>1, SumsStep
        <5>3. IsFiniteSet(V)
          BY <4>1, FS_Subset
        <5>4. The(U)[V] = The(V)[V]
          BY <4>1, <4>2, <5>1, <5>3, SumsAgree
        <5> QED
          BY <3>3, <4>2, <5>1, <5>2, <5>4
      <4> QED
        BY <4>3, <4>4
    <3> QED
      BY <3>1, <3>2, <3>3
  <2> HIDE DEF Last
  <2>2. Sums(g, f, T)
    <3>1. g = [U \in SUBSET T |-> g[U]]
      OBVIOUS
    <3> HIDE DEF g
    <3> QED
      BY <2>1, <3>1 DEF Sums
  <2>3. Sums(The(T), f, T)
    BY <2>2 DEF The
  <2> QED
    BY <2>3
<1> HIDE DEF Good
<1>2. \A T \in SUBSET S : T \in Good
  BY <1>1, BySize
<1> QED
  BY <1>2 DEF Good

\* What a sum is: nothing for nothing, and one term and the sum of the rest otherwise.
LEMMA FoldStep ==
  ASSUME NEW S, IsFiniteSet(S), NEW f, \A x \in S : f[x] \in Nat
  PROVE  /\ Fold(f, {}) = 0
         /\ \A T \in SUBSET S : /\ Fold(f, T) \in Nat
                                /\ \A x \in T : Fold(f, T) = f[x] + Fold(f, T \ {x})
<1> DEFINE Good == {T \in SUBSET S : /\ Fold(f, T) \in Nat
                                     /\ \A x \in T : Fold(f, T) = f[x] + Fold(f, T \ {x})}
<1>1. ASSUME NEW T \in SUBSET S
      PROVE  /\ T = {} => Fold(f, T) = 0
             /\ T # {} => Some(T) \in T /\ Fold(f, T) = f[Some(T)] + Fold(f, T \ {Some(T)})
  <2> DEFINE g == CHOOSE h : Sums(h, f, T)
             V == T \ {Some(T)}
             h == CHOOSE e : Sums(e, f, V)
  <2>1. Sums(g, f, T) /\ Sums(h, f, V)
    BY SumsExist
  <2>2. Fold(f, T) = g[T] /\ Fold(f, V) = h[V]
    BY DEF Fold
  <2>3. IsFiniteSet(V)
    BY FS_Subset
  <2> HIDE DEF g, h
  <2>4. g[V] = h[V]
    BY <2>1, <2>3, SumsAgree
  <2>5. g[T] = IF T = {} THEN 0 ELSE f[Some(T)] + g[V]
    BY <2>1 DEF Sums
  <2>6. T # {} => Some(T) \in T
    BY DEF Some
  <2> QED
    BY <2>2, <2>4, <2>5, <2>6
<1>2. ASSUME NEW T \in SUBSET S, \A U \in SUBSET T : U # T => U \in Good PROVE T \in Good
  <2>1. CASE T = {}
    <3>1. Fold(f, T) = 0
      BY <1>1, <2>1
    <3> QED
      BY <2>1, <3>1
  <2>2. CASE T # {}
    <3> DEFINE c == Some(T)
    <3>1. c \in T /\ Fold(f, T) = f[c] + Fold(f, T \ {c})
      BY <1>1, <2>2
    <3> HIDE DEF c
    <3>2. T \ {c} \in Good /\ f[c] \in Nat
      BY <1>2, <3>1
    <3>3. ASSUME NEW x \in T PROVE Fold(f, T) = f[x] + Fold(f, T \ {x})
      <4>1. CASE x = c
        BY <3>1, <4>1
      <4>2. CASE x # c
        <5>1. T \ {x} \in Good /\ c \in T \ {x} /\ x \in T \ {c} /\ f[x] \in Nat
          BY <1>2, <3>1, <4>2
        <5>2. (T \ {x}) \ {c} = (T \ {c}) \ {x} /\ (T \ {c}) \ {x} \in Good
          BY <1>2, <3>1
        <5>3. Fold(f, T \ {x}) = f[c] + Fold(f, (T \ {c}) \ {x})
          BY <5>1, <5>2
        <5>4. Fold(f, T \ {c}) = f[x] + Fold(f, (T \ {c}) \ {x})
          BY <3>2, <5>1
        <5>5. Fold(f, (T \ {c}) \ {x}) \in Nat
          BY <5>2
        <5> QED
          BY <3>1, <3>2, <5>1, <5>3, <5>4, <5>5
      <4> QED
        BY <4>1, <4>2
    <3>4. Fold(f, T) \in Nat
      BY <3>1, <3>2
    <3> QED
      BY <3>3, <3>4
  <2> QED
    BY <2>1, <2>2
<1> HIDE DEF Good
<1>3. \A T \in SUBSET S : T \in Good
  BY <1>2, BySize
<1>4. {} \in SUBSET S
  OBVIOUS
<1> QED
  BY <1>1, <1>3, <1>4 DEF Good


\* Terms that are nothing add nothing.
LEMMA FoldOfZeros ==
  ASSUME NEW S, IsFiniteSet(S), NEW f, \A x \in S : f[x] \in Nat,
         NEW T \in SUBSET S, \A x \in S \ T : f[x] = 0
  PROVE  Fold(f, S) = Fold(f, T)
<1> DEFINE Good == {U \in SUBSET S : T \subseteq U => Fold(f, U) = Fold(f, T)}
<1>1. ASSUME NEW U \in SUBSET S, \A V \in SUBSET U : V # U => V \in Good PROVE U \in Good
  <2>1. CASE U = T \/ ~(T \subseteq U)
    BY <2>1
  <2>2. CASE U # T /\ T \subseteq U
    <3>1. PICK x \in U : x \notin T
      BY <2>2
    <3>2. U \ {x} \in Good /\ T \subseteq U \ {x}
      BY <1>1, <2>2, <3>1
    <3>3. Fold(f, U) = f[x] + Fold(f, U \ {x}) /\ f[x] = 0 /\ Fold(f, T) \in Nat
      BY <3>1, FoldStep
    <3> QED
      BY <3>2, <3>3
  <2> QED
    BY <2>1, <2>2
<1> HIDE DEF Good
<1>2. S \in Good
  BY <1>1, BySize
<1> QED
  BY <1>2 DEF Good

\* Equal terms have equal sums.
LEMMA FoldAgrees ==
  ASSUME NEW S, IsFiniteSet(S), NEW f, NEW e, \A x \in S : f[x] = e[x]
  PROVE  Fold(f, S) = Fold(e, S)
<1> DEFINE g == CHOOSE k : Sums(k, f, S)
           h == CHOOSE k : Sums(k, e, S)
<1>1. Sums(g, f, S) /\ Sums(h, e, S)
  BY SumsExist
<1>2. Fold(f, S) = g[S] /\ Fold(e, S) = h[S]
  BY DEF Fold
<1> HIDE DEF g, h
<1> QED
  BY <1>1, <1>2, SumsAgree

\* A term that is exchanged changes the sum by the difference.
LEMMA FoldExchange ==
  ASSUME NEW S, IsFiniteSet(S), NEW f, NEW e, NEW x \in S, \A y \in S : f[y] \in Nat /\ e[y] \in Nat,
         \A y \in S \ {x} : f[y] = e[y]
  PROVE  Fold(f, S) + e[x] = Fold(e, S) + f[x]
<1>1. Fold(f, S) = f[x] + Fold(f, S \ {x}) /\ Fold(e, S) = e[x] + Fold(e, S \ {x})
  <2>1. S \in SUBSET S /\ (\A y \in S : f[y] \in Nat) /\ (\A y \in S : e[y] \in Nat)
    OBVIOUS
  <2>2. Fold(f, S) = f[x] + Fold(f, S \ {x})
    BY <2>1, FoldStep
  <2>3. Fold(e, S) = e[x] + Fold(e, S \ {x})
    BY <2>1, FoldStep
  <2> QED
    BY <2>2, <2>3
<1>2. Fold(f, S \ {x}) = Fold(e, S \ {x})
  BY FS_Subset, FoldAgrees
<1>3. Fold(f, S \ {x}) \in Nat /\ f[x] \in Nat /\ e[x] \in Nat
  BY FoldStep
<1> QED
  BY <1>1, <1>2, <1>3

\* Each term that is exchanged for one of at most m adds at most m.
LEMMA FoldBound ==
  ASSUME NEW S, IsFiniteSet(S), NEW f, NEW e, \A x \in S : f[x] \in Nat /\ e[x] \in Nat,
         NEW m \in Nat, NEW T \in SUBSET S, \A x \in T : e[x] <= m
  PROVE  Fold([x \in S |-> IF x \in T THEN e[x] ELSE f[x]], S) <= Fold(f, S) + Cardinality(T) * m
<1> DEFINE mix(U) == [x \in S |-> IF x \in U THEN e[x] ELSE f[x]]
           Good == {U \in SUBSET T : Fold(mix(U), S) <= Fold(f, S) + Cardinality(U) * m}
<1>0. Fold(f, S) \in Nat /\ \A U \in SUBSET T : IsFiniteSet(U) /\ Cardinality(U) \in Nat /\ Fold(mix(U), S) \in Nat
  <2>1. Fold(f, S) \in Nat
    BY FoldStep
  <2>2. ASSUME NEW U \in SUBSET T PROVE IsFiniteSet(U) /\ Cardinality(U) \in Nat
    BY FS_Subset, FS_CardinalityType
  <2>3. ASSUME NEW U \in SUBSET T PROVE Fold(mix(U), S) \in Nat
    <3>1. \A x \in S : mix(U)[x] \in Nat
      OBVIOUS
    <3> HIDE DEF mix
    <3> QED
      BY <3>1, FoldStep
  <2> QED
    BY <2>1, <2>2, <2>3
<1>1. ASSUME NEW U \in SUBSET T, \A V \in SUBSET U : V # U => V \in Good PROVE U \in Good
  <2>1. CASE U = {}
    <3>1. \A x \in S : mix(U)[x] = f[x]
      BY <2>1
    <3> HIDE DEF mix
    <3>2. Fold(mix(U), S) = Fold(f, S)
      BY <3>1, FoldAgrees
    <3>3. Cardinality(U) * m = 0
      BY <2>1, FS_EmptySet
    <3> QED
      BY <1>0, <3>2, <3>3
  <2>2. CASE U # {}
    <3>1. PICK x \in U : TRUE
      BY <2>2
    <3> DEFINE V == U \ {x}
    <3>2. V \in Good /\ V \in SUBSET T
      BY <1>1, <3>1
    <3>3. Cardinality(U) = Cardinality(V) + 1
      <4>1. Cardinality(V) = Cardinality(U) - 1 /\ Cardinality(U) \in Nat
        BY <1>0, <3>1, FS_RemoveElement
      <4> QED
        BY <4>1
    <3>4. /\ \A y \in S : mix(U)[y] \in Nat /\ mix(V)[y] \in Nat
          /\ \A y \in S \ {x} : mix(U)[y] = mix(V)[y]
          /\ mix(U)[x] = e[x] /\ mix(V)[x] = f[x]
      BY <3>1
    <3>5. Fold(mix(V), S) <= Fold(f, S) + Cardinality(V) * m
      BY <3>2
    <3> HIDE DEF mix, V
    <3>6. Fold(mix(U), S) + f[x] = Fold(mix(V), S) + e[x]
      <4>1. PICK u, v : u = mix(U) /\ v = mix(V)
        OBVIOUS
      <4>2. /\ x \in S /\ \A y \in S : u[y] \in Nat /\ v[y] \in Nat
            /\ \A y \in S \ {x} : u[y] = v[y]
            /\ u[x] = e[x] /\ v[x] = f[x]
        BY <3>1, <3>4, <4>1
      <4>3. Fold(u, S) + v[x] = Fold(v, S) + u[x]
        BY <4>2, FoldExchange
      <4> QED
        BY <4>1, <4>2, <4>3
    <3>7. Fold(mix(U), S) <= Fold(mix(V), S) + m
      BY <1>0, <3>1, <3>2, <3>6
    <3>8. Cardinality(U) * m = Cardinality(V) * m + m /\ Cardinality(V) * m \in Nat
      BY <1>0, <3>2, <3>3
    <3> QED
      BY <1>0, <3>2, <3>5, <3>7, <3>8
  <2> QED
    BY <2>1, <2>2
<1> HIDE DEF Good
<1>2. T \in Good
  BY <1>1, BySize, FS_Subset
<1> QED
  BY <1>2 DEF Good

\* A finite set of numbers has a greatest one.
LEMMA GreatestNumber ==
  ASSUME NEW S \in SUBSET Nat, IsFiniteSet(S), S # {}
  PROVE  Max(S) \in S /\ \A n \in S : n <= Max(S)
<1> DEFINE Good == {T \in SUBSET S : T # {} => \E n \in T : \A k \in T : n >= k}
<1>1. ASSUME NEW T \in SUBSET S, \A U \in SUBSET T : U # T => U \in Good PROVE T \in Good
  <2>1. CASE T = {}
    BY <2>1
  <2>2. CASE T # {}
    <3>1. PICK x \in T : TRUE
      BY <2>2
    <3>2. T \ {x} \in Good
      BY <1>1, <3>1
    <3>3. CASE T \ {x} = {}
      <4>1. \A k \in T : x >= k
        BY <3>1, <3>3
      <4> QED
        BY <3>1, <4>1
    <3>4. CASE T \ {x} # {}
      <4>1. PICK n \in T \ {x} : \A k \in T \ {x} : n >= k
        BY <3>2, <3>4
      <4>2. CASE n >= x
        BY <4>1, <4>2
      <4>3. CASE ~(n >= x)
        <5>1. \A k \in T : x >= k
          BY <4>1, <4>3, <3>1
        <5> QED
          BY <3>1, <5>1
      <4> QED
        BY <4>2, <4>3
    <3> QED
      BY <3>3, <3>4
  <2> QED
    BY <2>1, <2>2
<1> HIDE DEF Good
<1>2. S \in Good
  BY <1>1, BySize
<1>3. \E n \in S : \A k \in S : n >= k
  BY <1>2 DEF Good
<1>4. Max(S) \in S /\ \A k \in S : Max(S) >= k
  BY <1>3 DEF Max
<1> QED
  BY <1>4

\* What countAllowedSince() reads is such a sum.
LEMMA SpentIsFold ==
  ASSUME NEW root, IsFiniteSet(Requests)
  PROVE Spent(root) = Fold([r \in Requests |-> row[r].count], {r \in Requests : row[r].decision = "allow" /\ Root(req[r].who) = root})
<1> DEFINE S == {r \in Requests : row[r].decision = "allow" /\ Root(req[r].who) = root}
           f == [r \in Requests |-> row[r].count]
           Body(g) == [T \in SUBSET S |-> IF T = {} THEN 0 ELSE row[CHOOSE x \in T : TRUE].count + g[T \ {CHOOSE x \in T : TRUE}]]
<1>1. Spent(root) = (CHOOSE g : g = Body(g))[S]
  BY DEF Spent, MapThenSumSet, MapThenFoldSet
<1>2. IsFiniteSet(S)
  BY FS_Subset
<1>3. \A T \in SUBSET S : T # {} => f[CHOOSE x \in T : TRUE] = row[CHOOSE x \in T : TRUE].count
  OBVIOUS
<1> HIDE DEF S, f
<1>4. \A g : Sums(g, f, S) <=> g = Body(g)
  BY <1>3 DEF Sums, Some
<1>5. \E g : Sums(g, f, S)
  BY <1>2, SumsExist
<1>6. Sums(CHOOSE g : g = Body(g), f, S)
  <2> HIDE DEF Body
  <2>1. \E g : g = Body(g)
    BY <1>4, <1>5
  <2>2. (CHOOSE g : g = Body(g)) = Body(CHOOSE g : g = Body(g))
    BY <2>1
  <2> QED
    BY <1>4, <2>2
<1>7. Spent(root) = Fold(f, S)
  BY <1>1, <1>2, <1>5, <1>6, SumsAgree DEF Fold
<1> QED
  BY <1>7 DEF f, S

-----------------------------------------------------------------------------
(* The budget: what an agent's open requests may still add to its bill.             *)

\* Where a request is that the budget gate has let through and nobody has billed yet.
Unbilled == {"held_dlp", "vault", "forwarding"}

Gated(root) == {r \in Requests : pc[r] \in Unbilled /\ Root(req[r].who) = root}

Billed(root) == {r \in Requests : row[r].count > 0 /\ Root(req[r].who) = root}

\* What an agent has spent once the requests of S are billed as well.
Owed(root, S) ==
  Fold([r \in Requests |-> IF r \in S THEN req[r].cost
                           ELSE IF Root(req[r].who) = root THEN row[r].count ELSE 0], Requests)

Slack == (MaxInFlight - 1) * Max(Costs)

\* Whichever of them are billed: it is at most Slack above the limit of some billed one.
Reserved ==
  \A root \in Agents : \A S \in SUBSET Gated(root) :
    Owed(root, S) = 0 \/ \E x \in S \union Billed(root) : Owed(root, S) <= seen[x].limit + Slack

BudgetInv == Reserved /\ Cardinality(InFlight) <= MaxInFlight

\* Costs are numbers, of real requests among the costs.
LEMMA CostsAreNumbers ==
  ASSUME IInv, NEW r \in Requests
  PROVE  /\ req[r].cost \in Nat /\ row[r].count \in Nat
         /\ pc[r] # "done" => row[r].count = 0
         /\ row[r].count > 0 => row[r].decision = "allow"
         /\ Root(req[r].who) \in Agents => /\ req[r].cost \in Costs /\ Max(Costs) \in Nat
                                           /\ req[r].cost <= Max(Costs)
<1>1. req[r] \in Request \/ req[r] = NoRequest
  BY DEF IInv, Typed
<1>2. ASSUME req[r] \in Request
      PROVE  req[r].cost \in Costs /\ req[r].cost \in Nat /\ Max(Costs) \in Nat /\ req[r].cost <= Max(Costs)
  <2>1. req[r].cost \in Costs /\ Costs \in SUBSET Nat /\ IsFiniteSet(Costs)
    BY <1>2, PipelineAssumption, LogAssumption DEF Request
  <2>2. Max(Costs) \in Costs /\ \A n \in Costs : n <= Max(Costs)
    BY <2>1, GreatestNumber
  <2> QED
    BY <2>1, <2>2
<1>3. ASSUME req[r] = NoRequest PROVE req[r].cost \in Nat /\ Root(req[r].who) \notin Agents
  BY <1>3, PipelineAssumption DEF NoRequest, Root, Nodes
<1>4. row[r].count \in Nat
  <2>1. row[r] \in Row \/ row[r] = NoRow
    BY DEF IInv, Typed
  <2> QED
    BY <2>1 DEF Row, NoRow
<1>5. pc[r] # "done" => row[r].count = 0
  BY DEF IInv, LogIsHonest, Waived, NoRow
<1>6. row[r].count > 0 => row[r].decision = "allow"
  BY DEF IInv, LogIsHonest, Waived
<1> QED
  BY <1>1, <1>2, <1>3, <1>4, <1>5, <1>6

\* With nothing else to come, what is owed is what countAllowedSince() reads.
LEMMA SpentIsOwed == ASSUME IInv, NEW root PROVE Spent(root) = Owed(root, {})
<1> DEFINE S == {r \in Requests : row[r].decision = "allow" /\ Root(req[r].who) = root}
           f == [r \in Requests |-> row[r].count]
           e == [r \in Requests |-> IF r \in {} THEN req[r].cost
                                    ELSE IF Root(req[r].who) = root THEN row[r].count ELSE 0]
<1>1. Spent(root) = Fold(f, S)
  BY LogAssumption, SpentIsFold
<1>2. /\ \A r \in Requests : e[r] \in Nat
      /\ \A r \in S : e[r] = f[r]
      /\ \A r \in Requests \ S : e[r] = 0
  <2>1. \A r \in Requests : row[r].count \in Nat /\ (row[r].count > 0 => row[r].decision = "allow")
    BY CostsAreNumbers
  <2> QED
    BY <2>1
<1>3. S \in SUBSET Requests /\ IsFiniteSet(S) /\ IsFiniteSet(Requests)
  BY LogAssumption, FS_Subset
<1>4. Owed(root, {}) = Fold(e, Requests)
  BY DEF Owed
<1> HIDE DEF S, f, e
<1>5. Fold(e, Requests) = Fold(e, S)
  BY <1>2, <1>3, FoldOfZeros
<1>6. Fold(f, S) = Fold(e, S)
  BY <1>2, <1>3, FoldAgrees
<1> QED
  BY <1>1, <1>4, <1>5, <1>6

\* A step that bills nobody and lets nobody past the gate.
LEMMA QuietKeepsReserved ==
  ASSUME IInv, Reserved,
         \A x \in Requests : /\ row'[x].count = row[x].count
                             /\ pc[x] = "unsent" \/ req'[x] = req[x]
                             /\ pc'[x] \in Unbilled => pc[x] \in Unbilled
                             /\ pc[x] \in Unbilled \/ pc[x] = "done" => seen'[x] = seen[x]
  PROVE  Reserved'
<1> SUFFICES ASSUME NEW root \in Agents, NEW S \in SUBSET Gated(root)'
             PROVE  \/ Owed(root, S)' = 0
                    \/ \E x \in S \union Billed(root)' : Owed(root, S)' <= seen'[x].limit + Slack
  BY DEF Reserved, Slack
<1>1. S \in SUBSET Gated(root)
  BY DEF Gated, Unbilled
<1>2. \A x \in Requests : (IF x \in S THEN req'[x].cost ELSE IF Root(req'[x].who) = root THEN row'[x].count ELSE 0)
                        = (IF x \in S THEN req[x].cost ELSE IF Root(req[x].who) = root THEN row[x].count ELSE 0)
  BY <1>1, CostsAreNumbers DEF Gated, Unbilled
<1>3. Owed(root, S)' = Owed(root, S)
  BY <1>2 DEF Owed
<1>4. \A x \in S \union Billed(root) : x \in S \union Billed(root)' /\ seen'[x] = seen[x]
  BY <1>1, CostsAreNumbers DEF Gated, Billed, Unbilled
<1> QED
  BY <1>1, <1>3, <1>4 DEF Reserved

\* The gate: the limit is kept by what has been billed and this one, and the others that are
\* open cost no more than Slack.
LEMMA GateKeepsReserved ==
  ASSUME IInv, Reserved, NEW r \in Requests, pc[r] \notin Unbilled \union {"unsent", "done"},
         WithinBudget(r, seen'[r]), seen'[r] \in Snapshot, UNCHANGED <<row, req>>,
         \A x \in Requests : x # r => pc'[x] = pc[x] /\ seen'[x] = seen[x],
         pc'[r] \in Unbilled, Cardinality(InFlight) <= MaxInFlight
  PROVE  Reserved'
<1> SUFFICES ASSUME NEW root \in Agents, NEW S \in SUBSET Gated(root)'
             PROVE  \/ Owed(root, S)' = 0
                    \/ \E x \in S \union Billed(root)' : Owed(root, S)' <= seen'[x].limit + Slack
  BY DEF Reserved, Slack
<1>1. Owed(root, S)' = Owed(root, S)
  BY DEF Owed
<1>2. Billed(root)' = Billed(root) /\ \A x \in Billed(root) : x # r
  BY CostsAreNumbers DEF Billed
<1>3. CASE r \notin S
  <2>1. S \in SUBSET Gated(root)
    BY <1>3 DEF Gated
  <2>2. \A x \in S \union Billed(root) : x \in S \union Billed(root)' /\ seen'[x] = seen[x]
    <3>1. S \subseteq Requests /\ Billed(root) \subseteq Requests
      BY DEF Gated, Billed
    <3> QED
      BY <1>2, <1>3, <3>1
  <2> QED
    BY <1>1, <2>1, <2>2 DEF Reserved
<1>4. CASE r \in S
  <2> DEFINE T == S \ {r}
             f == [x \in Requests |-> IF x \in {} THEN req[x].cost
                                      ELSE IF Root(req[x].who) = root THEN row[x].count ELSE 0]
             one == [x \in Requests |-> IF x \in {r} THEN req[x].cost ELSE f[x]]
             c == [x \in Requests |-> req[x].cost]
             m == Max(Costs)
  <2>1. /\ \A x \in Requests : f[x] \in Nat /\ c[x] \in Nat /\ one[x] \in Nat
        /\ \A x \in S : c[x] <= m
        /\ m \in Nat /\ f[r] = 0 /\ Root(req[r].who) = root
    <3>1. Root(req[r].who) = root
      BY <1>4 DEF Gated
    <3>2. \A x \in S : Root(req[x].who) = root /\ x \in Requests
      BY DEF Gated
    <3> QED
      BY <3>1, <3>2, CostsAreNumbers
  <2>2. S \in SUBSET InFlight
    BY DEF Gated, InFlight, Unbilled
  <2>3. IsFiniteSet(Requests) /\ IsFiniteSet(InFlight) /\ IsFiniteSet(S) /\ S \in SUBSET Requests /\ T \in SUBSET Requests
    BY <2>2, LogAssumption, FS_Subset DEF InFlight
  <2>4. Cardinality(T) + 1 <= MaxInFlight /\ Cardinality(T) \in Nat /\ MaxInFlight \in Nat
    <3>1. Cardinality(S) <= Cardinality(InFlight) /\ Cardinality(S) \in Nat /\ Cardinality(InFlight) \in Nat
      BY <2>2, <2>3, FS_Subset, FS_CardinalityType
    <3>2. Cardinality(T) = Cardinality(S) - 1 /\ IsFiniteSet(T)
      BY <1>4, <2>3, FS_RemoveElement
    <3>3. Cardinality(T) \in Nat
      BY <3>2, FS_CardinalityType
    <3> QED
      BY <3>1, <3>2, <3>3, LogAssumption
  <2>5. Owed(root, {}) = Fold(f, Requests)
    BY DEF Owed
  <2>6. /\ \A x \in Requests \ {r} : f[x] = one[x]
        /\ one[r] = c[r]
    OBVIOUS
  <2>7. [x \in Requests |-> IF x \in T THEN c[x] ELSE one[x]]
        = [x \in Requests |-> IF x \in S THEN req[x].cost
                              ELSE IF Root(req[x].who) = root THEN row[x].count ELSE 0]
    BY <1>4
  <2>8. Owed(root, S) = Fold([x \in Requests |-> IF x \in T THEN c[x] ELSE one[x]], Requests)
    BY <2>7 DEF Owed
  <2>9. c[r] = req[r].cost
    OBVIOUS
  <2> HIDE DEF f, c, one, m
  <2>10. Fold(f, Requests) + one[r] = Fold(one, Requests) + f[r]
    <3>1. \A x \in Requests : f[x] \in Nat /\ one[x] \in Nat
      BY <2>1
    <3>2. IsFiniteSet(Requests) /\ r \in Requests /\ \A x \in Requests \ {r} : f[x] = one[x]
      BY <1>4, <2>3, <2>6
    <3> HIDE DEF T
    <3> QED
      BY <3>1, <3>2, FoldExchange
  <2>11. Fold([x \in Requests |-> IF x \in T THEN c[x] ELSE one[x]], Requests) <= Fold(one, Requests) + Cardinality(T) * m
    <3>1. \A x \in T : c[x] <= m
      BY <2>1
    <3> HIDE DEF T
    <3> QED
      BY <2>1, <2>3, <3>1, FoldBound
  <2>12. Fold(f, Requests) \in Nat /\ Fold(one, Requests) \in Nat
    <3>1. Requests \in SUBSET Requests /\ (\A x \in Requests : f[x] \in Nat) /\ (\A x \in Requests : one[x] \in Nat)
      BY <2>1
    <3> QED
      BY <2>3, <3>1, FoldStep
  <2>13. Spent(root) + req[r].cost <= seen'[r].limit /\ Spent(root) = Fold(f, Requests)
    BY <2>1, <2>5, SpentIsOwed DEF WithinBudget
  <2>14. Fold(one, Requests) <= seen'[r].limit
    BY <2>1, <2>6, <2>9, <2>10, <2>12, <2>13
  <2>15. Cardinality(T) * m <= Slack
    <3>1. Cardinality(T) <= MaxInFlight - 1
      BY <2>4
    <3>2. PICK d \in Nat : MaxInFlight - 1 = Cardinality(T) + d
      <4> DEFINE d == (MaxInFlight - 1) - Cardinality(T)
      <4>1. d \in Nat /\ MaxInFlight - 1 = Cardinality(T) + d
        BY <2>4
      <4> QED
        BY <4>1
    <3>3. (Cardinality(T) + d) * m = Cardinality(T) * m + d * m /\ d * m \in Nat /\ Cardinality(T) * m \in Nat
      BY <2>1, <2>4
    <3> QED
      BY <3>2, <3>3 DEF Slack, m
  <2>16. seen'[r].limit \in Nat /\ Cardinality(T) * m \in Int /\ Slack \in Int
    BY <2>1, <2>4 DEF Snapshot, Slack, m
  <2>17. Owed(root, S) <= seen'[r].limit + Slack
    <3>1. Owed(root, S) \in Nat
      <4>1. \A x \in Requests : [y \in Requests |-> IF y \in T THEN c[y] ELSE one[y]][x] \in Nat
        BY <2>1
      <4>2. Requests \in SUBSET Requests
        OBVIOUS
      <4> HIDE DEF T
      <4> QED
        BY <2>3, <2>8, <4>1, <4>2, FoldStep
    <3> QED
      BY <2>8, <2>11, <2>12, <2>14, <2>15, <2>16, <3>1
  <2> QED
    BY <1>1, <1>4, <2>17
<1> QED
  BY <1>3, <1>4

\* The bill: a request that was to come becomes one that has come, at the same cost.
LEMMA BillKeepsReserved ==
  ASSUME IInv, Reserved, NEW r \in Requests, pc[r] \in Unbilled, pc'[r] = "done",
         row'[r].count = req[r].cost, req[r].cost > 0, UNCHANGED <<req, seen>>,
         \A x \in Requests : x # r => pc'[x] = pc[x] /\ row'[x] = row[x]
  PROVE  Reserved'
<1> SUFFICES ASSUME NEW root \in Agents, NEW S \in SUBSET Gated(root)'
             PROVE  \/ Owed(root, S)' = 0
                    \/ \E x \in S \union Billed(root)' : Owed(root, S)' <= seen'[x].limit + Slack
  BY DEF Reserved, Slack
<1>1. S \in SUBSET Gated(root) /\ r \notin S
  BY DEF Gated, Unbilled
<1>2. CASE Root(req[r].who) = root
  <2> DEFINE R == S \union {r}
  <2>1. R \in SUBSET Gated(root)
    BY <1>1, <1>2 DEF Gated
  <2>2. \A x \in Requests : (IF x \in S THEN req'[x].cost ELSE IF Root(req'[x].who) = root THEN row'[x].count ELSE 0)
                          = (IF x \in R THEN req[x].cost ELSE IF Root(req[x].who) = root THEN row[x].count ELSE 0)
    BY <1>1, <1>2
  <2>3. Owed(root, S)' = Owed(root, R)
    BY <2>2 DEF Owed
  <2>4. R \union Billed(root) \subseteq S \union Billed(root)'
    BY <1>2 DEF Billed
  <2> QED
    BY <2>1, <2>3, <2>4 DEF Reserved
<1>3. CASE Root(req[r].who) # root
  <2>1. \A x \in Requests : (IF x \in S THEN req'[x].cost ELSE IF Root(req'[x].who) = root THEN row'[x].count ELSE 0)
                          = (IF x \in S THEN req[x].cost ELSE IF Root(req[x].who) = root THEN row[x].count ELSE 0)
    BY <1>1, <1>3
  <2>2. Owed(root, S)' = Owed(root, S)
    BY <2>1 DEF Owed
  <2>3. Billed(root) \subseteq Billed(root)'
    BY <1>3 DEF Billed
  <2> QED
    BY <1>1, <2>2, <2>3 DEF Reserved
<1> QED
  BY <1>2, <1>3

-----------------------------------------------------------------------------

\* A step that lets nobody past the gate and opens nothing keeps both parts.
LEMMA QuietKeepsBudget ==
  ASSUME IInv, BudgetInv,
         \A x \in Requests : /\ row'[x].count = row[x].count
                             /\ req'[x] = req[x]
                             /\ pc'[x] \in Unbilled => pc[x] \in Unbilled
                             /\ pc[x] \in {"unsent", "done"} => pc'[x] = pc[x]
                             /\ pc[x] \in Unbilled \/ pc[x] = "done" => seen'[x] = seen[x]
  PROVE  BudgetInv'
<1>1. Reserved'
  BY QuietKeepsReserved DEF BudgetInv
<1>2. Cardinality(InFlight') <= MaxInFlight
  <2>1. InFlight' \in SUBSET InFlight /\ IsFiniteSet(InFlight)
    BY LogAssumption, FS_Subset DEF InFlight
  <2>2. /\ Cardinality(InFlight') <= Cardinality(InFlight)
        /\ Cardinality(InFlight) \in Nat /\ Cardinality(InFlight') \in Nat
    BY <2>1, FS_Subset, FS_CardinalityType
  <2> QED
    BY <2>2, LogAssumption DEF BudgetInv
<1> QED
  BY <1>1, <1>2 DEF BudgetInv

\* A refusal bills nobody.
LEMMA DenyKeepsBudget ==
  ASSUME IInv, BudgetInv, NEW r \in Requests, NEW d, NEW w, Deny(r, d, w), pc[r] \notin {"unsent", "done"},
         \A x \in Requests : pc[x] \in Unbilled \/ pc[x] = "done" => seen'[x] = seen[x]
  PROVE  BudgetInv'
<1>1. \A x \in Requests : row'[x].count = row[x].count
  BY CostsAreNumbers DEF Deny, IInv, Typed
<1>2. \A x \in Requests : /\ req'[x] = req[x]
                          /\ pc'[x] \in Unbilled => pc[x] \in Unbilled
                          /\ pc[x] \in {"unsent", "done"} => pc'[x] = pc[x]
  BY DEF Deny, IInv, Typed, Unbilled
<1> QED
  BY <1>1, <1>2, QuietKeepsBudget

\* A step forward, past the gate or not, bills nobody; past it, the gate has let it through.
LEMMA MoveKeepsBudget ==
  ASSUME IInv, BudgetInv, NEW r \in Requests, NEW stage \in {"reading", "held"} \union Unbilled, MoveTo(r, stage),
         pc[r] \notin {"unsent", "done"},
         seen' \in [Requests -> Snapshot],
         \A x \in Requests : x # r \/ pc[x] \in Unbilled => seen'[x] = seen[x],
         stage \in Unbilled => pc[r] \in Unbilled \/ WithinBudget(r, seen'[r])
  PROVE  BudgetInv'
<1>1. /\ UNCHANGED <<row, req>> /\ pc'[r] = stage
      /\ \A x \in Requests : x # r => pc'[x] = pc[x]
  BY DEF MoveTo, IInv, Typed
<1>2. CASE stage \in Unbilled => pc[r] \in Unbilled
  BY <1>1, <1>2, QuietKeepsBudget
<1>3. CASE stage \in Unbilled /\ pc[r] \notin Unbilled
  <2>1. Reserved'
    BY <1>1, <1>3, GateKeepsReserved DEF BudgetInv
  <2>2. InFlight' = InFlight
    BY <1>1, <1>3 DEF InFlight, Unbilled
  <2> QED
    BY <2>1, <2>2 DEF BudgetInv
<1> QED
  BY <1>2, <1>3

\* The egress guard, for a request that the budget gate lets through or has let through.
LEMMA ToVaultKeepsBudget ==
  ASSUME IInv, BudgetInv, NEW r \in Requests, ToVault(r), pc[r] \notin {"unsent", "done"},
         seen' \in [Requests -> Snapshot],
         \A x \in Requests : x # r \/ pc[x] \in Unbilled => seen'[x] = seen[x],
         pc[r] \in Unbilled \/ WithinBudget(r, seen'[r])
  PROVE  BudgetInv'
<1>1. "vault" \in {"reading", "held"} \union Unbilled
  BY DEF Unbilled
<1>2. \A x \in Requests : pc[x] \in Unbilled \/ pc[x] = "done" => seen'[x] = seen[x]
  OBVIOUS
<1> QED
  BY <1>1, <1>2, MoveKeepsBudget, DenyKeepsBudget DEF ToVault

\* What follows a yes: nothing gets past it but through the gate.
LEMMA ClearedKeepsBudget ==
  ASSUME IInv, BudgetInv, NEW r \in Requests, Cleared(r, seen'[r]), pc[r] \in {"reading", "held"},
         seen' \in [Requests -> Snapshot], \A x \in Requests : x # r => seen'[x] = seen[x]
  PROVE  BudgetInv'
<1>1. pc[r] \notin Unbilled /\ "held_dlp" \in {"reading", "held"} \union Unbilled
  BY DEF Unbilled
<1>2. CASE Deny(r, "deny", "budget_exceeded") \/ Deny(r, "deny", "dlp_secret_detected")
  BY <1>1, <1>2, DenyKeepsBudget
<1>3. CASE BudgetGate(r, seen'[r]) /\ MoveTo(r, "held_dlp")
  BY <1>1, <1>3, MoveKeepsBudget DEF BudgetGate
<1>4. CASE BudgetGate(r, seen'[r]) /\ ToVault(r)
  BY <1>1, <1>4, ToVaultKeepsBudget DEF BudgetGate
<1> QED
  BY <1>2, <1>3, <1>4 DEF Cleared, OverBudget

\* The end of a request that was sent on: billed at its cost, or not at all.
LEMMA FinishKeepsBudget ==
  ASSUME IInv, BudgetInv, NEW r \in Requests, NEW newRow, NEW told, Finish(r, newRow, told),
         pc[r] = "forwarding", newRow.count \in {0, req[r].cost}
  PROVE  BudgetInv'
<1>1. /\ pc'[r] = "done" /\ row'[r] = newRow /\ UNCHANGED <<req, seen>>
      /\ \A x \in Requests : x # r => pc'[x] = pc[x] /\ row'[x] = row[x]
  BY DEF Finish, IInv, Typed
<1>2. row[r].count = 0 /\ pc[r] \in Unbilled /\ req[r].cost \in Nat
  BY CostsAreNumbers DEF Unbilled
<1>3. CASE newRow.count = 0
  BY <1>1, <1>2, <1>3, QuietKeepsBudget DEF Unbilled
<1>4. CASE newRow.count = req[r].cost /\ req[r].cost > 0
  <2>1. Reserved'
    BY <1>1, <1>2, <1>4, BillKeepsReserved DEF BudgetInv
  <2>2. InFlight' \in SUBSET InFlight /\ IsFiniteSet(InFlight)
    BY <1>1, LogAssumption, FS_Subset DEF InFlight
  <2>3. /\ Cardinality(InFlight') <= Cardinality(InFlight)
        /\ Cardinality(InFlight) \in Nat /\ Cardinality(InFlight') \in Nat
    BY <2>2, FS_Subset, FS_CardinalityType
  <2> QED
    BY <2>1, <2>3, LogAssumption DEF BudgetInv
<1> QED
  BY <1>2, <1>3, <1>4

\* A request that arrives is one more, of those there may be, and owes nothing yet.
LEMMA ArriveKeepsBudget == ASSUME IInv, BudgetInv, NEW r \in Requests, NEW q \in Sent, Arrive(r, q) PROVE BudgetInv'
<1>1. /\ pc[r] = "unsent" /\ pc'[r] = "authenticating" /\ UNCHANGED <<row, seen>>
      /\ \A x \in Requests : x # r => pc'[x] = pc[x] /\ req'[x] = req[x]
  BY DEF Arrive, IInv, Typed
<1>2. Reserved'
  BY <1>1, QuietKeepsReserved DEF BudgetInv, Unbilled
<1>3. InFlight' = InFlight \union {r} /\ r \notin InFlight /\ IsFiniteSet(InFlight)
  BY <1>1, LogAssumption, FS_Subset DEF InFlight
<1>4. Cardinality(InFlight') = Cardinality(InFlight) + 1 /\ Cardinality(InFlight) \in Nat
  BY <1>3, FS_AddElement, FS_CardinalityType
<1>5. Cardinality(InFlight) < MaxInFlight
  BY DEF Arrive
<1> QED
  BY <1>2, <1>4, <1>5, LogAssumption DEF BudgetInv

\* Each step of dispatch() is one of these.
LEMMA DispatchKeepsBudget == ASSUME IInv, BudgetInv, NEW r \in Requests, Dispatch(r) PROVE BudgetInv'
<1>1. policy \in Snapshot /\ seen \in [Requests -> Snapshot]
  BY DEF IInv, Typed
<1>2. CASE \/ NoPrincipal(r) \/ TouchDecoyToken(r) \/ KillSwitch(r) \/ Misrouted(r) \/ TouchDecoyUpstream(r)
           \/ OutOfScope(r) \/ GateSaysNo(r) \/ VaultFails(r)
  <2>1. pc[r] \notin {"unsent", "done"} /\ seen' = seen /\ \E w : Deny(r, "deny", w)
    BY <1>2 DEF NoPrincipal, TouchDecoyToken, KillSwitch, Misrouted, TouchDecoyUpstream, PassesKillSwitch,
                Identified, OutOfScope, GateSaysNo, VaultFails
  <2> QED
    BY <2>1, DenyKeepsBudget
<1>3. CASE Admit(r) \/ BodyFails(r)
  <2>1. /\ UNCHANGED <<row, req, seen>>
        /\ pc'[r] \notin Unbilled /\ pc[r] \notin {"unsent", "done"}
        /\ \A x \in Requests : x # r => pc'[x] = pc[x]
    BY <1>3 DEF Admit, PassesKillSwitch, Identified, BodyFails, IInv, Typed, Unbilled
  <2> QED
    BY <2>1, QuietKeepsBudget
<1>4. ASSUME Sees(r)
      PROVE  /\ seen' \in [Requests -> Snapshot] /\ seen'[r] = policy /\ pc[r] = "reading"
             /\ \A x \in Requests : x # r => seen'[x] = seen[x]
  BY <1>1, <1>4 DEF Sees
<1>5. CASE Trip(r) \/ Refuse(r)
  <2>1. Sees(r) /\ \E w : Deny(r, "deny", w)
    BY <1>5 DEF Trip, Refuse
  <2>2. \A x \in Requests : pc[x] \in Unbilled \/ pc[x] = "done" => seen'[x] = seen[x]
    BY <1>4, <2>1 DEF Unbilled
  <2> QED
    BY <1>4, <2>1, <2>2, DenyKeepsBudget
<1>6. CASE Allowed(r)
  BY <1>4, <1>6, ClearedKeepsBudget DEF Allowed
<1>7. CASE Hold(r)
  <2>1. Sees(r) /\ (Deny(r, "deny", "budget_exceeded") \/ MoveTo(r, "held"))
    BY <1>7 DEF Hold, OverBudget
  <2>2. \A x \in Requests : x # r \/ pc[x] \in Unbilled => seen'[x] = seen[x]
    BY <1>4, <2>1 DEF Unbilled
  <2>3. "held" \notin Unbilled
    BY DEF Unbilled
  <2> QED
    BY <1>4, <2>1, <2>2, <2>3, DenyKeepsBudget, MoveKeepsBudget
<1>8. CASE PolicyApproved(r)
  BY <1>1, <1>8, ClearedKeepsBudget DEF PolicyApproved
<1>9. CASE SecretApproved(r) \/ VaultReturns(r)
  <2>1. pc[r] \in Unbilled /\ seen' = seen /\ pc[r] \notin {"unsent", "done"}
    BY <1>9 DEF SecretApproved, VaultReturns, Unbilled
  <2>2. CASE ToVault(r)
    BY <1>1, <2>1, <2>2, ToVaultKeepsBudget
  <2>3. CASE MoveTo(r, "forwarding")
    <3>1. "forwarding" \in {"reading", "held"} \union Unbilled
      BY DEF Unbilled
    <3> QED
      BY <1>1, <2>1, <2>3, <3>1, MoveKeepsBudget
  <2> QED
    BY <1>9, <2>2, <2>3 DEF SecretApproved, VaultReturns
<1>10. CASE Answered(r)
  <2>1. ForwardRow(r, TRUE, Billable(r)).count \in {0, req[r].cost}
    BY DEF ForwardRow, Billable
  <2> QED
    BY <1>10, <2>1, FinishKeepsBudget DEF Answered
<1>11. CASE TooLarge(r)
  BY <1>11, FinishKeepsBudget DEF TooLarge
<1>12. CASE Lost(r)
  <2>1. ForwardRow(r, FALSE, 0).count = 0
    BY DEF ForwardRow
  <2> QED
    BY <1>12, <2>1, FinishKeepsBudget DEF Lost
<1> QED
  BY <1>2, <1>3, <1>5, <1>6, <1>7, <1>8, <1>9, <1>10, <1>11, <1>12 DEF Dispatch

\* Nothing is open or billed at the start.
LEMMA InitBudget == Init => BudgetInv
<1> SUFFICES ASSUME Init PROVE BudgetInv
  OBVIOUS
<1>1. InFlight = {}
  BY DEF Init, InFlight
<1>2. Cardinality(InFlight) <= MaxInFlight
  BY <1>1, FS_EmptySet, LogAssumption
<1>3. ASSUME NEW root \in Agents, NEW S \in SUBSET Gated(root) PROVE Owed(root, S) = 0
  <2> DEFINE f == [r \in Requests |-> IF r \in S THEN req[r].cost
                                      ELSE IF Root(req[r].who) = root THEN row[r].count ELSE 0]
  <2>1. S = {} /\ Owed(root, S) = Fold(f, Requests)
    BY DEF Init, Gated, Unbilled, Owed
  <2>2. \A r \in Requests : f[r] = 0
    BY <2>1 DEF Init, NoRow
  <2>3. {} \in SUBSET Requests /\ (\A r \in Requests : f[r] \in Nat) /\ (\A r \in Requests \ {} : f[r] = 0)
    BY <2>2
  <2> HIDE DEF f
  <2>4. Fold(f, Requests) = Fold(f, {}) /\ Fold(f, {}) = 0
    BY <2>3, LogAssumption, FoldOfZeros, FoldStep
  <2> QED
    BY <2>1, <2>4
<1> QED
  BY <1>2, <1>3 DEF BudgetInv, Reserved

\* Every step keeps the budget.
LEMMA NextBudget == IInv /\ BudgetInv /\ [Next]_vars => BudgetInv'
<1> SUFFICES ASSUME IInv, BudgetInv, [Next]_vars PROVE BudgetInv'
  OBVIOUS
<1>1. ASSUME NEW r \in Requests, NEW q \in Sent, Arrive(r, q) PROVE BudgetInv'
  BY <1>1, ArriveKeepsBudget
<1>2. ASSUME NEW r \in Requests, Dispatch(r) PROVE BudgetInv'
  BY <1>2, DispatchKeepsBudget
<1>3. CASE \/ \E r \in Requests : Perform(r) \/ Disconnect(r)
           \/ Environment(Revocable, Policies) \/ UNCHANGED vars
  <2>1. UNCHANGED <<pc, req, row, seen>>
    BY <1>3 DEF Perform, Disconnect, Environment, Revoke, Restore, ReplaceFleet, FleetGoesStale, SwapPolicy, vars
  <2> QED
    BY <2>1, QuietKeepsBudget
<1> QED
  BY <1>1, <1>2, <1>3 DEF Next, Happens

(* An agent's bill passes the limit it was let through under by what its other open requests  *)
(* cost at most: for any costs, limits, policies that come and go, and any number of requests *)
(* that follow.                                                                               *)
THEOREM BillStaysBounded == Spec => []OvershootIsBounded
<1>1. Spec => []BudgetInv
  BY InitBudget, NextBudget, PipelineInvariant, PTL DEF Spec
<1>2. ASSUME IInv, BudgetInv PROVE OvershootIsBounded
  <2> SUFFICES ASSUME NEW root \in Agents, Spent(root) > 0
               PROVE  Spent(root) <= Max(Limits(root)) + Slack
    BY DEF OvershootIsBounded, Slack
  <2>1. Spent(root) = Owed(root, {}) /\ {} \in SUBSET Gated(root)
    BY <1>2, SpentIsOwed
  <2>2. Owed(root, {}) # 0
    BY <2>1
  <2>3. PICK x \in Billed(root) : Spent(root) <= seen[x].limit + Slack
    BY <1>2, <2>1, <2>2 DEF BudgetInv, Reserved
  <2>4. Limits(root) = {seen[r].limit : r \in Billed(root)}
    BY DEF Limits, Billed
  <2>5. Limits(root) \in SUBSET Nat
    BY <1>2, <2>4 DEF IInv, Typed, Snapshot, Billed
  <2>6. IsFiniteSet(Billed(root))
    BY LogAssumption, FS_Subset DEF Billed
  <2>7. IsFiniteSet(Limits(root))
    <3> DEFINE limit == [r \in Billed(root) |-> seen[r].limit]
    <3>1. limit \in Surjection(Billed(root), Limits(root))
      BY <2>4 DEF Surjection
    <3> QED
      BY <2>6, <3>1, FS_Surjection
  <2>8. seen[x].limit <= Max(Limits(root)) /\ seen[x].limit \in Nat /\ Max(Limits(root)) \in Nat
    BY <2>3, <2>4, <2>5, <2>7, GreatestNumber
  <2>9. Slack \in Int /\ Spent(root) \in Int
    <3>1. Max(Costs) \in Nat /\ MaxInFlight \in Nat
      BY <1>2, <2>3, LogAssumption, CostsAreNumbers DEF Billed
    <3>2. Owed(root, {}) \in Nat
      <4> DEFINE f == [r \in Requests |-> IF r \in {} THEN req[r].cost
                                          ELSE IF Root(req[r].who) = root THEN row[r].count ELSE 0]
      <4>1. Requests \in SUBSET Requests /\ \A r \in Requests : f[r] \in Nat
        BY <1>2, CostsAreNumbers
      <4>2. Owed(root, {}) = Fold(f, Requests)
        BY DEF Owed
      <4> HIDE DEF f
      <4> QED
        BY <4>1, <4>2, LogAssumption, FoldStep
    <3> QED
      BY <2>1, <3>1, <3>2 DEF Slack
  <2> QED
    BY <2>3, <2>8, <2>9
<1> QED
  BY <1>1, <1>2, PipelineInvariant, PTL
=============================================================================
