----------------------------- MODULE BatchVerdict -----------------------------
(***************************************************************************)
(* What proxy/server.ts dispatch() decides of a request that carries       *)
(* several actions at once (an MCP batch, a shell line): combine(), the    *)
(* quorum over all members, JIT grants, break-glass, then the gates around *)
(* the engine - schedule, first use, step-up, per-agent overlay, taint     *)
(* flow and pin - in the order of the code.  Every operator is a function  *)
(* of the policy and the request; the specification runs requests one      *)
(* after the other past the approval memory.                               *)
(*                                                                         *)
(* A member is an (action, target) pair and a content the policy does not  *)
(* see.  Globs are abstracted to the sets of what they match.              *)
(***************************************************************************)
EXTENDS Naturals, Sequences, FiniteSets, FiniteSetsExt, Functions

CONSTANTS
  Actions, Targets, Contents,
  Policies,       \* what is in force for the agent, see Policy
  MaxBatch,       \* members of a request (a bound on what clients send)
  MaxRemembered   \* human approvals given (a bound on the run)

VARIABLES
  policy,     \* the policy, grants and windows in force
  request,    \* the request being decided, or <<>>
  remembered  \* approvals in the memory: [key, the request that was approved]

vars == <<policy, request, remembered>>

Pairs == [action : Actions, target : Targets]
Message == [action : Actions, target : Targets, content : Contents]
Batches == UNION {[1..n -> Message] : n \in 1..MaxBatch}

Pair(m) == [action |-> m.action, target |-> m.target]
Members(b) == {Pair(m) : m \in Range(b)}
ActionsOf(b) == {m.action : m \in Range(b)}

\* evaluate() of one pair: the clause of the grant that matches it first.
Class == {"explicit_deny", "approval_required", "explicit_allow", "no_matching_allow"}

Policy ==
  [class : [Pairs -> Class],
   quorum : [Actions -> 1..2],
   overlay : SUBSET Pairs,       \* approvals.per_agent of this agent
   granted : SUBSET Actions,     \* its live, unrevoked JIT grants
   window : SUBSET Actions,      \* its open break-glass window, {} if none
   schedule : {"open", "deny", "require_approval"},
   firstUse : {"off", "deny", "require_approval"},
   novel : SUBSET Actions,       \* in first-use scope and never forwarded
   stepUp : BOOLEAN,             \* the agent scores risk:high
   session : {"quiet", "deny", "require_approval"}, \* what a flow or pin rule says
   sinks : SUBSET Actions]       \* of these

ASSUME BatchAssumption == Policies \subseteq Policy /\ MaxBatch \in Nat \ {0}

Decision(class) ==
  CASE class \in {"explicit_deny", "no_matching_allow"} -> "deny"
    [] class = "approval_required" -> "require_approval"
    [] class = "explicit_allow" -> "allow"

-----------------------------------------------------------------------------
\* combine().

Deciders(p, b, decision) == {i \in DOMAIN b : Decision(p.class[Pair(b[i])]) = decision}

\* The first denied member speaks for the batch, else the first to need approval;
\* an allowed batch of several has a label of its own, which no pattern matches.
Combine(p, b) ==
  LET decision == CHOOSE d \in {"deny", "require_approval", "allow"} :
                    /\ Deciders(p, b, d) # {}
                    /\ d # "deny" => Deciders(p, b, "deny") = {}
                    /\ d = "allow" => Deciders(p, b, "require_approval") = {}
      first == b[Min(Deciders(p, b, decision))]
  IN [decision |-> decision, reason |-> p.class[Pair(first)],
      rep |-> IF decision = "allow" /\ Len(b) > 1 THEN <<>> ELSE <<first.action>>,
      quorum |-> 1, granted |-> FALSE, glass |-> FALSE, tagged |-> FALSE]

\* The quorum of the action combine() picked.
QuorumOfRepresentative(p, b, v) ==
  [v EXCEPT !.quorum = IF v.rep = <<>> THEN 1 ELSE p.quorum[v.rep[1]]]

\* The largest quorum over all members.
Quorum(p, b, v) == [v EXCEPT !.quorum = Max({p.quorum[a] : a \in ActionsOf(b)})]

\* A grant that matches the representative and lifts anything but an explicit deny.
JitGrant(p, b, v) ==
  IF v.decision # "allow" /\ v.reason # "explicit_deny" /\ Range(v.rep) \intersect p.granted # {}
  THEN [v EXCEPT !.decision = "allow", !.granted = TRUE] ELSE v

\* A window that is matched against the representative alone.
BreakGlassRepresentative(p, b, v) ==
  IF v.decision = "deny" /\ Range(v.rep) \subseteq p.window
  THEN [v EXCEPT !.decision = "require_approval", !.quorum = 1, !.glass = TRUE] ELSE v

\* An open window that covers every action of the request; its quorum replaces the policy's.
BreakGlass(p, b, v) ==
  IF v.decision = "deny" /\ ActionsOf(b) \subseteq p.window
  THEN [v EXCEPT !.decision = "require_approval", !.quorum = 1, !.glass = TRUE] ELSE v

-----------------------------------------------------------------------------
\* The gates around the engine; each may only tighten.

Clamp(v, effect) ==
  IF effect = "deny" THEN [v EXCEPT !.decision = "deny"]
                     ELSE [v EXCEPT !.decision = "require_approval", !.tagged = TRUE]

Schedule(p, b, v) ==
  IF v.decision # "deny" /\ p.schedule # "open" /\ ~v.glass THEN Clamp(v, p.schedule) ELSE v

Novel(p, b) == p.firstUse # "off" /\ ActionsOf(b) \intersect p.novel # {}

FirstUse(p, b, v) ==
  IF v.decision # "deny" /\ ~v.granted /\ ~v.glass /\ Novel(p, b) THEN Clamp(v, p.firstUse) ELSE v

\* A step-up that leaves no tag on the prompt it raises.
StepUpUntagged(p, b, v) ==
  IF v.decision = "allow" /\ p.stepUp THEN [v EXCEPT !.decision = "require_approval"] ELSE v

StepUp(p, b, v) == IF v.decision = "allow" /\ p.stepUp THEN Clamp(v, "require_approval") ELSE v

Overlay(p, b, v) ==
  IF v.decision = "allow" /\ Members(b) \intersect p.overlay # {} THEN Clamp(v, "require_approval") ELSE v

\* The flow gate and the pin gate: any member may be the sink, or the pivot.
Session(p, b, v) ==
  IF v.decision # "deny" /\ p.session # "quiet" /\ ActionsOf(b) \intersect p.sinks # {}
  THEN Clamp(v, p.session) ELSE v

Verdict(p, b) ==
  LET engine == BreakGlass(p, b, JitGrant(p, b, Quorum(p, b, Combine(p, b))))
  IN Session(p, b, Overlay(p, b, StepUp(p, b, FirstUse(p, b, Schedule(p, b, engine)))))

\* Only a prompt no dynamic gate raised may be answered from the memory.
UsesMemory(v) == v.decision = "require_approval" /\ ~v.tagged /\ ~v.glass /\ v.quorum = 1

\* The display target: the targets of the first members, and how many there are.
LabelMembers == 3
Label(b) == [size |-> Len(b), named |-> [i \in 1..(IF Len(b) < LabelMembers THEN Len(b) ELSE LabelMembers) |-> b[i].target]]

MemoryKey(v, b) == [action |-> v.rep, target |-> Label(b)]

-----------------------------------------------------------------------------

Init ==
  /\ policy \in Policies
  /\ request = <<>>
  /\ remembered = {}

Send(b) ==
  /\ request = <<>>
  /\ request' = b
  /\ UNCHANGED <<policy, remembered>>

\* A human approves the prompt and the decision is remembered.
Approve ==
  /\ request # <<>>
  /\ Verdict(policy, request).decision = "require_approval"
  /\ Cardinality(remembered) < MaxRemembered
  /\ remembered' = IF UsesMemory(Verdict(policy, request))
                   THEN remembered \union {[key |-> MemoryKey(Verdict(policy, request), request),
                                            approved |-> request]}
                   ELSE remembered
  /\ request' = <<>>
  /\ UNCHANGED policy

Next == Approve \/ \E b \in Batches : Send(b)

Spec == Init /\ [][Next]_vars

-----------------------------------------------------------------------------

TypeOK ==
  /\ policy \in Policy
  /\ request \in Batches \union {<<>>}
  /\ request # <<>> => Verdict(policy, request) \in
       [decision : {"allow", "deny", "require_approval"}, reason : Class, rep : {<<>>} \union {<<a>> : a \in Actions},
        quorum : 1..2, granted : BOOLEAN, glass : BOOLEAN, tagged : BOOLEAN]

Severity(decision) == CASE decision = "allow" -> 0 [] decision = "require_approval" -> 1 [] decision = "deny" -> 2

Sent == request # <<>>
Decided == Verdict(policy, request)

(* A batch launders nothing: with no JIT grant and no break-glass window   *)
(* in play it is decided at least as strictly as each of its members would *)
(* be on its own, in every gate, and with at least its quorum.             *)
NoLaundering ==
  Sent /\ ~Decided.granted /\ ~Decided.glass =>
    \A i \in DOMAIN request :
      LET alone == Verdict([policy EXCEPT !.granted = {}], <<request[i]>>)
      IN ~alone.glass => /\ Severity(Decided.decision) >= Severity(alone.decision)
                         /\ Decided.quorum >= alone.quorum

(* Breaking the glass always leaves a human in the loop, and unlocks       *)
(* nothing but the actions the window names: no member rides along.        *)
GlassIsScoped ==
  Sent /\ Decided.glass => /\ Decided.decision # "allow"
                           /\ ActionsOf(request) \subseteq policy.window

\* The policy with every dynamic gate silenced.
Static(p) == [p EXCEPT !.overlay = {}, !.schedule = "open", !.firstUse = "off", !.stepUp = FALSE,
                       !.session = "quiet", !.window = {}]

(* A remembered answer is reused only where the static policy itself would *)
(* have asked: a prompt that is there because of the hour, the agent's     *)
(* risk, a novel action or the session's history always reaches a human.   *)
MemoryIsStatic ==
  Sent /\ UsesMemory(Decided) => Verdict(Static(policy), request).decision = "require_approval"

\* What a document or a comment says and the code does not do: README.md, section 4.

(* README.md, JIT grants: a grant can never override an explicit deny.     *)
GrantNeverOverridesDeny ==
  Sent /\ (\E m \in Members(request) : policy.class[m] = "explicit_deny") => Decided.decision # "allow"

(* README.md, per-agent approval: an MCP batch always triggers a scoped    *)
(* rule, because its target cannot be pinned per member.                   *)
BatchTriggersOverlay ==
  Sent /\ Len(request) > 1 /\ ActionsOf(request) \intersect {q.action : q \in policy.overlay} # {}
    => Decided.decision # "allow"

(* README.md, remembering decisions: the scope is exact, approving one     *)
(* merge never approves another.                                           *)
MemoryIsExact ==
  Sent /\ UsesMemory(Decided) =>
    \A m \in remembered : m.key = MemoryKey(Decided, request) => m.approved = request
=============================================================================
