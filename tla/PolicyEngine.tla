----------------------------- MODULE PolicyEngine -----------------------------
(***************************************************************************)
(* The pure policy engine of proxy/src/policy: compilation of a source     *)
(* into matching rules, evaluate(), the maxima over weights and quorums,   *)
(* the per-agent overlay, tripwires, response caps, the reachability mode  *)
(* the tools share (diff, blast radius), and the linter.                   *)
(*                                                                         *)
(* A glob is the set of what it matches: a rule matches the actions in     *)
(* "on" and the targets in "at", or any target when "at" is AnyTarget.     *)
(* Spelling is the only detail of a target that is kept: Folded maps a     *)
(* target to the one of its case variants that stands for all of them.     *)
(***************************************************************************)
EXTENDS Naturals, Sequences, FiniteSets, FiniteSetsExt, Functions

CONSTANTS
  Tools,      \* names a grant may give access to
  Actions,    \* normalised actions
  Targets,    \* targets of requests, as the request spells them
  Folded,     \* [Targets -> Targets], the spelling without case
  AnyTarget,  \* "targets" of a bare-string rule
  Somewhere,  \* the null target: could this ever happen
  Unknown,    \* a target whose value is only known at run time
  Vocabulary  \* [Tools -> set of actions, {} for a type that has none]

ASSUME EngineAssumption ==
  /\ Folded \in [Targets -> Targets]
  /\ \A t \in Targets : Folded[Folded[t]] = Folded[t]
  /\ {AnyTarget, Somewhere, Unknown} \intersect Targets = {}
  /\ \A targets \in SUBSET Targets : targets # AnyTarget
  /\ Somewhere # Unknown
  /\ Vocabulary \in [Tools -> SUBSET Actions]

Rule == [on : SUBSET Actions, at : (SUBSET Targets) \cup {AnyTarget}, ask : BOOLEAN]

Bare(actions) == [on |-> actions, at |-> AnyTarget, ask |-> FALSE]
Scoped(actions, targets) == [on |-> actions, at |-> targets, ask |-> FALSE]

\* A grant of the source: three lists of rules.
Grant == [deny : Seq(Rule), approve : Seq(Rule), allow : Seq(Rule)]
NoGrant == [deny |-> <<>>, approve |-> <<>>, allow |-> <<>>]

-----------------------------------------------------------------------------
(* compilePolicyObject() *)

CaseVariants(targets) == {t \in Targets : \E u \in targets : Folded[t] = Folded[u]}

\* Protective targets match whatever their case, the targets of an allow as written.
CaseInsensitive(rules) ==
  [i \in DOMAIN rules |->
     IF rules[i].at = AnyTarget THEN rules[i] ELSE [rules[i] EXCEPT !.at = CaseVariants(@)]]

CompileGrant(grant) ==
  [deny |-> CaseInsensitive(grant.deny), approve |-> CaseInsensitive(grant.approve), allow |-> grant.allow]

\* The strict schema knows on_unresolved in an allow list only.
Malformed(grants) ==
  \E tool \in DOMAIN grants : \E r \in Range(grants[tool].deny) \cup Range(grants[tool].approve) : r.ask

Compile(grants) == [tool \in DOMAIN grants |-> CompileGrant(grants[tool])]

-----------------------------------------------------------------------------
(* evaluate() *)

\* A scoped deny that counts as certain although another target evades it.
MatchesEveryScope(rule, action, target, clause) ==
  /\ action \in rule.on
  /\ \/ rule.at = AnyTarget
     \/ target = Somewhere
     \/ target \in Targets /\ target \in rule.at

\* firstMatch() of one rule: a scope is not provable of an unknown target, and
\* of the null target it counts for what may happen, never for what must.
Matches(rule, action, target, clause) ==
  /\ action \in rule.on
  /\ \/ rule.at = AnyTarget
     \/ target = Somewhere /\ clause # "deny"
     \/ target \in Targets /\ target \in rule.at

AnyMatch(rules, action, target, clause) == \E r \in Range(rules) : Matches(r, action, target, clause)

\* The decision and its reason; policy maps a granted tool to its compiled grant.
Evaluate(policy, tool, action, target) ==
  IF tool \notin DOMAIN policy THEN [decision |-> "deny", reason |-> "no_grant_for_tool"]
  ELSE LET grant == policy[tool] IN
    CASE AnyMatch(grant.deny, action, target, "deny") ->
           [decision |-> "deny", reason |-> "explicit_deny"]
      [] /\ ~AnyMatch(grant.deny, action, target, "deny")
         /\ AnyMatch(grant.approve, action, target, "require_approval") ->
           [decision |-> "require_approval", reason |-> "approval_required"]
      [] /\ ~AnyMatch(grant.deny, action, target, "deny")
         /\ ~AnyMatch(grant.approve, action, target, "require_approval")
         /\ AnyMatch(grant.allow, action, target, "allow") ->
           [decision |-> "allow", reason |-> "explicit_allow"]
      [] OTHER ->
           IF target # Unknown THEN [decision |-> "deny", reason |-> "no_matching_allow"]
           ELSE IF \E r \in Range(grant.allow) : r.ask /\ action \in r.on
                THEN [decision |-> "require_approval", reason |-> "unresolved_approval"]
                ELSE [decision |-> "deny", reason |-> "unresolved_target"]

Decide(policy, tool, action, target) == Evaluate(policy, tool, action, target).decision

Rank(decision) == CASE decision = "deny" -> 0 [] decision = "require_approval" -> 1 [] decision = "allow" -> 2

-----------------------------------------------------------------------------
(* The limits around the grants.  A limits record holds weights, a sequence *)
(* of [on, weight]; the ceilings, where 0 stands for none; and the overlay, *)
(* the wires and the caps with their targets as rules hold them.            *)

\* The largest matching weight; a weight never makes an action cheaper than 1.
ActionCost(weights, action) == Max({1} \cup {w.weight : w \in {v \in Range(weights) : action \in v.on}})

\* A named agent's own ceiling replaces the global one, whichever is larger.
AgentCeiling(limits, agent) ==
  IF agent \in DOMAIN limits.perAgent THEN limits.perAgent[agent] ELSE limits.perHour

WithinCeiling(ceiling, spent, cost) == ceiling = 0 \/ spent + cost <= ceiling

\* withinBudget() and withinUpstreamBudget(), as dispatch() asks both.
MayForward(limits, agent, tool, spent, cost) ==
  /\ WithinCeiling(AgentCeiling(limits, agent), spent, cost)
  /\ tool \in DOMAIN limits.perUpstream => WithinCeiling(limits.perUpstream[tool], spent, cost)

\* Friction only: the null target counts as one the overlay covers.
AgentRequiresApproval(overlay, action, target) ==
  \E r \in Range(CaseInsensitive(overlay)) : Matches(r, action, target, "require_approval")

\* matchTripwire(): the null target could trip a scoped wire.
Trips(wires, action, target) ==
  \E w \in Range(CaseInsensitive(wires)) : Matches(w, action, target, "require_approval")

\* resolveResponseLimit(): the smallest matching cap, and of equals the one that denies.
ResponseLimit(caps, action, target) ==
  LET matching == {c \in Range(caps) : Matches(CaseInsensitive(<<c.rule>>)[1], action, target, "allow")}
      bytes == Min({c.bytes : c \in matching})
  IN IF matching = {} THEN [bytes |-> 0, exceed |-> "uncapped"]
     ELSE [bytes |-> bytes,
           exceed |-> IF \E c \in matching : c.bytes = bytes /\ c.exceed = "deny" THEN "deny" ELSE "truncate"]

-----------------------------------------------------------------------------
(* The tools that ask for reachability: policy diff and the blast radius. *)

DiffPolicies(current, candidate, pairs) ==
  {p \in pairs : Decide(current, p[1], p[2], Somewhere) # Decide(candidate, p[1], p[2], Somewhere)}

\* evaluateAction() of blast-radius/analyze.ts, a second implementation of the null target.
ExposureOf(policy, tool, action) ==
  LET hit(rules) == \E r \in Range(rules) : action \in r.on IN
  IF tool \notin DOMAIN policy THEN "deny"
  ELSE CASE \E r \in Range(policy[tool].deny) : r.at = AnyTarget /\ action \in r.on -> "deny"
         [] OTHER -> IF hit(policy[tool].approve) THEN "require_approval"
                     ELSE IF hit(policy[tool].allow) THEN "allow" ELSE "deny"

\* analyzeUpstream(): what a leaked token may do with no human asked, and with one.
AutoAllow(policy, tool) == {a \in Vocabulary[tool] : ExposureOf(policy, tool, a) = "allow"}
RequiresApproval(policy, tool) == {a \in Vocabulary[tool] : ExposureOf(policy, tool, a) = "require_approval"}

-----------------------------------------------------------------------------
(* lint.ts.  A finding is the index of the rule or weight it is about. *)

Reaches(rule, vocabulary) == rule.on \intersect vocabulary

DeadPatterns(rules, vocabulary) == {i \in DOMAIN rules : Reaches(rules[i], vocabulary) = {}}

\* A shadow cast by any earlier rule, scoped to some targets or not.
ShadowedByAnyRule(rules, vocabulary) ==
  {i \in DOMAIN rules \ DeadPatterns(rules, vocabulary) :
     \E j \in 1..(i - 1) : Reaches(rules[i], vocabulary) \subseteq Reaches(rules[j], vocabulary)}

\* An earlier rule that looks at no target and matches all that this one does.
ShadowedPatterns(rules, vocabulary) ==
  {i \in DOMAIN rules \ DeadPatterns(rules, vocabulary) :
     \E j \in 1..(i - 1) :
       /\ rules[j].at = AnyTarget
       /\ Reaches(rules[i], vocabulary) \subseteq Reaches(rules[j], vocabulary)}

\* The (tool, action) pairs a weight taxes in the vocabularies of the granted tools.
Taxed(policy, weight) == {p \in Tools \X Actions : p[1] \in DOMAIN policy /\ p[2] \in Vocabulary[p[1]] \intersect weight.on}

\* A cost above the ceiling of everyone, or of a tool it taxes.
UnreachableWeights(policy, limits) ==
  {i \in DOMAIN limits.weights :
     LET w == limits.weights[i]
         taxed == {p[1] : p \in Taxed(policy, w)}
     IN /\ taxed # {}
        /\ \/ limits.perHour # 0 /\ w.weight > limits.perHour
           \/ \E tool \in taxed \intersect DOMAIN limits.perUpstream : w.weight > limits.perUpstream[tool]}

Dominates(policy, weights, j, i) ==
  /\ \/ weights[j].weight > weights[i].weight
     \/ weights[j].weight = weights[i].weight /\ j < i
  /\ Taxed(policy, weights[i]) \subseteq Taxed(policy, weights[j])

\* A price that every action it names already pays elsewhere.
DominatedWeights(policy, limits) ==
  {i \in DOMAIN limits.weights \ UnreachableWeights(policy, limits) :
     /\ Taxed(policy, limits.weights[i]) # {}
     /\ \E j \in DOMAIN limits.weights \ {i} : Dominates(policy, limits.weights, j, i)}

\* lintTripwires(): an allowed action of some granted tool is a tripwire as well.
SelfRevokingWires(policy, wires) ==
  {i \in DOMAIN wires :
     \E tool \in DOMAIN policy : \E a \in Vocabulary[tool] :
       a \in wires[i].on /\ \E r \in Range(policy[tool].allow) : a \in r.on}

KnownActions(policy) == UNION {Vocabulary[tool] : tool \in DOMAIN policy}

\* lintPins(): a glob that no known action matches, provided that some action is known.
Inert(policy, globs) == {i \in DOMAIN globs : KnownActions(policy) # {} /\ globs[i] \intersect KnownActions(policy) = {}}

\* lintFlows(): such globs on either side of a flow rule.
InertSides(policy, flow) == [when |-> Inert(policy, flow.when), then |-> Inert(policy, flow.then)]

InertCaps(policy, caps) == Inert(policy, [i \in DOMAIN caps |-> caps[i].rule.on])

\* lintDecoys() and lintPerAgentKeys(): a grant of a trap, a ceiling of nobody.
GrantedDecoys(policy, decoys) == DOMAIN policy \intersect decoys
InertKeys(limits, registered) == DOMAIN limits.perAgent \ registered

\* lintExec(), of the grant of the shell: its actions are "exec" and a binary.
NamesExec(rule, exec) == rule.on # {} /\ rule.on \subseteq exec
TouchesExec(rule, exec) == NamesExec(rule, exec) \/ rule.on = Actions
Unscoped(rule) == rule.at \in {AnyTarget, {}, Targets}

EvadableDenies(grant, exec) ==
  {i \in DOMAIN grant.deny : TouchesExec(grant.deny[i], exec) /\ grant.deny[i].at # AnyTarget}
UnscopedAllows(grant, exec) ==
  {i \in DOMAIN grant.allow : NamesExec(grant.allow[i], exec) /\ Unscoped(grant.allow[i])}
RunsAnything(grant, interpreters) == {i \in DOMAIN grant.allow : \E b \in interpreters : grant.allow[i].on = {b}}
=============================================================================
