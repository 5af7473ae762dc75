---------------------------- MODULE PolicyAuthoring ----------------------------
(***************************************************************************)
(* The life of policy.yaml: edits by hand and from the console, the watch  *)
(* that puts them in force, the snapshots and the rollback to one of them, *)
(* and the two commands that write a tighter policy from the request log - *)
(* policy decay (policy/decay.ts) and policy shrinkwrap.                   *)
(*                                                                         *)
(* The log of one agent is the set of its rows, and it may lose its oldest *)
(* ones at any time.  A text is what policy.yaml says: grants and limits.  *)
(***************************************************************************)
EXTENDS PolicyEngine, SequencesExt

CONSTANTS
  HandTexts,     \* policies a human writes, malformed ones too
  Emits,         \* [Tools -> what the adapter of the tool makes of requests]
  BatchLabel,    \* the action of a row that logs an allowed batch
  PeerEvidence,  \* what peers have exported: sets of evidence files
  StaleAfter,    \* --stale-days
  MaxSnapshots,  \* snapshots kept
  LastTick, MaxRows, MaxFiles  \* bounds on the run

ASSUME AuthoringAssumption ==
  /\ \A tool \in Tools : Vocabulary[tool] \subseteq Emits[tool] \/ Vocabulary[tool] = {}
  /\ BatchLabel \in Actions /\ \A tool \in Tools : BatchLabel \notin Emits[tool]
  /\ StaleAfter \in Nat \ {0} /\ MaxSnapshots \in Nat \ {0}

\* A text with the fields read here, and its grants, of which a list may still be malformed.
Written(text) ==
  /\ text = [grants |-> text.grants, limits |-> text.limits]
  /\ text.grants = [tool \in DOMAIN text.grants |-> text.grants[tool]]
  /\ \A tool \in DOMAIN text.grants : tool \in Tools /\ text.grants[tool] \in Grant

ASSUME TextsAssumption == \A text \in HandTexts : Written(text)

\* Vocabularies and logs are finite, and evidence is of uses.
ASSUME EvidenceAssumption ==
  /\ \A tool \in Tools : IsFiniteSet(Vocabulary[tool])
  /\ MaxRows \in Nat
  /\ \A files \in PeerEvidence : IsFiniteSet(files) /\
       \A f \in files : f.ours \in BOOLEAN /\ f.last \in [Tools \X Actions -> Nat]

VARIABLES
  file,       \* policy.yaml
  active,     \* the text in force
  log,        \* rows [at, tool, action, reason]
  tick,
  snapshots,  \* [stamp, text], newest first
  evidence,   \* the evidence files at hand: [ours, last], of peers and of this proxy
  performed   \* history: when each enumerable action was last performed on its own, 0 if never

vars == <<file, active, log, tick, snapshots, evidence, performed>>

Pairs == Tools \X Actions
Enumerable == {p \in Pairs : p[2] \in Vocabulary[p[1]]}

-----------------------------------------------------------------------------
(* decay.ts, and the merge of fleet evidence in cli/policy.ts *)

\* lastUsedActions(): every way the action was really performed.
Uses(rows, p) == {r.at : r \in {q \in rows : q.reason # "refused" /\ <<q.tool, q.action>> = p}}

Fresh(at) == at + StaleAfter >= tick

\* The log has watched the agent since before the horizon.
Covered(rows) == rows # {} /\ Min({r.at : r \in rows}) + StaleAfter <= tick

\* Absence taken for disuse, however young the log is.
ClassifyAnyAge(uses, covered) ==
  IF \E at \in uses : Fresh(at) THEN "active" ELSE IF uses = {} THEN "unused" ELSE "stale"

Classify(uses, covered) ==
  CASE \E at \in uses : Fresh(at) -> "active"
    [] (\A at \in uses : ~Fresh(at)) /\ ~covered -> "no_evidence"
    [] (\A at \in uses : ~Fresh(at)) /\ covered -> IF uses = {} THEN "unused" ELSE "stale"

\* Evidence of a peer that replaces what this proxy has seen itself.
PeerOverrides(rows, peers, p) == IF peers[p] # 0 THEN {peers[p]} ELSE Uses(rows, p)

\* A peer's use counts only if it is fresh and the action would decay here.
VetoedEvidence(rows, peers, p) ==
  Uses(rows, p) \cup
    {at \in {peers[p]} \ {0} : Fresh(at) /\ Covered(rows) /\ \A own \in Uses(rows, p) : ~Fresh(own)}

ClassOf(rows, peers, p) == Classify(VetoedEvidence(rows, peers, p), Covered(rows))

Literal(action, rule) == [on |-> {action}, at |-> rule.at, ask |-> FALSE]

Literals(actions, rule) == SetToSeq({Literal(a, rule) : a \in actions})

\* One allow rule: what stays allowed and what is decayed, as rules.
DecayRule(rule, tool, rows, peers) ==
  LET reachable == rule.on \intersect Vocabulary[tool]
      kept == {a \in reachable : ClassOf(rows, peers, <<tool, a>>) \in {"active", "no_evidence"}}
  IN CASE kept = reachable -> [kept |-> <<rule>>, decayed |-> <<>>]
       [] kept # reachable /\ kept = {} -> [kept |-> <<>>, decayed |-> <<rule>>]
       [] kept # reachable /\ kept # {} ->
            [kept |-> Literals(kept, rule), decayed |-> Literals(reachable \ kept, rule)]

\* A demoted rule taken for an existing one that names its actions, wherever they apply.
AddedIgnoringScope(approve, demoted) ==
  SelectSeq(demoted, LAMBDA d : \A r \in Range(approve) : r.on # d.on)

SameRule(r, s) == r.on = s.on /\ r.at = s.at

\* Those of the demoted rules that are not in the list yet, nor among the ones before them.
Added(approve, demoted) ==
  SetToSeq({demoted[i] : i \in {k \in DOMAIN demoted :
    \A r \in Range(approve) \cup Range(SubSeq(demoted, 1, k - 1)) : ~SameRule(r, demoted[k])}})

DecayGrant(grant, tool, rows, peers, mode) ==
  LET rewritten == [i \in DOMAIN grant.allow |-> DecayRule(grant.allow[i], tool, rows, peers)]
      demoted == FlattenSeq([i \in DOMAIN rewritten |-> rewritten[i].decayed])
  IN [grant EXCEPT !.allow = FlattenSeq([i \in DOMAIN rewritten |-> rewritten[i].kept]),
                   !.approve = IF mode = "demote" THEN @ \o Added(@, demoted) ELSE @]

DecayPolicy(text, rows, peers, mode) ==
  [text EXCEPT !.grants = [tool \in DOMAIN @ |-> DecayGrant(@[tool], tool, rows, peers, mode)]]

\* What the report calls active, which the command verifies before it writes anything.
ActivePairs(text, rows, peers) ==
  {p \in Pairs : /\ p[1] \in DOMAIN text.grants /\ p[2] \in Vocabulary[p[1]]
                 /\ \E r \in Range(text.grants[p[1]].allow) : p[2] \in r.on
                 /\ ClassOf(rows, peers, p) = "active"}

Verified(before, after, pairs) ==
  DiffPolicies(Compile(before.grants), Compile(after.grants), pairs) = {}

\* The command refuses an agent with no use at all, and a result that does not compile.
CanDecay(text, rows, peers, candidate) ==
  /\ ~Malformed(text.grants)
  /\ \E r \in rows : r.reason # "refused"
  /\ ~Malformed(candidate.grants)
  /\ Verified(text, candidate, ActivePairs(text, rows, peers))

NoPeer == [p \in Pairs |-> 0]

\* decay-evidence.ts: the last uses of one proxy, 0 for none, of this agent or another.
EvidenceFile(ours, rows) == [ours |-> ours, last |-> [p \in Pairs |-> Max(Uses(rows, p) \cup {0})]]

\* Files of other agents are skipped, of the others the latest use counts, in any order.
Merged(files) == [p \in Pairs |-> Max({f.last[p] : f \in {g \in files : g.ours}} \cup {0})]

-----------------------------------------------------------------------------
(* shrinkwrap.ts *)

UsedActions(rows, tool) == {r.action : r \in {q \in rows : q.tool = tool /\ q.reason = "explicit_allow"}}

ShrinkwrapPolicy(text, rows) ==
  [text EXCEPT !.grants =
     [tool \in DOMAIN @ |->
        [@[tool] EXCEPT !.allow = SetToSeq({Bare({a}) : a \in UsedActions(rows, tool)})]]]

CanShrinkwrap(text, rows) ==
  LET candidate == ShrinkwrapPolicy(text, rows) IN
  /\ ~Malformed(text.grants)
  /\ \A tool \in Tools : \A a \in UsedActions(rows, tool) :
       Decide(Compile(candidate.grants), tool, a, Somewhere) # "deny"

-----------------------------------------------------------------------------
(* history-store.ts *)

\* Faulty variant: the newest over the cap.
PrunedAtTheFront(kept) == IF Len(kept) > MaxSnapshots THEN SubSeq(kept, 2, Len(kept)) ELSE kept

\* snapshotsToPrune(): the oldest over the cap.
Pruned(kept) == IF Len(kept) > MaxSnapshots THEN SubSeq(kept, 1, MaxSnapshots) ELSE kept

\* A text is stored unless the first snapshot holds it; its file may be there already. The
\* names of one second are in the order of hashes: the new one is anywhere among them.
Stored(kept, text) ==
  LET new == [stamp |-> tick, text |-> text]
      places == {i \in 1..Len(kept) + 1 : \A j \in 1..(i - 1) : kept[j].stamp = tick}
  IN IF new \in Range(kept) \/ (kept # <<>> /\ kept[1].text = text) THEN {kept}
     ELSE {Pruned(InsertAt(kept, i, new)) : i \in places}

\* record() never throws: a write that the disk refuses leaves the snapshots as they were,
\* and no caller looks at what it returns.
Recorded(kept, text) == {kept} \cup Stored(kept, text)

\* Bound: no more than MaxSnapshots texts are recorded within one tick (the code keeps
\* 50 and stamps them with the second).
Paced(records) == Cardinality({i \in DOMAIN snapshots : snapshots[i].stamp = tick}) + records <= MaxSnapshots

-----------------------------------------------------------------------------

Init ==
  /\ file \in {t \in HandTexts : ~Malformed(t.grants)}
  /\ active = file
  /\ log = {}
  /\ tick = 1
  /\ snapshots \in Recorded(<<>>, file)
  /\ evidence \in PeerEvidence
  /\ performed = [p \in Enumerable |-> 0]

Row(tool, action, reason) == [at |-> tick, tool |-> tool, action |-> action, reason |-> reason]

\* A request of one action: the verdict, what becomes of it, the row.  The reasons of a
\* row are told apart as far as its readers do: forwarded as allowed, forwarded because
\* a human, a memory or a grant released it, and not forwarded.
Request(tool, action, target, reason) ==
  LET verdict == Evaluate(Compile(active.grants), tool, action, target) IN
  /\ action \in Emits[tool]
  /\ \/ reason = "explicit_allow" /\ verdict.decision = "allow"
     \/ reason = "released" /\ verdict.decision # "allow" /\ verdict.reason # "explicit_deny"
     \/ reason = "refused"
  /\ log' = log \cup {Row(tool, action, reason)}
  /\ Cardinality(log') <= MaxRows
  /\ performed' = [p \in Enumerable |-> IF p = <<tool, action>> /\ reason # "refused" THEN tick ELSE performed[p]]
  /\ UNCHANGED <<file, active, tick, snapshots, evidence>>

\* An allowed batch is one row, under a label no rule was written for.
RequestBatch(tool, actions) ==
  /\ actions \subseteq Emits[tool] /\ Cardinality(actions) > 1
  /\ \A a \in actions : \E t \in Targets : Decide(Compile(active.grants), tool, a, t) = "allow"
  /\ log' = log \cup {Row(tool, BatchLabel, "explicit_allow")}
  /\ Cardinality(log') <= MaxRows
  /\ UNCHANGED <<file, active, tick, snapshots, evidence, performed>>

\* The log is a plain file: its older rows may be deleted at any time.  The cut is
\* between two ticks: of rows of the same instant none is older.
Truncate(before) ==
  /\ log' = {r \in log : r.at >= before}
  /\ log' # log
  /\ UNCHANGED <<file, active, tick, snapshots, evidence, performed>>

Tick ==
  /\ tick < LastTick
  /\ tick' = tick + 1
  /\ UNCHANGED <<file, active, log, snapshots, evidence, performed>>

EditByHand(text) ==
  /\ file' = text
  /\ file' # file
  /\ UNCHANGED <<active, log, tick, snapshots, evidence, performed>>

\* POST /console/policy: the grants are replaced and nothing else; the text replaced
\* and the text written are both recorded, and the second one is in force.
EditFromConsole(grants) ==
  LET candidate == [file EXCEPT !.grants = grants] IN
  /\ ~Malformed(grants)
  /\ candidate # file
  /\ Paced(2)
  /\ file' = candidate
  /\ active' = candidate
  /\ \E kept \in Recorded(snapshots, file) : snapshots' \in Recorded(kept, candidate)
  /\ UNCHANGED <<log, tick, evidence, performed>>

\* --watch: a text that does not compile is refused and the live one stays.
Watch ==
  /\ Paced(1)
  /\ file # active
  /\ ~Malformed(file.grants)
  /\ active' = file
  /\ snapshots' \in Recorded(snapshots, file)
  /\ UNCHANGED <<file, log, tick, evidence, performed>>

\* The rollback that restores a snapshot without keeping what it replaces.
RollbackOnly(n, refused) ==
  /\ Paced(1)
  /\ n \in DOMAIN snapshots
  /\ ~Malformed(snapshots[n].text.grants)
  /\ file' = snapshots[n].text
  /\ UNCHANGED <<active, log, tick, snapshots, evidence, performed>>

\* The text is replaced whether or not the disk took the snapshot of it.
Rollback(n, refused) ==
  /\ Paced(1)
  /\ n \in DOMAIN snapshots
  /\ ~Malformed(snapshots[n].text.grants)
  /\ snapshots' \in IF refused THEN {snapshots} ELSE Stored(snapshots, file)
  /\ file' = snapshots[n].text
  /\ UNCHANGED <<active, log, tick, evidence, performed>>

\* `policy decay export`; the file may be merged by any later decay.
Export ==
  /\ ~Malformed(file.grants)
  /\ Cardinality(evidence) < MaxFiles
  /\ evidence' = evidence \cup {EvidenceFile(TRUE, log)}
  /\ UNCHANGED <<file, active, log, tick, snapshots, performed>>

\* The operator reviews what the command wrote and makes it policy.yaml.
Decay(mode, peers) ==
  /\ file' = DecayPolicy(file, log, peers, mode)
  /\ CanDecay(file, log, peers, file')
  /\ UNCHANGED <<active, log, tick, snapshots, evidence, performed>>

Shrinkwrap ==
  /\ CanShrinkwrap(file, log)
  /\ file' = ShrinkwrapPolicy(file, log)
  /\ UNCHANGED <<active, log, tick, snapshots, evidence, performed>>

Next ==
  \/ \E tool \in Tools, a \in Actions, t \in Targets, reason \in {"explicit_allow", "released", "refused"} :
       Request(tool, a, t, reason)
  \/ \E tool \in Tools, actions \in SUBSET Actions : RequestBatch(tool, actions)
  \/ \E before \in 2..tick : Truncate(before)
  \/ Tick
  \/ \E text \in HandTexts : EditByHand(text) \/ EditFromConsole(text.grants)
  \/ Watch
  \/ \E n \in 1..MaxSnapshots, refused \in BOOLEAN : Rollback(n, refused)
  \/ Export
  \/ \E mode \in {"demote", "drop"}, peers \in {NoPeer, Merged(evidence)} : Decay(mode, peers)
  \/ Shrinkwrap

Spec == Init /\ [][Next]_vars

-----------------------------------------------------------------------------
(* What decay, fleet evidence and rollback promise. *)

Decision(text, p, target) == Decide(Compile(text.grants), p[1], p[2], target)

Decays(mode, peers, P(_)) ==
  LET after == DecayPolicy(file, log, peers, mode) IN CanDecay(file, log, peers, after) => P(after)

TypeOK ==
  /\ \A text \in {file, active} : DOMAIN text.grants \subseteq Tools /\ \A tool \in DOMAIN text.grants : text.grants[tool] \in Grant
  /\ \A r \in log : r.at \in 1..tick /\ <<r.tool, r.action>> \in Pairs
  /\ Len(snapshots) \in 0..MaxSnapshots /\ \A i \in DOMAIN snapshots : snapshots[i].stamp \in 1..tick
  /\ performed \in [Enumerable -> 0..tick]

\* An action of the vocabulary that was performed within the window, here or as far as
\* the merged evidence knows on a peer, decides the same for every target after a decay,
\* whatever has been deleted from the front of the log: a truncated log costs decay
\* confidence, never safety.
UseIsNotDecayed ==
  \A mode \in {"demote", "drop"}, peers \in {NoPeer, Merged(evidence)} : Decays(mode, peers, LAMBDA after :
    \A p \in Enumerable, t \in Targets :
      (\E at \in {performed[p], peers[p]} \ {0} : Fresh(at)) => Decision(after, p, t) = Decision(file, p, t))

\* A demotion turns allowed into ask and nothing else: no request the policy let
\* through or to a human is denied, none is newly allowed, and one that was denied
\* may at most be asked about, as another spelling of a target that was allowed.
DemotionOnlyAsks ==
  \A peers \in {NoPeer, Merged(evidence)} : Decays("demote", peers, LAMBDA after :
    \A p \in Enumerable, t \in Targets :
      LET was == Decision(file, p, t) is == Decision(after, p, t) IN
      /\ was = "require_approval" => is = was
      /\ was = "allow" => is # "deny"
      /\ was = "deny" => \/ is = was
                         \/ is = "require_approval"
                            /\ \E u \in CaseVariants({t}) : Decision(file, p, u) # "deny")

\* Evidence of peers only ever keeps grants: no request the policy did not deny fares
\* worse for it, and an action that no peer used lately fares the same.
FleetOnlyVetoes ==
  \A mode \in {"demote", "drop"} : Decays(mode, NoPeer, LAMBDA alone : Decays(mode, Merged(evidence), LAMBDA merged :
    \A p \in Enumerable, t \in Targets :
      /\ Decision(file, p, t) # "deny" => Rank(Decision(alone, p, t)) <= Rank(Decision(merged, p, t))
      /\ (\A f \in evidence : f.ours => f.last[p] = 0 \/ ~Fresh(f.last[p])) =>
           Decision(alone, p, t) = Decision(merged, p, t)))

\* An action exported in time keeps its grant, whatever the log has lost since.
ExportedIsKept ==
  \A mode \in {"demote", "drop"} : Decays(mode, Merged(evidence), LAMBDA after :
    \A f \in evidence, p \in Enumerable, t \in Targets :
      f.ours /\ f.last[p] # 0 /\ Fresh(f.last[p]) => Decision(after, p, t) = Decision(file, p, t))

\* What is used keeps its decision under drop, only an allow becomes a question under demote,
\* and evidence takes nothing away: UseIsNotDecayed, DemotionOnlyAsks, FleetOnlyVetoes and
\* ExportedIsKept.
DecayIsSafe == UseIsNotDecayed /\ DemotionOnlyAsks /\ FleetOnlyVetoes /\ ExportedIsKept

\* The text that is replaced is one of the snapshots afterwards.
ReplacedIsKept == \E i \in DOMAIN snapshots' : snapshots'[i].text = file

\* What a rollback replaces can be rolled back to, if the disk took its snapshot: also at the
\* cap, with a text recorded before, and among snapshots of the same second, and whichever
\* earlier snapshots the disk refused.
RollbackIsReversible == [][\A n \in 1..MaxSnapshots : Rollback(n, FALSE) => ReplacedIsKept]_vars

\* cli/policy.ts: the current file is snapshotted first, so the rollback is itself reversible -
\* whatever the disk does (README.md, section 4).
RollbackLosesNothing ==
  [][\A n \in 1..MaxSnapshots, refused \in BOOLEAN : Rollback(n, refused) => ReplacedIsKept]_vars

-----------------------------------------------------------------------------
(* What the tools that read a policy promise of any text. *)

\* The null target never promises less than some target gets: what it denies is
\* denied everywhere, what it allows is asked about nowhere, and the overlay, the
\* wires and the caps it reports cover every target; and the blast radius of a leaked
\* token lists exactly what the null target lets it reach.
ReachabilityIsHonest(text) ==
  LET policy == Compile(text.grants) IN
  \A p \in Pairs, t \in Targets :
    /\ Decide(policy, p[1], p[2], Somewhere) = "deny" => Decide(policy, p[1], p[2], t) = "deny"
    /\ Decide(policy, p[1], p[2], Somewhere) = "allow" => Decide(policy, p[1], p[2], t) # "require_approval"
    /\ Evaluate(policy, p[1], p[2], Somewhere).reason = "explicit_deny" =>
         Decide(policy, p[1], p[2], Unknown) = "deny"
    /\ p \in Enumerable => /\ (p[2] \in AutoAllow(policy, p[1])) = (Decide(policy, p[1], p[2], Somewhere) = "allow")
                           /\ (p[2] \in RequiresApproval(policy, p[1])) =
                                (Decide(policy, p[1], p[2], Somewhere) = "require_approval")
    /\ AgentRequiresApproval(text.limits.overlay, p[2], t) => AgentRequiresApproval(text.limits.overlay, p[2], Somewhere)
    /\ Trips(text.limits.wires, p[2], t) => Trips(text.limits.wires, p[2], Somewhere)
    /\ ResponseLimit(text.limits.caps, p[2], t).exceed # "uncapped" =>
         LET worst == ResponseLimit(text.limits.caps, p[2], Somewhere) here == ResponseLimit(text.limits.caps, p[2], t)
         IN worst.bytes < here.bytes \/ (worst.bytes = here.bytes /\ (here.exceed = "deny" => worst.exceed = "deny"))

\* A text that the schema takes: its ceilings are above 0, and "unnamed" is no agent's name
\* but stands for each that has no ceiling of its own.
Reviewable(text) ==
  /\ Written(text)
  /\ \A rules \in {text.limits.overlay, text.limits.wires} : rules \in Seq(Rule)
  /\ text.limits.caps \in Seq([rule : Rule, bytes : Nat, exceed : {"deny", "truncate"}])
  /\ text.limits.weights \in Seq([on : SUBSET Actions, weight : Nat])
  /\ text.limits.flows \in Seq([when : Seq(SUBSET Actions), then : Seq(SUBSET Actions)])
  /\ "perAgent" \in DOMAIN text.limits
  /\ text.limits.perHour \in Nat /\ "unnamed" \notin DOMAIN text.limits.perAgent
  /\ text.limits.perAgent = [agent \in DOMAIN text.limits.perAgent |-> text.limits.perAgent[agent]]
  /\ \A tool \in DOMAIN text.limits.perUpstream : text.limits.perUpstream[tool] \in Nat \ {0}

Without(rules, flagged) == SetToSeq({rules[i] : i \in DOMAIN rules \ flagged})

Engages(flow, a, b) == a \in UNION Range(flow.when) /\ b \in UNION Range(flow.then)

\* What the linter calls inert does nothing for the known actions, and a decoy that the
\* policy lets anyone near is called out.
InertIsHarmless(policy, limits, known) ==
  LET caps == Without(limits.caps, InertCaps(policy, limits.caps))
      trim(flow) == [when |-> Without(flow.when, InertSides(policy, flow).when),
                     then |-> Without(flow.then, InertSides(policy, flow).then)]
      keys(registered) == DOMAIN limits.perAgent \ InertKeys(limits, registered)
      live(registered) == [limits EXCEPT !.perAgent = [a \in keys(registered) |-> @[a]]]
  IN /\ \A p \in known, t \in Targets \cup {Somewhere} :
          ResponseLimit(caps, p[2], t) = ResponseLimit(limits.caps, p[2], t)
     /\ \A f \in Range(limits.flows), p, q \in known : Engages(trim(f), p[2], q[2]) = Engages(f, p[2], q[2])
     /\ \A registered \in SUBSET DOMAIN limits.perAgent : \A agent \in registered :
          AgentCeiling(live(registered), agent) = AgentCeiling(limits, agent)
     /\ \A decoys \in SUBSET Tools : \A tool \in decoys, a \in Actions :
          Decide(policy, tool, a, Somewhere) # "deny" => tool \in GrantedDecoys(policy, decoys)

\* Advice of the linter may be followed: all the rules it calls shadowed and all the
\* weights it calls dominated can go at once and no known action is decided or priced
\* otherwise; an action it calls unreachable is out of reach of every agent that has no
\* ceiling of its own; and an allowed action that trips a wire is reported.
LintIsSafeToFollow(text) ==
  LET policy == Compile(text.grants)
      limits == text.limits
      Trim(grant, known) ==
        [deny |-> Without(grant.deny, ShadowedPatterns(grant.deny, known)),
         approve |-> Without(grant.approve, ShadowedPatterns(grant.approve, known)),
         allow |-> Without(grant.allow, ShadowedPatterns(grant.allow, known))]
      trimmed == [tool \in DOMAIN policy |-> Trim(policy[tool], Vocabulary[tool])]
      known == {p \in Enumerable : p[1] \in DOMAIN policy}
      priced == Without(limits.weights, DominatedWeights(policy, limits))
  IN /\ \A p \in known, t \in Targets \cup {Somewhere, Unknown} :
          Decide(trimmed, p[1], p[2], t) = Decide(policy, p[1], p[2], t)
     /\ \A p \in known : ActionCost(priced, p[2]) = ActionCost(limits.weights, p[2])
     /\ \A i \in UnreachableWeights(policy, limits) : \E tool \in Tools :
          /\ \E p \in Taxed(policy, limits.weights[i]) : p[1] = tool
          /\ \A p \in Taxed(policy, limits.weights[i]) :
               p[1] = tool => ~MayForward(limits, "unnamed", tool, 0, ActionCost(limits.weights, p[2]))
     /\ \A p \in known, i \in DOMAIN limits.wires :
          Decide(policy, p[1], p[2], Somewhere) = "allow" /\ Trips(<<limits.wires[i]>>, p[2], Somewhere) =>
            i \in SelfRevokingWires(policy, limits.wires)
     /\ InertIsHarmless(policy, limits, known)

\* Of the shell's grant: no deny the linter calls evadable refuses a command whose
\* arguments nobody knows, and a binary allowed whatever its arguments are is reported -
\* twice if it runs what it is handed - unless the rule allows every action.
ExecLintIsSound(grant, exec, interpreters) ==
  LET policy == [tool \in {"shell"} |-> grant]
      without == [tool \in {"shell"} |->
                    [grant EXCEPT !.deny = Without(grant.deny, EvadableDenies(grant, exec))]]
      allowed(a) == Decide(policy, "shell", a, Unknown) = "allow"
      allows(a) == {i \in DOMAIN grant.allow : a \in grant.allow[i].on /\ grant.allow[i].on # Actions}
  IN \A a \in exec :
       /\ Evaluate(policy, "shell", a, Unknown) = Evaluate(without, "shell", a, Unknown)
       /\ allowed(a) /\ (\A r \in Range(grant.allow) : r.on # Actions) =>
            allows(a) \intersect UnscopedAllows(grant, exec) # {}
       /\ a \in interpreters /\ (\E t \in Targets : Decide(policy, "shell", a, t) = "allow") =>
            \/ allows(a) \intersect RunsAnything(grant, interpreters) # {}
            \/ \E r \in Range(grant.allow) : a \in r.on /\ r.on # {a}

-----------------------------------------------------------------------------
(* What a document or a comment says and the code does not do: README.md, section 4. *)

\* "every ACTIVE action must decide identically before and after": also one that the
\* adapter emits and its vocabulary does not list, as MCP notifications.
EveryUseIsKept ==
  \A mode \in {"demote", "drop"} : Decays(mode, NoPeer, LAMBDA after :
    \A p \in Pairs, t \in Targets :
      (\E at \in Uses(log, p) : Fresh(at)) /\ p[2] # BatchLabel => Decision(after, p, t) = Decision(file, p, t))

\* "it only ever tightens": no request fares better under what shrinkwrap writes.
ShrinkwrapOnlyTightens ==
  CanShrinkwrap(file, log) =>
    \A p \in Pairs, t \in Targets :
      Rank(Decision(ShrinkwrapPolicy(file, log), p, t)) <= Rank(Decision(file, p, t))

\* "It only ever tightens": the same of decay, whose demotions ignore the case of targets.
DecayOnlyTightens ==
  Decays("demote", NoPeer, LAMBDA after :
    \A p \in Pairs, t \in Targets : Rank(Decision(after, p, t)) <= Rank(Decision(file, p, t)))

\* "Snapshots newest-first, index 1 = most recent": not among those of one second, as a
\* save from the console makes two of them.
FirstIsMostRecent ==
  [][file' # file /\ active' = file' /\ snapshots' # snapshots => snapshots'[1].text = file']_vars
=============================================================================
