----------------------------- MODULE ExplainReport -----------------------------
(***************************************************************************)
(* explain/report.ts buildExplain(): what `grenz explain` and the console  *)
(* say the proxy would do of one action right now.  It is a second, pure   *)
(* implementation of the verdict that BatchVerdict takes from dispatch(),  *)
(* over the inputs collectExplainInputs() reads from the live stores: the  *)
(* engine, JIT grants, schedule, first use, step-up and the overlay.       *)
(* Break-glass windows are not among its inputs, and flows and pins are    *)
(* listed, not judged: it has no session.                                  *)
(***************************************************************************)
EXTENDS BatchVerdict

\* grantEffect: what a matching live grant does for the engine's verdict.
GrantEffect(p, m) ==
  CASE m.action \notin p.granted -> "none"
    [] m.action \in p.granted /\ p.class[m] = "explicit_allow" -> "not_needed"
    [] m.action \in p.granted /\ p.class[m] = "explicit_deny" -> "never_overrides_deny"
    [] m.action \in p.granted /\ p.class[m] = "approval_required" -> "widens_approval"
    [] m.action \in p.granted /\ p.class[m] = "no_matching_allow" -> "widens_gap"

Widened(p, m) == GrantEffect(p, m) \in {"widens_gap", "widens_approval"}

\* Each layer clamps what the layers before it left.
ExplainSchedule(p, m, decision) ==
  IF p.schedule # "open" /\ decision # "deny" THEN p.schedule ELSE decision

\* First use, with the human decision behind a grant forgotten.
ExplainFirstUseAlways(p, m, decision) ==
  IF p.firstUse # "off" /\ m.action \in p.novel /\ decision = "allow" THEN p.firstUse ELSE decision

\* A grant is the human decision, so what it widened is not asked about again.
ExplainFirstUse(p, m, decision) ==
  IF /\ p.firstUse # "off" /\ m.action \in p.novel
     /\ decision = "allow" /\ ~Widened(p, m)
  THEN p.firstUse ELSE decision

ExplainStepUp(p, m, decision) == IF decision = "allow" /\ p.stepUp THEN "require_approval" ELSE decision

ExplainOverlay(p, m, decision) == IF decision = "allow" /\ m \in p.overlay THEN "require_approval" ELSE decision

\* The headline: the first blocking layer in dispatch order.
Effective(p, m) ==
  LET engine == IF Widened(p, m) THEN "allow" ELSE Decision(p.class[m])
  IN ExplainOverlay(p, m, ExplainStepUp(p, m, ExplainFirstUse(p, m, ExplainSchedule(p, m, engine))))

\* The actions a flow or pin rule makes conditional are listed beside the headline.
Conditional(p, m) == p.session # "quiet" /\ m.action \in p.sinks

-----------------------------------------------------------------------------

Explained == request # <<>> /\ Len(request) = 1

(* The report and the enforcement are two implementations of one order of  *)
(* gates.  For a request of one action with no window in play and no rule  *)
(* of the session listed, the headline is what dispatch() decides, but for *)
(* one case in which dispatch() is the stricter: a hard first-use rule on  *)
(* an action that is prompted for anyway.  With a rule listed, dispatch()  *)
(* is never more lenient than the headline.                                *)
ExplainFollowsDispatch ==
  Explained /\ ~Decided.glass =>
    LET m == Pair(request[1])
        headline == Effective(policy, m)
    IN /\ Severity(Decided.decision) >= Severity(headline)
       /\ Decided.decision # headline =>
            \/ Conditional(policy, m)
            \/ Decided.decision = "deny" /\ headline = "require_approval"
               /\ policy.firstUse = "deny" /\ m.action \in policy.novel

(* What a comment says and the code does not do: README.md, section 4.     *)
(* explain/report.ts: the explanation cannot drift from enforcement.       *)
ExplainCannotDrift ==
  Explained /\ ~Conditional(policy, Pair(request[1])) => Decided.decision = Effective(policy, Pair(request[1]))
=============================================================================
