-------------------------------- MODULE MCBatch --------------------------------
(* Instances of BatchVerdict: two actions, two targets.                       *)
EXTENDS ExplainReport, TimedWindows

CONSTANTS read, merge, main

ASSUME RepositoryAssumption == {read, merge} \subseteq Actions /\ main \in Targets

\* The classes do not look at the target of a read; merges are allowed or in a
\* gap of the policy, and a merge to main has its own rule.
Classes ==
  {[q \in Pairs |-> IF q.action = read THEN r ELSE IF q.target = main THEN mm ELSE m] :
     r \in Class, m \in {"explicit_allow", "no_matching_allow"}, mm \in Class}

Quorums == {[a \in Actions |-> 1], [a \in Actions |-> IF a = merge THEN 2 ELSE 1]}

MergeToMain == {[action |-> merge, target |-> main]}

Base(c) ==
  [class |-> c, quorum |-> [a \in Actions |-> 1], overlay |-> {}, granted |-> {}, window |-> {},
   schedule |-> "open", firstUse |-> "off", novel |-> {merge}, stepUp |-> FALSE, session |-> "quiet",
   sinks |-> {read}]

\* Every combination of gates, over every classification.
AllPolicies ==
  {[Base(c) EXCEPT !.quorum = q, !.overlay = o, !.granted = g, !.window = w, !.schedule = s,
                   !.firstUse = f, !.stepUp = u, !.session = x] :
     c \in Classes, q \in Quorums, o \in {{}, MergeToMain}, g \in {{}, {merge}}, w \in {{}, {merge}},
     s \in {"open", "deny", "require_approval"}, f \in {"off", "deny", "require_approval"},
     u \in BOOLEAN, x \in {"quiet", "deny", "require_approval"}}

\* The course of a run: single requests against every policy, or a few policies
\* while permits are opened, end and are revoked under the requests.
CONSTANT fork

TimedPolicies ==
  {[Base([q \in Pairs |-> x]) EXCEPT !.overlay = MergeToMain] :
     x \in {"no_matching_allow", "approval_required"}}
MergeOnly == {{merge}}

VARIABLE course

all == <<vars, timedVars, course>>

MCInit ==
  \/ course = "verdicts" /\ Init /\ TimedInit
  \/ course = "permits" /\ policy \in TimedPolicies /\ request = <<>> /\ remembered = {} /\ TimedInit

MCNext ==
  /\ UNCHANGED course
  /\ \/ course = "verdicts" /\ Next /\ UNCHANGED timedVars
     \/ course = "permits" /\ TimedNext /\ UNCHANGED vars

MCSpec == MCInit /\ [][MCNext]_all

\* No permit stands in for more than it was given for: a glass for its agent and its actions
\* (GlassIsScoped), a window or a grant no longer than it lasts (EndedMeansEnded), and a
\* remembered answer only for what a policy asks about whatever the context (MemoryIsStatic).
PermitsAreScoped == GlassIsScoped /\ EndedMeansEnded /\ MemoryIsStatic
=============================================================================
