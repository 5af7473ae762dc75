------------------------------ MODULE BatchProofs ------------------------------
(* Proofs about the verdict of a request: a batch is decided at least as       *)
(* strictly as its members (BatchVerdict), the explanation follows the         *)
(* enforcement (ExplainReport), and no permit stands in for more than it was   *)
(* given for (BatchVerdict, TimedWindows) - for any policy, any batch and any  *)
(* course of the permits.                                                      *)
EXTENDS MCBatch, WellFoundedInduction, TLAPS

-------------------------------------------------------------------------------
(* Sequences and numbers. *)

\* A set of numbers has a least one.
LEMMA SmallestNumber ==
  ASSUME NEW S, S \subseteq Nat, S # {}
  PROVE  Min(S) \in S /\ \A m \in S : Min(S) <= m
<1>1. IsWellFoundedOn(OpToRel(<, Nat), Nat)
  BY NatLessThanWellFounded
<1>2. PICK n \in S : \A m \in S : ~(<<m, n>> \in OpToRel(<, Nat))
  BY <1>1, WFMin
<1>3. \A m \in S : ~(m < n)
  BY <1>2 DEF OpToRel
<1>4. \A m \in S : n <= m
  BY <1>3
<1> QED
  BY <1>4 DEF Min

\* The members of a request, by index.
LEMMA BatchIs ==
  ASSUME NEW b \in Batches
  PROVE  /\ Len(b) \in Nat \ {0} /\ DOMAIN b = 1..Len(b) /\ 1 \in DOMAIN b
         /\ \A i \in DOMAIN b : b[i] \in Message /\ b[i].action \in Actions /\ Pair(b[i]) \in Pairs
         /\ ActionsOf(b) \subseteq Actions /\ ActionsOf(b) # {}
         /\ \A i \in DOMAIN b : b[i].action \in ActionsOf(b) /\ Pair(b[i]) \in Members(b)
<1>1. PICK n \in 1..MaxBatch : b \in [1..n -> Message]
  BY DEF Batches
<1>2. n \in Nat \ {0} /\ Len(b) = n /\ DOMAIN b = 1..n
  BY <1>1, BatchAssumption
<1>3. \A i \in DOMAIN b : b[i] \in Message /\ b[i].action \in Actions /\ Pair(b[i]) \in Pairs
  BY <1>1, <1>2 DEF Message, Pair, Pairs
<1> QED
  BY <1>2, <1>3 DEF ActionsOf, Members, Range

\* A request of one member.
LEMMA AloneIs ==
  ASSUME NEW m \in Message
  PROVE  /\ <<m>> \in Batches /\ Len(<<m>>) = 1 /\ DOMAIN <<m>> = {1} /\ <<m>>[1] = m
         /\ ActionsOf(<<m>>) = {m.action} /\ Members(<<m>>) = {Pair(m)}
<1>1. <<m>> \in [1..1 -> Message] /\ DOMAIN <<m>> = {1} /\ <<m>>[1] = m /\ Len(<<m>>) = 1
  OBVIOUS
<1>2. <<m>> \in Batches
  BY <1>1, BatchAssumption DEF Batches
<1>3. Range(<<m>>) = {m}
  BY <1>1 DEF Range
<1> QED
  BY <1>1, <1>2, <1>3 DEF ActionsOf, Members

-------------------------------------------------------------------------------
(* The engine: combine(), the quorum, the grants and the glass. *)

Decisions == {"allow", "deny", "require_approval"}

Opinion ==
  [decision : Decisions, reason : Class, rep : {<<>>} \union {<<a>> : a \in Actions},
   quorum : 1..2, granted : BOOLEAN, glass : BOOLEAN, tagged : BOOLEAN]

\* What the engine decides of one member.
Of(p, m) == Decision(p.class[Pair(m)])

LEMMA OfIs ==
  ASSUME NEW p \in Policy, NEW m \in Message
  PROVE  p.class[Pair(m)] \in Class /\ Of(p, m) \in Decisions
BY DEF Policy, Message, Pair, Pairs, Class, Of, Decision, Decisions

\* combine(): deny wins, then a prompt; what speaks for the batch is one of its actions.
LEMMA CombineIs ==
  ASSUME NEW p \in Policy, NEW b \in Batches
  PROVE  LET v == Combine(p, b) IN
         /\ v \in Opinion
         /\ v.decision = "deny" <=> \E i \in DOMAIN b : Of(p, b[i]) = "deny"
         /\ v.decision = "allow" <=> \A i \in DOMAIN b : Of(p, b[i]) = "allow"
         /\ ~v.granted /\ ~v.glass /\ ~v.tagged
         /\ v.rep = <<>> \/ \E i \in DOMAIN b : v.rep = <<b[i].action>>
         /\ v.decision # "allow" => v.rep # <<>>
<1> DEFINE D(d) == Deciders(p, b, d)
           First(d) == /\ D(d) # {}
                       /\ d # "deny" => D("deny") = {}
                       /\ d = "allow" => D("require_approval") = {}
<1>1. \A i \in DOMAIN b : Of(p, b[i]) \in Decisions
  BY BatchIs, OfIs
<1>2. \A d : D(d) = {i \in DOMAIN b : Of(p, b[i]) = d}
  BY DEF Deciders, Of
<1>3. \E d \in Decisions : First(d)
  <2>1. CASE D("deny") # {}
    BY <2>1 DEF Decisions
  <2>2. CASE D("deny") = {} /\ D("require_approval") # {}
    BY <2>2 DEF Decisions
  <2>3. CASE D("deny") = {} /\ D("require_approval") = {}
    <3>1. 1 \in D("allow")
      <4>1. 1 \in DOMAIN b
        BY BatchIs
      <4> HIDE DEF D
      <4>2. Of(p, b[1]) # "deny" /\ Of(p, b[1]) # "require_approval"
        BY <1>2, <2>3, <4>1
      <4>3. Of(p, b[1]) = "allow"
        BY <1>1, <4>1, <4>2 DEF Decisions
      <4> QED
        BY <1>2, <4>1, <4>3
    <3> QED
      BY <3>1, <2>3 DEF Decisions
  <2> QED
    BY <2>1, <2>2, <2>3
<1>4. PICK d : d = CHOOSE x \in {"deny", "require_approval", "allow"} : First(x)
  OBVIOUS
<1>5. d \in Decisions /\ First(d)
  <2>1. {"deny", "require_approval", "allow"} = Decisions
    BY DEF Decisions
  <2> QED
    BY <1>3, <1>4, <2>1
<1>6. D(d) \subseteq Nat /\ D(d) # {} /\ D(d) \subseteq DOMAIN b
  BY <1>5, <1>2, BatchIs
<1>7. Min(D(d)) \in DOMAIN b
  BY <1>6, SmallestNumber
<1>8. PICK first : first = b[Min(D(d))]
  OBVIOUS
<1>9. first \in Message /\ p.class[Pair(first)] \in Class /\ first.action \in Actions
  BY <1>7, <1>8, BatchIs, OfIs
<1>10. Combine(p, b) =
         [decision |-> d, reason |-> p.class[Pair(first)],
          rep |-> IF d = "allow" /\ Len(b) > 1 THEN <<>> ELSE <<first.action>>,
          quorum |-> 1, granted |-> FALSE, glass |-> FALSE, tagged |-> FALSE]
  BY <1>4, <1>8 DEF Combine
<1>11. Combine(p, b) \in Opinion
  BY <1>5, <1>9, <1>10 DEF Opinion
<1>12. d = "deny" <=> \E i \in DOMAIN b : Of(p, b[i]) = "deny"
  BY <1>5, <1>2
<1>13. d = "allow" <=> \A i \in DOMAIN b : Of(p, b[i]) = "allow"
  BY <1>5, <1>2, <1>1, BatchIs DEF Decisions
<1> QED
  BY <1>7, <1>8, <1>10, <1>11, <1>12, <1>13

\* The quorum asked for is that of some member, and no member asks for more.
LEMMA QuorumIs ==
  ASSUME NEW p \in Policy, NEW b \in Batches, NEW v \in Opinion
  PROVE  LET q == Quorum(p, b, v) IN
         /\ q \in Opinion /\ q = [v EXCEPT !.quorum = q.quorum]
         /\ \A i \in DOMAIN b : p.quorum[b[i].action] <= q.quorum
         /\ \E i \in DOMAIN b : p.quorum[b[i].action] = q.quorum
<1> DEFINE S == {p.quorum[a] : a \in ActionsOf(b)}
<1>1. S \subseteq {1, 2} /\ S # {}
  BY BatchIs DEF Policy
<1>2. \E x \in S : \A y \in S : x >= y
  <2>1. CASE 2 \in S
    BY <1>1, <2>1
  <2>2. CASE 2 \notin S
    BY <1>1, <2>2
  <2> QED
    BY <2>1, <2>2
<1>3. Max(S) \in S /\ \A y \in S : Max(S) >= y
  BY <1>2 DEF Max
<1>4. Quorum(p, b, v) = [v EXCEPT !.quorum = Max(S)]
  BY DEF Quorum
<1>5. Max(S) \in 1..2
  BY <1>1, <1>3
<1>6. Quorum(p, b, v) \in Opinion /\ Quorum(p, b, v).quorum = Max(S)
  BY <1>4, <1>5 DEF Opinion
<1>7. \A i \in DOMAIN b : p.quorum[b[i].action] \in S
  BY BatchIs
<1>8. \A a \in ActionsOf(b) : \E i \in DOMAIN b : b[i].action = a
  BY DEF ActionsOf, Range
<1>9. \E i \in DOMAIN b : p.quorum[b[i].action] = Max(S)
  BY <1>3, <1>8
<1>10. \A i \in DOMAIN b : p.quorum[b[i].action] <= Max(S)
  <2> SUFFICES ASSUME NEW i \in DOMAIN b PROVE p.quorum[b[i].action] <= Max(S)
    OBVIOUS
  <2>1. p.quorum[b[i].action] \in S /\ p.quorum[b[i].action] \in {1, 2}
    BY <1>7, <1>1
  <2> QED
    BY <2>1, <1>3, <1>5
<1> QED
  BY <1>4, <1>6, <1>9, <1>10

Voted(p, b) == Quorum(p, b, Combine(p, b))
Lifted(p, b) == JitGrant(p, b, Voted(p, b))
Engine(p, b) == BreakGlass(p, b, Lifted(p, b))

\* A grant lifts to an allow what it matches, unless it was denied in so many words.
LEMMA LiftedIs ==
  ASSUME NEW p \in Policy, NEW b \in Batches
  PROVE  LET c == Combine(p, b)
             v == Lifted(p, b)
         IN /\ v \in Opinion
            /\ v.quorum = Voted(p, b).quorum /\ v.rep = c.rep /\ v.reason = c.reason
            /\ ~v.glass /\ ~v.tagged
            /\ v.granted <=> /\ c.decision # "allow" /\ c.reason # "explicit_deny"
                             /\ Range(c.rep) \intersect p.granted # {}
            /\ v.decision = IF v.granted THEN "allow" ELSE c.decision
<1>1. PICK c : c = Combine(p, b)
  OBVIOUS
<1>2. c \in Opinion /\ ~c.granted /\ ~c.glass /\ ~c.tagged
  BY <1>1, CombineIs
<1>3. PICK q : q = Quorum(p, b, c)
  OBVIOUS
<1>4. q \in Opinion /\ q = [c EXCEPT !.quorum = q.quorum]
  BY <1>2, <1>3, QuorumIs
<1>5. q.decision = c.decision /\ q.reason = c.reason /\ q.rep = c.rep /\ ~q.granted /\ ~q.glass /\ ~q.tagged
  BY <1>2, <1>4 DEF Opinion
<1>6. PICK v : v = JitGrant(p, b, q)
  OBVIOUS
<1>7. v = IF q.decision # "allow" /\ q.reason # "explicit_deny" /\ Range(q.rep) \intersect p.granted # {}
          THEN [q EXCEPT !.decision = "allow", !.granted = TRUE] ELSE q
  BY <1>6 DEF JitGrant
<1>8. /\ v \in Opinion /\ v.quorum = q.quorum /\ v.rep = q.rep /\ v.reason = q.reason
      /\ v.glass = q.glass /\ v.tagged = q.tagged
  BY <1>4, <1>7 DEF Opinion, Decisions
<1>9. /\ v.granted <=> q.decision # "allow" /\ q.reason # "explicit_deny" /\ Range(q.rep) \intersect p.granted # {}
      /\ v.decision = IF v.granted THEN "allow" ELSE q.decision
  BY <1>4, <1>5, <1>7 DEF Opinion
<1> QED
  BY <1>1, <1>3, <1>5, <1>6, <1>8, <1>9 DEF Lifted, Voted

\* The glass turns a denial into a prompt of one vote, if the window covers every action.
LEMMA EngineIs ==
  ASSUME NEW p \in Policy, NEW b \in Batches
  PROVE  LET l == Lifted(p, b)
             v == Engine(p, b)
         IN /\ v \in Opinion
            /\ v.rep = l.rep /\ v.reason = l.reason /\ v.granted = l.granted /\ ~v.tagged
            /\ v.glass <=> l.decision = "deny" /\ ActionsOf(b) \subseteq p.window
            /\ v.decision = IF v.glass THEN "require_approval" ELSE l.decision
            /\ v.quorum = IF v.glass THEN 1 ELSE l.quorum
<1>1. PICK l : l = Lifted(p, b)
  OBVIOUS
<1>2. l \in Opinion /\ ~l.glass /\ ~l.tagged
  BY <1>1, LiftedIs
<1>3. PICK v : v = BreakGlass(p, b, l)
  OBVIOUS
<1>4. v = IF l.decision = "deny" /\ ActionsOf(b) \subseteq p.window
          THEN [l EXCEPT !.decision = "require_approval", !.quorum = 1, !.glass = TRUE] ELSE l
  BY <1>3 DEF BreakGlass
<1>5. v \in Opinion /\ v.rep = l.rep /\ v.reason = l.reason /\ v.granted = l.granted /\ v.tagged = l.tagged
  <2>1. CASE l.decision = "deny" /\ ActionsOf(b) \subseteq p.window
    <3>1. v = [l EXCEPT !.decision = "require_approval", !.quorum = 1, !.glass = TRUE]
      BY <1>4, <2>1
    <3>2. v.rep = l.rep /\ v.reason = l.reason /\ v.granted = l.granted /\ v.tagged = l.tagged
      BY <1>2, <3>1 DEF Opinion
    <3>3. 1 \in 1..2 /\ "require_approval" \in Decisions
      BY DEF Decisions
    <3>4. v \in Opinion
      BY <1>2, <3>1, <3>3 DEF Opinion
    <3> QED
      BY <3>2, <3>4
  <2>2. CASE ~(l.decision = "deny" /\ ActionsOf(b) \subseteq p.window)
    BY <1>2, <1>4, <2>2
  <2> QED
    BY <2>1, <2>2
<1>6. /\ v.glass <=> l.decision = "deny" /\ ActionsOf(b) \subseteq p.window
      /\ v.decision = IF v.glass THEN "require_approval" ELSE l.decision
      /\ v.quorum = IF v.glass THEN 1 ELSE l.quorum
  BY <1>2, <1>4 DEF Opinion
<1> QED
  BY <1>1, <1>2, <1>3, <1>5, <1>6 DEF Engine

-------------------------------------------------------------------------------
(* The gates. *)

\* As strict as, or stricter.
AsStrict(d, e) == (e = "deny" => d = "deny") /\ (d = "allow" => e = "allow")

\* What any gate does to an opinion: it tightens, and tags the prompt it raises.
Tightened(v, w) ==
  /\ w \in Opinion
  /\ w.reason = v.reason /\ w.rep = v.rep /\ w.quorum = v.quorum /\ w.granted = v.granted /\ w.glass = v.glass
  /\ AsStrict(w.decision, v.decision)
  /\ w.decision = "require_approval" /\ ~w.tagged => v.decision = "require_approval" /\ ~v.tagged

LEMMA ClampTightens ==
  ASSUME NEW v \in Opinion, NEW effect, v.decision # "deny"
  PROVE  /\ Tightened(v, Clamp(v, effect)) 
         /\ Clamp(v, effect).decision = IF effect = "deny" THEN "deny" ELSE "require_approval"
<1>1. Clamp(v, effect) \in Opinion
  BY DEF Clamp, Opinion, Decisions
<1> QED
  BY <1>1 DEF Clamp, Tightened, AsStrict, Opinion, Decisions

LEMMA GatesTighten ==
  ASSUME NEW p \in Policy, NEW b \in Batches, NEW v \in Opinion
  PROVE  /\ Tightened(v, Schedule(p, b, v)) /\ Tightened(v, FirstUse(p, b, v)) /\ Tightened(v, StepUp(p, b, v))
         /\ Tightened(v, Overlay(p, b, v)) /\ Tightened(v, Session(p, b, v))
<1>1. Tightened(v, v)
  BY DEF Tightened, AsStrict
<1>2. \A effect : v.decision # "deny" => Tightened(v, Clamp(v, effect))
  BY ClampTightens
<1> QED
  BY <1>1, <1>2 DEF Schedule, FirstUse, StepUp, Overlay, Session

LEMMA TightenedTwice ==
  ASSUME NEW u, NEW v, NEW w, Tightened(u, v), Tightened(v, w)
  PROVE  Tightened(u, w)
BY DEF Tightened, AsStrict

\* The opinion after each gate.
AfterHours(p, b) == Schedule(p, b, Engine(p, b))
AfterNovelty(p, b) == FirstUse(p, b, AfterHours(p, b))
AfterRisk(p, b) == StepUp(p, b, AfterNovelty(p, b))
AfterOverlay(p, b) == Overlay(p, b, AfterRisk(p, b))

LEMMA VerdictIs ==
  ASSUME NEW p \in Policy, NEW b \in Batches
  PROVE  /\ Verdict(p, b) = Session(p, b, AfterOverlay(p, b))
         /\ Tightened(Engine(p, b), AfterHours(p, b)) /\ Tightened(Engine(p, b), AfterNovelty(p, b))
         /\ Tightened(Engine(p, b), AfterRisk(p, b)) /\ Tightened(Engine(p, b), AfterOverlay(p, b))
         /\ Tightened(Engine(p, b), Verdict(p, b))
<1>1. Verdict(p, b) = Session(p, b, AfterOverlay(p, b))
  BY DEF Verdict, Engine, Lifted, Voted, AfterHours, AfterNovelty, AfterRisk, AfterOverlay
<1>2. Engine(p, b) \in Opinion
  BY EngineIs
<1>3. Tightened(Engine(p, b), AfterHours(p, b))
  BY <1>2, GatesTighten DEF AfterHours
<1>4. AfterHours(p, b) \in Opinion
  BY <1>3 DEF Tightened
<1>5. Tightened(AfterHours(p, b), AfterNovelty(p, b))
  BY <1>4, GatesTighten DEF AfterNovelty
<1>6. Tightened(Engine(p, b), AfterNovelty(p, b)) /\ AfterNovelty(p, b) \in Opinion
  BY <1>3, <1>5, TightenedTwice DEF Tightened
<1>7. Tightened(AfterNovelty(p, b), AfterRisk(p, b))
  BY <1>6, GatesTighten DEF AfterRisk
<1>8. Tightened(Engine(p, b), AfterRisk(p, b)) /\ AfterRisk(p, b) \in Opinion
  BY <1>6, <1>7, TightenedTwice DEF Tightened
<1>9. Tightened(AfterRisk(p, b), AfterOverlay(p, b))
  BY <1>8, GatesTighten DEF AfterOverlay
<1>10. Tightened(Engine(p, b), AfterOverlay(p, b)) /\ AfterOverlay(p, b) \in Opinion
  BY <1>8, <1>9, TightenedTwice DEF Tightened
<1>11. Tightened(AfterOverlay(p, b), Verdict(p, b))
  BY <1>1, <1>10, GatesTighten
<1>12. Tightened(Engine(p, b), Verdict(p, b))
  BY <1>10, <1>11, TightenedTwice
<1> QED
  BY <1>1, <1>3, <1>6, <1>8, <1>10, <1>12

-------------------------------------------------------------------------------
(* A batch launders nothing. *)

\* An opinion of the engine's own.
Bare(v) == v \in Opinion /\ ~v.granted /\ ~v.glass

\* The policy without its grants.
Ungranted(p) == [p EXCEPT !.granted = {}]

LEMMA UngrantedIs ==
  ASSUME NEW p \in Policy
  PROVE  LET q == Ungranted(p) IN
         /\ q \in Policy /\ q.granted = {} /\ q.class = p.class /\ q.quorum = p.quorum /\ q.overlay = p.overlay
         /\ q.window = p.window /\ q.schedule = p.schedule /\ q.firstUse = p.firstUse /\ q.novel = p.novel
         /\ q.stepUp = p.stepUp /\ q.session = p.session /\ q.sinks = p.sinks
BY DEF Ungranted, Policy

\* Whatever a gate makes of a member alone, it makes no less of the batch.
LEMMA GatesKeepOrder ==
  ASSUME NEW p \in Policy, NEW b \in Batches, NEW i \in DOMAIN b, NEW v, NEW w, Bare(v), Bare(w),
         AsStrict(v.decision, w.decision)
  PROVE  LET q == Ungranted(p)
             a == <<b[i]>>
         IN /\ AsStrict(Schedule(p, b, v).decision, Schedule(q, a, w).decision)
            /\ AsStrict(FirstUse(p, b, v).decision, FirstUse(q, a, w).decision)
            /\ AsStrict(StepUp(p, b, v).decision, StepUp(q, a, w).decision)
            /\ AsStrict(Overlay(p, b, v).decision, Overlay(q, a, w).decision)
            /\ AsStrict(Session(p, b, v).decision, Session(q, a, w).decision)
<1> DEFINE q == Ungranted(p)
           a == <<b[i]>>
           D(g) == g.decision
<1> USE DEF Bare
<1>1. /\ ActionsOf(a) = {b[i].action} /\ Members(a) = {Pair(b[i])}
      /\ b[i].action \in ActionsOf(b) /\ Pair(b[i]) \in Members(b)
  BY BatchIs, AloneIs
<1>2. /\ \A effect : v.decision # "deny" =>
             D(Clamp(v, effect)) = IF effect = "deny" THEN "deny" ELSE "require_approval"
      /\ \A effect : w.decision # "deny" =>
             D(Clamp(w, effect)) = IF effect = "deny" THEN "deny" ELSE "require_approval"
  BY ClampTightens
<1>3. v.decision \in Decisions /\ w.decision \in Decisions
  BY DEF Opinion
<1>4. /\ q.overlay = p.overlay /\ q.schedule = p.schedule /\ q.firstUse = p.firstUse /\ q.novel = p.novel
      /\ q.stepUp = p.stepUp /\ q.session = p.session /\ q.sinks = p.sinks
  BY UngrantedIs
<1>5. AsStrict(Schedule(p, b, v).decision, Schedule(q, a, w).decision)
  BY <1>2, <1>3, <1>4 DEF Schedule, AsStrict, Decisions
<1>6. Novel(q, a) => Novel(p, b)
  BY <1>1, <1>4 DEF Novel
<1>7. AsStrict(FirstUse(p, b, v).decision, FirstUse(q, a, w).decision)
  BY <1>2, <1>3, <1>4, <1>6 DEF FirstUse, AsStrict, Decisions
<1>8. AsStrict(StepUp(p, b, v).decision, StepUp(q, a, w).decision)
  BY <1>2, <1>3, <1>4 DEF StepUp, AsStrict, Decisions
<1>9. Members(a) \intersect q.overlay # {} => Members(b) \intersect p.overlay # {}
  BY <1>1, <1>4
<1>10. AsStrict(Overlay(p, b, v).decision, Overlay(q, a, w).decision)
  BY <1>2, <1>3, <1>9 DEF Overlay, AsStrict, Decisions
<1>11. ActionsOf(a) \intersect q.sinks # {} => ActionsOf(b) \intersect p.sinks # {}
  BY <1>1, <1>4
<1>12. AsStrict(Session(p, b, v).decision, Session(q, a, w).decision)
  BY <1>2, <1>3, <1>4, <1>11 DEF Session, AsStrict, Decisions
<1> QED
  BY <1>5, <1>7, <1>8, <1>10, <1>12

\* The engine asks no more of a member alone than of the batch.
LEMMA EngineKeepsOrder ==
  ASSUME NEW p \in Policy, NEW b \in Batches, NEW i \in DOMAIN b,
         ~Engine(p, b).granted, ~Engine(p, b).glass, ~Engine(Ungranted(p), <<b[i]>>).glass
  PROVE  LET v == Engine(p, b)
             w == Engine(Ungranted(p), <<b[i]>>)
         IN Bare(v) /\ Bare(w) /\ AsStrict(v.decision, w.decision) /\ v.quorum >= w.quorum
<1> DEFINE q == Ungranted(p)
           a == <<b[i]>>
<1>1. q \in Policy /\ q.granted = {} /\ q.class = p.class /\ q.quorum = p.quorum
  BY UngrantedIs
<1>2. b[i] \in Message /\ a \in Batches /\ DOMAIN a = {1} /\ a[1] = b[i]
  BY BatchIs, AloneIs
<1>3. Of(q, b[i]) = Of(p, b[i]) /\ \A j \in DOMAIN b : Of(p, b[j]) \in Decisions
  BY <1>1, OfIs, BatchIs DEF Of
<1>4. Engine(p, b).decision = Combine(p, b).decision /\ Engine(p, b).quorum = Voted(p, b).quorum /\ Bare(Engine(p, b))
  BY LiftedIs, EngineIs DEF Bare
<1>5. /\ Engine(q, a).decision = Combine(q, a).decision /\ Engine(q, a).quorum = Voted(q, a).quorum
      /\ Bare(Engine(q, a))
  BY <1>1, <1>2, LiftedIs, EngineIs DEF Bare
<1>6. /\ Combine(p, b).decision = "deny" <=> \E j \in DOMAIN b : Of(p, b[j]) = "deny"
      /\ Combine(p, b).decision = "allow" <=> \A j \in DOMAIN b : Of(p, b[j]) = "allow"
      /\ Combine(p, b) \in Opinion
  BY CombineIs
<1>7. /\ Combine(q, a).decision = "deny" <=> Of(q, b[i]) = "deny"
      /\ Combine(q, a).decision = "allow" <=> Of(q, b[i]) = "allow"
      /\ Combine(q, a) \in Opinion
  BY <1>1, <1>2, CombineIs
<1>8. AsStrict(Combine(p, b).decision, Combine(q, a).decision)
  BY <1>3, <1>6, <1>7 DEF AsStrict
<1>9. Voted(p, b).quorum >= p.quorum[b[i].action]
  <2>1. Voted(p, b) \in Opinion /\ p.quorum[b[i].action] <= Voted(p, b).quorum
    BY <1>6, QuorumIs DEF Voted
  <2>2. Voted(p, b).quorum \in 1..2 /\ p.quorum[b[i].action] \in 1..2
    BY <2>1, BatchIs DEF Opinion, Policy
  <2> QED
    BY <2>1, <2>2
<1>10. Voted(q, a).quorum = p.quorum[b[i].action]
  BY <1>1, <1>2, <1>7, QuorumIs DEF Voted
<1> QED
  BY <1>4, <1>5, <1>8, <1>9, <1>10

\* The same after every gate.
LEMMA VerdictKeepsOrder ==
  ASSUME NEW p \in Policy, NEW b \in Batches, NEW i \in DOMAIN b,
         ~Verdict(p, b).granted, ~Verdict(p, b).glass, ~Verdict(Ungranted(p), <<b[i]>>).glass
  PROVE  /\ AsStrict(Verdict(p, b).decision, Verdict(Ungranted(p), <<b[i]>>).decision)
         /\ Verdict(p, b).quorum >= Verdict(Ungranted(p), <<b[i]>>).quorum
<1> DEFINE q == Ungranted(p)
           a == <<b[i]>>
<1>1. q \in Policy /\ a \in Batches
  BY UngrantedIs, BatchIs, AloneIs
<1>2. Tightened(Engine(p, b), Verdict(p, b)) /\ Tightened(Engine(q, a), Verdict(q, a))
  BY <1>1, VerdictIs
<1>3. ~Engine(p, b).granted /\ ~Engine(p, b).glass /\ ~Engine(q, a).glass
  BY <1>2 DEF Tightened
<1>4. /\ Bare(Engine(p, b)) /\ Bare(Engine(q, a)) /\ AsStrict(Engine(p, b).decision, Engine(q, a).decision)
      /\ Engine(p, b).quorum >= Engine(q, a).quorum
  BY <1>3, EngineKeepsOrder
<1>5. \A w : Tightened(Engine(p, b), w) => Bare(w)
  BY <1>4 DEF Tightened, Bare
<1>6. \A w : Tightened(Engine(q, a), w) => Bare(w)
  BY <1>4 DEF Tightened, Bare
<1>7. Bare(AfterHours(p, b)) /\ Bare(AfterNovelty(p, b)) /\ Bare(AfterRisk(p, b)) /\ Bare(AfterOverlay(p, b))
  BY <1>5, VerdictIs
<1>8. Bare(AfterHours(q, a)) /\ Bare(AfterNovelty(q, a)) /\ Bare(AfterRisk(q, a)) /\ Bare(AfterOverlay(q, a))
  BY <1>1, <1>6, VerdictIs
<1>9. AsStrict(AfterHours(p, b).decision, AfterHours(q, a).decision)
  BY <1>4, GatesKeepOrder DEF AfterHours
<1>10. AsStrict(AfterNovelty(p, b).decision, AfterNovelty(q, a).decision)
  BY <1>7, <1>8, <1>9, GatesKeepOrder DEF AfterNovelty
<1>11. AsStrict(AfterRisk(p, b).decision, AfterRisk(q, a).decision)
  BY <1>7, <1>8, <1>10, GatesKeepOrder DEF AfterRisk
<1>12. AsStrict(AfterOverlay(p, b).decision, AfterOverlay(q, a).decision)
  BY <1>7, <1>8, <1>11, GatesKeepOrder DEF AfterOverlay
<1>13. AsStrict(Verdict(p, b).decision, Verdict(q, a).decision)
  <2>1. AsStrict(Session(p, b, AfterOverlay(p, b)).decision, Session(q, a, AfterOverlay(q, a)).decision)
    BY <1>7, <1>8, <1>12, GatesKeepOrder
  <2> QED
    BY <1>1, <2>1, VerdictIs
<1>14. Verdict(p, b).quorum = Engine(p, b).quorum /\ Verdict(q, a).quorum = Engine(q, a).quorum
  BY <1>2 DEF Tightened
<1> QED
  BY <1>4, <1>13, <1>14

-------------------------------------------------------------------------------
(* The glass, the memory, and the explanation. *)

LEMMA GlassCovers ==
  ASSUME NEW p \in Policy, NEW b \in Batches, Verdict(p, b).glass
  PROVE  Verdict(p, b).decision # "allow" /\ ActionsOf(b) \subseteq p.window
<1>1. Tightened(Engine(p, b), Verdict(p, b))
  BY VerdictIs
<1>2. Engine(p, b).glass
  BY <1>1 DEF Tightened
<1>3. Engine(p, b).decision = "require_approval" /\ ActionsOf(b) \subseteq p.window
  BY <1>2, EngineIs
<1> QED
  BY <1>1, <1>3 DEF Tightened, AsStrict

LEMMA StaticIs ==
  ASSUME NEW p \in Policy
  PROVE  LET q == Static(p) IN
         /\ q \in Policy /\ q.granted = p.granted /\ q.class = p.class /\ q.quorum = p.quorum /\ q.overlay = {}
         /\ q.window = {} /\ q.schedule = "open" /\ q.firstUse = "off" /\ q.stepUp = FALSE /\ q.session = "quiet"
BY DEF Static, Policy

\* Without the dynamic gates a verdict is what the engine says.
LEMMA StaticVerdict ==
  ASSUME NEW p \in Policy, NEW b \in Batches
  PROVE  Verdict(Static(p), b).decision = Lifted(p, b).decision
<1> DEFINE q == Static(p)
<1>1. /\ q \in Policy /\ q.granted = p.granted /\ q.class = p.class /\ q.quorum = p.quorum /\ q.overlay = {}
      /\ q.window = {} /\ q.schedule = "open" /\ q.firstUse = "off" /\ q.stepUp = FALSE /\ q.session = "quiet"
  BY StaticIs
<1>2. Combine(q, b) = Combine(p, b)
  BY <1>1 DEF Combine, Deciders
<1>3. Lifted(q, b) = Lifted(p, b)
  BY <1>1, <1>2 DEF Lifted, Voted, Quorum, JitGrant
<1>4. ~Engine(q, b).glass /\ Engine(q, b).decision = Lifted(p, b).decision /\ Engine(q, b) \in Opinion
  BY <1>1, <1>3, EngineIs, BatchIs
<1>5. AfterHours(q, b) = Engine(q, b)
  BY <1>1 DEF AfterHours, Schedule
<1>6. AfterNovelty(q, b) = Engine(q, b)
  BY <1>1, <1>5 DEF AfterNovelty, FirstUse, Novel
<1>7. AfterRisk(q, b) = Engine(q, b)
  BY <1>1, <1>6 DEF AfterRisk, StepUp
<1>8. AfterOverlay(q, b) = Engine(q, b)
  BY <1>1, <1>7 DEF AfterOverlay, Overlay
<1>9. Verdict(q, b) = Engine(q, b)
  BY <1>1, <1>8, VerdictIs DEF Session
<1> QED
  BY <1>4, <1>9

LEMMA MemoryIsForThePolicy ==
  ASSUME NEW p \in Policy, NEW b \in Batches, UsesMemory(Verdict(p, b))
  PROVE  Verdict(Static(p), b).decision = "require_approval"
<1>1. Tightened(Engine(p, b), Verdict(p, b))
  BY VerdictIs
<1>2. Engine(p, b).decision = "require_approval" /\ ~Engine(p, b).glass
  BY <1>1 DEF Tightened, UsesMemory
<1>3. Lifted(p, b).decision = "require_approval"
  BY <1>2, EngineIs
<1> QED
  BY <1>3, StaticVerdict

\* Of one action: what the engine and the report start from.
LEMMA HeadlineStartsAlike ==
  ASSUME NEW p \in Policy, NEW n \in Message, ~Engine(p, <<n>>).glass
  PROVE  LET v == Engine(p, <<n>>)
             m == Pair(n)
         IN /\ v.decision = IF Widened(p, m) THEN "allow" ELSE Decision(p.class[m])
            /\ v.granted <=> Widened(p, m)
<1> DEFINE a == <<n>>
           m == Pair(n)
           c == Combine(p, a)
<1>1. /\ a \in Batches /\ Len(a) = 1 /\ DOMAIN a = {1} /\ a[1] = n
  BY AloneIs
<1>2. p.class[m] \in Class /\ Of(p, n) \in Decisions /\ m.action = n.action /\ m.action \in Actions
  BY OfIs DEF Pair, Message
<1>3. /\ c \in Opinion
      /\ c.decision = "deny" <=> Of(p, n) = "deny"
      /\ c.decision = "allow" <=> Of(p, n) = "allow"
      /\ c.rep = <<>> \/ c.rep = <<n.action>>
      /\ c.decision # "allow" => c.rep # <<>>
  BY <1>1, CombineIs
<1>4. c.decision = Of(p, n)
  BY <1>2, <1>3 DEF Opinion, Decisions
<1>5. c.reason = p.class[m]
  <2>1. PICK d : d = CHOOSE x \in {"deny", "require_approval", "allow"} :
                       /\ Deciders(p, a, x) # {}
                       /\ x # "deny" => Deciders(p, a, "deny") = {}
                       /\ x = "allow" => Deciders(p, a, "require_approval") = {}
    OBVIOUS
  <2>2. c.decision = d /\ c.reason = p.class[Pair(a[Min(Deciders(p, a, d))])]
    BY <2>1 DEF Combine
  <2>3. Deciders(p, a, d) = {1}
    BY <1>1, <1>4, <2>2 DEF Deciders, Of
  <2>4. Min({1}) = 1
    BY SmallestNumber
  <2> QED
    BY <1>1, <2>2, <2>3, <2>4
<1>6. c.decision # "allow" => Range(c.rep) = {n.action}
  <2>1. Range(<<n.action>>) = {n.action}
    BY DEF Range
  <2> QED
    BY <1>3, <2>1
<1>7. Engine(p, a).granted = Lifted(p, a).granted /\ Engine(p, a).decision = Lifted(p, a).decision
  BY <1>1, EngineIs
<1>8. /\ Lifted(p, a).granted <=> /\ c.decision # "allow" /\ c.reason # "explicit_deny"
                                 /\ Range(c.rep) \intersect p.granted # {}
      /\ Lifted(p, a).decision = IF Lifted(p, a).granted THEN "allow" ELSE c.decision
  BY <1>1, LiftedIs
<1>9. Lifted(p, a).granted <=> Of(p, n) # "allow" /\ p.class[m] # "explicit_deny" /\ m.action \in p.granted
  BY <1>2, <1>4, <1>5, <1>6, <1>8
<1>10. Lifted(p, a).granted <=> Widened(p, m)
  BY <1>2, <1>9 DEF Of, Widened, GrantEffect, Class, Decision
<1> QED
  BY <1>4, <1>7, <1>8, <1>10 DEF Of

\* How far the report may be from the decision: the hard first-use rule on a prompt.
Near(p, m, d, e) ==
  /\ AsStrict(d, e)
  /\ d # e => d = "deny" /\ e = "require_approval" /\ p.firstUse = "deny" /\ m.action \in p.novel

LEMMA ReportIsNear ==
  ASSUME NEW p \in Policy, NEW n \in Message, ~Verdict(p, <<n>>).glass
  PROVE  LET m == Pair(n)
             d == Verdict(p, <<n>>).decision
         IN /\ d \in Decisions /\ Effective(p, m) \in Decisions
            /\ AsStrict(d, Effective(p, m))
            /\ ~Conditional(p, m) => Near(p, m, d, Effective(p, m))
<1> DEFINE a == <<n>>
           m == Pair(n)
           e0 == IF Widened(p, m) THEN "allow" ELSE Decision(p.class[m])
           e1 == ExplainSchedule(p, m, e0)
           e2 == ExplainFirstUse(p, m, e1)
           e3 == ExplainStepUp(p, m, e2)
           e4 == ExplainOverlay(p, m, e3)
<1>1. /\ a \in Batches /\ ActionsOf(a) = {m.action} /\ Members(a) = {m}
  BY AloneIs DEF Pair
<1>2. /\ Verdict(p, a) = Session(p, a, AfterOverlay(p, a))
      /\ Tightened(Engine(p, a), AfterHours(p, a)) /\ Tightened(Engine(p, a), AfterNovelty(p, a))
      /\ Tightened(Engine(p, a), AfterRisk(p, a)) /\ Tightened(Engine(p, a), AfterOverlay(p, a))
      /\ Tightened(Engine(p, a), Verdict(p, a)) /\ Engine(p, a) \in Opinion
  BY <1>1, VerdictIs, EngineIs
<1>3. ~Engine(p, a).glass
  BY <1>2 DEF Tightened
<1>4. Engine(p, a).decision = e0 /\ (Engine(p, a).granted <=> Widened(p, m))
  BY <1>3, HeadlineStartsAlike
<1>5. \A w : Tightened(Engine(p, a), w) =>
        w \in Opinion /\ ~w.glass /\ (w.granted <=> Widened(p, m)) /\ w.decision \in Decisions
  BY <1>2, <1>3, <1>4 DEF Tightened, Opinion
<1>6. /\ p.schedule \in {"open", "deny", "require_approval"} /\ p.firstUse \in {"off", "deny", "require_approval"}
      /\ p.session \in {"quiet", "deny", "require_approval"}
  BY DEF Policy
<1>7. AfterHours(p, a).decision = e1 /\ e1 \in Decisions
  <2>1. e0 \in Decisions
    BY <1>2, <1>4 DEF Opinion
  <2>2. e0 # "deny" => Clamp(Engine(p, a), p.schedule).decision = IF p.schedule = "deny" THEN "deny" ELSE "require_approval"
    BY <1>2, <1>4, ClampTightens
  <2> QED
    BY <1>3, <1>4, <1>6, <2>1, <2>2 DEF AfterHours, Schedule, ExplainSchedule, Decisions
<1>8. Near(p, m, AfterNovelty(p, a).decision, e2) /\ e2 \in Decisions
  <2>1. AfterHours(p, a) \in Opinion /\ ~AfterHours(p, a).glass /\ (AfterHours(p, a).granted <=> Widened(p, m))
    BY <1>2, <1>5
  <2>2. e1 # "deny" => Clamp(AfterHours(p, a), p.firstUse).decision = IF p.firstUse = "deny" THEN "deny" ELSE "require_approval"
    BY <1>7, <2>1, ClampTightens
  <2>3. Novel(p, a) <=> p.firstUse # "off" /\ m.action \in p.novel
    BY <1>1 DEF Novel
  <2> QED
    BY <1>6, <1>7, <2>1, <2>2, <2>3 DEF AfterNovelty, FirstUse, ExplainFirstUse, Near, AsStrict, Decisions
<1>9. Near(p, m, AfterRisk(p, a).decision, e3) /\ e3 \in Decisions
  <2>1. AfterNovelty(p, a) \in Opinion
    BY <1>2, <1>5
  <2>2. AfterNovelty(p, a).decision = "allow" => Clamp(AfterNovelty(p, a), "require_approval").decision = "require_approval"
    BY <2>1, ClampTightens
  <2> QED
    BY <1>8, <2>1, <2>2 DEF AfterRisk, StepUp, ExplainStepUp, Near, AsStrict, Decisions
<1>10. Near(p, m, AfterOverlay(p, a).decision, e4) /\ e4 \in Decisions
  <2>1. AfterRisk(p, a) \in Opinion
    BY <1>2, <1>5
  <2>2. AfterRisk(p, a).decision = "allow" => Clamp(AfterRisk(p, a), "require_approval").decision = "require_approval"
    BY <2>1, ClampTightens
  <2>3. Members(a) \intersect p.overlay # {} <=> m \in p.overlay
    BY <1>1
  <2> QED
    BY <1>9, <2>1, <2>2, <2>3 DEF AfterOverlay, Overlay, ExplainOverlay, Near, AsStrict, Decisions
<1>11. Effective(p, m) = e4
  BY DEF Effective
<1>12. AfterOverlay(p, a) \in Opinion
  BY <1>2, <1>5
<1>13. Tightened(AfterOverlay(p, a), Verdict(p, a))
  BY <1>1, <1>2, <1>12, GatesTighten
<1>14. ~Conditional(p, m) => Verdict(p, a) = AfterOverlay(p, a)
  BY <1>1, <1>2 DEF Session, Conditional
<1>15. AsStrict(Verdict(p, a).decision, e4)
  BY <1>10, <1>13 DEF Near, AsStrict, Tightened
<1>16. Verdict(p, a).decision \in Decisions
  BY <1>2, <1>5
<1> QED
  BY <1>10, <1>11, <1>14, <1>15, <1>16

-------------------------------------------------------------------------------
(* The permits: what a request was let through by has not ended long. *)

Dated(f, t) ==
  \A p \in DOMAIN f :
    /\ p \in Permits /\ f[p].actions \in SUBSET Actions
    /\ f[p].since \in Nat /\ f[p].since <= t /\ f[p].until \in Nat

\* A permit that was live at the time, as far as memory and the kill-switch tell.
LiveAt(p, t) == p \in DOMAIN mem /\ mem[p].until > t /\ (p \in DOMAIN cut => cut[p] >= t)

Prompts ==
  \A c \in DOMAIN held :
    /\ held[c].asked \in Nat /\ held[c].asked <= clock
    /\ held[c].permit # NoPermit => LiveAt(held[c].permit, held[c].asked)

PermitInv ==
  /\ clock \in Nat /\ clock <= MaxClock /\ up \in BOOLEAN
  /\ Dated(mem, clock) /\ Dated(disk, clock)
  /\ \A p \in DOMAIN cut : cut[p] \in Nat
  /\ Prompts /\ (~up => DOMAIN held = {})
  /\ EndedMeansEnded

\* A prompt of now comes from a live permit, or from none.
LEMMA NewestIsOne ==
  ASSUME NEW S, S \subseteq DOMAIN mem, S # {}, Dated(mem, clock), clock \in Nat
  PROVE  Newest(S) \in S
<1> DEFINE age(q) == clock - mem[q].since
           N == {age(q) : q \in S}
<1>1. \A q \in S : mem[q].since \in Nat /\ mem[q].since <= clock
  BY DEF Dated
<1>2. N \subseteq Nat /\ N # {}
  BY <1>1
<1>3. PICK q \in S : \A n \in N : age(q) <= n
  BY <1>2, SmallestNumber
<1>4. \A r \in S : mem[q].since >= mem[r].since
  <2> SUFFICES ASSUME NEW r \in S PROVE mem[q].since >= mem[r].since
    OBVIOUS
  <2>1. age(q) <= age(r)
    BY <1>3
  <2> QED
    BY <1>1, <2>1
<1> QED
  BY <1>4 DEF Newest

LEMMA PermitIsLive ==
  ASSUME PermitInv, policy \in Policy, NEW m \in Message
  PROVE  LET b == <<m>>
             v == Verdict(InForce(b), b)
             p == PermitOf(b, v)
         IN p = NoPermit \/ (p \in DOMAIN mem /\ mem[p].until > clock /\ p \notin DOMAIN cut)
<1> DEFINE b == <<m>>
           ip == InForce(b)
           v == Verdict(ip, b)
           p == PermitOf(b, v)
<1>1. b \in Batches
  BY AloneIs
<1>2. Dated(mem, clock) /\ clock \in Nat
  BY DEF PermitInv
<1>3. Matched(b) \subseteq DOMAIN mem
  <2>1. Covering(b) \subseteq DOMAIN mem
    BY DEF Covering, Live
  <2> QED
    BY <1>2, <2>1, NewestIsOne DEF Matched
<1>4. /\ ip = [policy EXCEPT !.granted = UNION {mem[g].actions : g \in Live(Grants)},
                              !.window = UNION {mem[w].actions : w \in Matched(b)}]
      /\ UNION {mem[g].actions : g \in Live(Grants)} \in SUBSET Actions
      /\ UNION {mem[w].actions : w \in Matched(b)} \in SUBSET Actions
  BY <1>2, <1>3 DEF InForce, Live, Dated
<1>5. /\ ip \in Policy
      /\ ip.granted = UNION {mem[g].actions : g \in Live(Grants)}
      /\ ip.window = UNION {mem[w].actions : w \in Matched(b)}
  BY <1>4 DEF Policy
<1>6. v \in Opinion
  BY <1>1, <1>5, VerdictIs DEF Tightened
<1>7. CASE v.glass
  <2>1. ActionsOf(b) \subseteq ip.window
    BY <1>1, <1>5, <1>7, GlassCovers
  <2>2. Matched(b) # {}
    BY <1>1, <1>5, <2>1, BatchIs
  <2>3. Covering(b) # {} /\ Covering(b) \subseteq Live(Windows)
    BY <2>2 DEF Matched, Covering
  <2>4. Newest(Covering(b)) \in Covering(b)
    BY <1>2, <2>3, NewestIsOne DEF Live
  <2>5. p = Newest(Covering(b))
    BY <1>7 DEF PermitOf
  <2> QED
    BY <2>3, <2>4, <2>5 DEF Live
<1>8. CASE v.granted /\ ~v.glass
  <2>1. v.rep = Lifted(ip, b).rep /\ v.granted = Lifted(ip, b).granted
    BY <1>1, <1>5, VerdictIs, EngineIs DEF Tightened
  <2>2. Range(v.rep) \intersect ip.granted # {}
    BY <1>1, <1>5, <1>8, <2>1, LiftedIs
  <2> DEFINE S == {g \in Live(Grants) : Range(v.rep) \intersect mem[g].actions # {}}
  <2>3. S # {} /\ S \subseteq Live(Grants)
    BY <1>5, <2>2
  <2>4. Newest(S) \in S
    BY <1>2, <2>3, NewestIsOne DEF Live
  <2>5. p = Newest(S)
    BY <1>8 DEF PermitOf
  <2> QED
    BY <2>3, <2>4, <2>5 DEF Live
<1>9. CASE ~v.glass /\ ~v.granted
  BY <1>9 DEF PermitOf
<1> QED
  BY <1>6, <1>7, <1>8, <1>9 DEF Opinion

\* A permit that was live then had not ended by then.
LEMMA EndsLater ==
  ASSUME PermitInv, NEW p, NEW asked \in Nat, p # NoPermit => LiveAt(p, asked), asked <= clock
  PROVE  EndOf(p) \in Nat /\ EndOf(p) >= asked
<1>1. /\ clock \in Nat /\ clock <= MaxClock /\ Dated(mem, clock) /\ \A q \in DOMAIN cut : cut[q] \in Nat
      /\ MaxClock \in Nat /\ Ttl \in Nat
  BY TimedAssumption DEF PermitInv
<1>2. CASE p = NoPermit
  BY <1>1, <1>2 DEF EndOf, Never
<1>3. CASE p # NoPermit /\ p \notin DOMAIN cut
  BY <1>1, <1>3 DEF EndOf, LiveAt, Dated
<1>4. CASE p # NoPermit /\ p \in DOMAIN cut
  <2>1. /\ cut[p] \in Nat /\ mem[p].until \in Nat /\ cut[p] >= asked /\ mem[p].until >= asked
    BY <1>1, <1>4 DEF LiveAt, Dated
  <2>2. Min({cut[p], mem[p].until}) \in {cut[p], mem[p].until}
    BY <2>1, SmallestNumber
  <2>3. EndOf(p) = Min({cut[p], mem[p].until})
    BY <1>4 DEF EndOf
  <2> QED
    BY <2>1, <2>2, <2>3
<1> QED
  BY <1>2, <1>3, <1>4

LEMMA PerformedInTime ==
  ASSUME PermitInv, NEW c, NEW p, Performed(c, p), clock < EndOf(p) + ApprovalTtl
  PROVE  EndedMeansEnded'
BY DEF PermitInv, EndedMeansEnded, Performed

LEMMA OpeningKeeps ==
  ASSUME PermitInv, NEW S \in {Grants, Windows}, NEW p, NEW actions \in Scopes, NEW written,
         Opened(S, p, actions, written)
  PROVE  PermitInv'
<1>1. /\ up /\ p \in S \ (DOMAIN mem \union DOMAIN disk \union DOMAIN cut)
      /\ mem' = With(mem, p, Minted(actions))
      /\ disk' = IF written THEN Saved(mem', S) ELSE disk
      /\ UNCHANGED <<clock, up, cut, held, used>>
  BY DEF Opened
<1>2. /\ clock \in Nat /\ clock <= MaxClock /\ up \in BOOLEAN /\ Dated(mem, clock) /\ Dated(disk, clock)
      /\ \A q \in DOMAIN cut : cut[q] \in Nat
  BY DEF PermitInv
<1>3. /\ DOMAIN mem' = DOMAIN mem \union {p} /\ mem'[p] = Minted(actions)
      /\ \A q \in DOMAIN mem : mem'[q] = mem[q]
  BY <1>1 DEF With
<1>4. /\ p \in Permits /\ Minted(actions).actions \in SUBSET Actions
      /\ Minted(actions).since = clock /\ Minted(actions).until \in Nat
  BY <1>1, <1>2, TimedAssumption DEF Minted, Permits
<1>5. Dated(mem', clock')
  BY <1>1, <1>2, <1>3, <1>4 DEF Dated
<1>6. Dated(disk', clock')
  <2>1. CASE written
    <3>1. disk' = Saved(mem', S)
      BY <1>1, <2>1
    <3> QED
      BY <1>1, <1>2, <1>5, <3>1 DEF Saved, Dated
  <2>2. CASE ~written
    BY <1>1, <1>2, <2>2
  <2> QED
    BY <2>1, <2>2
<1>7. Prompts'
  BY <1>1, <1>3 DEF PermitInv, Prompts, LiveAt
<1> QED
  BY <1>1, <1>2, <1>5, <1>6, <1>7 DEF PermitInv, EndedMeansEnded

LEMMA TimedKeeps ==
  ASSUME PermitInv, policy \in Policy, UNCHANGED vars, [TimedNext]_timedVars
  PROVE  PermitInv'
<1> USE TimedAssumption
<1>1. CASE UNCHANGED timedVars
  BY <1>1 DEF PermitInv, timedVars, Dated, Prompts, LiveAt, EndedMeansEnded
<1>2. CASE Tick
  <2>1. Prompts'
    BY <1>2 DEF PermitInv, Prompts, LiveAt, Tick, Kept
  <2>2. DOMAIN held' \subseteq DOMAIN held
    BY <1>2 DEF Tick, Kept
  <2>3. Dated(mem', clock') /\ Dated(disk', clock')
    BY <1>2 DEF PermitInv, Dated, Tick
  <2>4. clock' \in Nat /\ clock' <= MaxClock /\ up' = up /\ used' = used /\ cut' = cut
    BY <1>2 DEF PermitInv, Tick
  <2>5. ~up' => DOMAIN held' = {}
    BY <2>2, <2>4 DEF PermitInv
  <2> QED
    BY <2>1, <2>3, <2>4, <2>5 DEF PermitInv, EndedMeansEnded
<1>3. CASE Stop
  <2>1. DOMAIN mem' = {} /\ DOMAIN held' = {}
    BY <1>3 DEF Stop
  <2>2. Dated(mem', clock') /\ Dated(disk', clock')
    BY <1>3, <2>1 DEF PermitInv, Dated, Stop
  <2>3. Prompts'
    BY <2>1 DEF Prompts
  <2> QED
    BY <1>3, <2>1, <2>2, <2>3 DEF PermitInv, EndedMeansEnded, Stop
<1>4. CASE Start
  <2>1. DOMAIN held = {} /\ held' = held
    BY <1>4 DEF Start, PermitInv
  <2>2. Dated(mem', clock') /\ Dated(disk', clock')
    BY <1>4 DEF Start, Purged, PermitInv, Dated, Kept
  <2> QED
    BY <1>4, <2>1, <2>2 DEF PermitInv, Prompts, EndedMeansEnded, Start
<1>5. ASSUME NEW p \in Permits, Cut(p) PROVE PermitInv'
  <2>1. /\ DOMAIN cut' = DOMAIN cut \union {p} /\ cut'[p] = clock
        /\ \A q \in DOMAIN cut : q # p => cut'[q] = cut[q]
    BY <1>5 DEF Cut, With
  <2>2. Prompts'
    BY <1>5, <2>1 DEF PermitInv, Prompts, LiveAt, Cut
  <2> QED
    BY <1>5, <2>1, <2>2 DEF PermitInv, Dated, EndedMeansEnded, Cut
<1>6. ASSUME NEW p \in Permits, Restore(p) PROVE PermitInv'
  <2>1. DOMAIN cut' \subseteq DOMAIN cut /\ \A q \in DOMAIN cut' : cut'[q] = cut[q]
    BY <1>6 DEF Restore, Kept
  <2>2. Prompts'
    BY <1>6, <2>1 DEF PermitInv, Prompts, LiveAt, Restore
  <2> QED
    BY <1>6, <2>1, <2>2 DEF PermitInv, Dated, EndedMeansEnded, Restore
<1>7. ASSUME NEW p \in Permits, NEW S \in Scopes, NEW written \in BOOLEAN,
             OpenGrant(p, S, written) \/ OpenWindow(p, S, written)
      PROVE PermitInv'
  BY <1>7, OpeningKeeps DEF OpenGrant, OpenWindow
<1>8. ASSUME NEW c \in Calls, Tap(c) PROVE PermitInv'
  <2>1. /\ c \in DOMAIN held /\ clock < held[c].asked + ApprovalTtl /\ Performed(c, held[c].permit)
        /\ held' = Kept(held, Calls \ {c}) /\ UNCHANGED <<clock, up, mem, disk, cut>>
    BY <1>8 DEF Tap
  <2>2. /\ held[c].asked \in Nat /\ held[c].asked <= clock
        /\ held[c].permit # NoPermit => LiveAt(held[c].permit, held[c].asked)
    BY <2>1 DEF PermitInv, Prompts
  <2>3. EndOf(held[c].permit) \in Nat /\ EndOf(held[c].permit) >= held[c].asked
    BY <2>2, EndsLater
  <2>4. clock < EndOf(held[c].permit) + ApprovalTtl
    BY <2>1, <2>2, <2>3 DEF PermitInv
  <2>5. EndedMeansEnded'
    BY <2>1, <2>4, PerformedInTime
  <2>6. DOMAIN held' \subseteq DOMAIN held /\ \A d \in DOMAIN held' : held'[d] = held[d]
    BY <2>1 DEF Kept
  <2>7. Prompts'
    BY <2>1, <2>6 DEF PermitInv, Prompts, LiveAt
  <2> QED
    BY <2>1, <2>5, <2>6, <2>7 DEF PermitInv, Dated
<1>9. ASSUME NEW c \in Calls, NEW m \in Message, Ask(c, <<m>>) PROVE PermitInv'
  <2> DEFINE b == <<m>>
             v == Verdict(InForce(b), b)
             p == PermitOf(b, v)
  <2>1. /\ up /\ UNCHANGED <<clock, up, mem, disk, cut>>
        /\ \/ v.decision = "allow" /\ Performed(c, p) /\ held' = held
           \/ held' = With(held, c, [permit |-> p, asked |-> clock]) /\ used' = used
    BY <1>9 DEF Ask
  <2>2. p # NoPermit => p \in DOMAIN mem /\ mem[p].until > clock /\ p \notin DOMAIN cut
    BY PermitIsLive
  <2>3. p # NoPermit => LiveAt(p, clock)
    BY <2>2 DEF LiveAt
  <2>4. clock \in Nat /\ clock <= MaxClock
    BY DEF PermitInv
  <2>5. CASE Performed(c, p) /\ held' = held
    <3>1. EndOf(p) \in Nat /\ clock < EndOf(p)
      BY <2>2, <2>4 DEF EndOf, Never, PermitInv, Dated
    <3>2. clock < EndOf(p) + ApprovalTtl
      BY <2>4, <3>1
    <3>3. EndedMeansEnded'
      BY <2>5, <3>2, PerformedInTime
    <3> QED
      BY <2>1, <2>5, <3>3 DEF PermitInv, Prompts, LiveAt, Dated
  <2>6. CASE held' = With(held, c, [permit |-> p, asked |-> clock]) /\ used' = used
    <3>1. /\ DOMAIN held' = DOMAIN held \union {c} /\ held'[c] = [permit |-> p, asked |-> clock]
          /\ \A d \in DOMAIN held : d # c => held'[d] = held[d]
      BY <2>6 DEF With
    <3>2. Prompts'
      BY <2>1, <2>3, <2>4, <3>1 DEF PermitInv, Prompts, LiveAt
    <3> QED
      BY <2>1, <2>6, <3>2 DEF PermitInv, Dated, EndedMeansEnded
  <2> QED
    BY <2>1, <2>5, <2>6
<1> QED
  BY <1>1, <1>2, <1>3, <1>4, <1>5, <1>6, <1>7, <1>8, <1>9 DEF TimedNext

-------------------------------------------------------------------------------
(* The theorems. *)

\* A course is over the policy it began with.
BatchInv == policy \in Policy /\ request \in Batches \union {<<>>} /\ PermitInv

LEMMA BatchInvInit == MCInit => BatchInv
<1> SUFFICES ASSUME MCInit PROVE BatchInv
  OBVIOUS
<1>1. TimedInit /\ request = <<>>
  BY DEF MCInit, Init
<1>2. PermitInv
  <2>1. DOMAIN mem = {} /\ DOMAIN disk = {} /\ DOMAIN cut = {} /\ DOMAIN held = {}
    BY <1>1 DEF TimedInit
  <2> QED
    BY <1>1, <2>1, TimedAssumption DEF TimedInit, PermitInv, Dated, Prompts, EndedMeansEnded
<1>3. policy \in Policy
  <2>1. TimedPolicies \subseteq Policy
    <3> SUFFICES ASSUME NEW x \in {"no_matching_allow", "approval_required"}
                 PROVE  [Base([q \in Pairs |-> x]) EXCEPT !.overlay = MergeToMain] \in Policy
      BY DEF TimedPolicies
    <3>1. [q \in Pairs |-> x] \in [Pairs -> Class] /\ [a \in Actions |-> 1] \in [Actions -> 1..2]
      BY DEF Class
    <3>2. MergeToMain \subseteq Pairs
      BY RepositoryAssumption DEF MergeToMain, Pairs
    <3>3. Base([q \in Pairs |-> x]) \in Policy
      BY <3>1, RepositoryAssumption DEF Base, Policy
    <3> QED
      BY <3>2, <3>3 DEF Policy
  <2> QED
    BY <2>1, BatchAssumption DEF MCInit, Init
<1> QED
  BY <1>1, <1>2, <1>3 DEF BatchInv

LEMMA BatchInvNext == BatchInv /\ [MCNext]_all => BatchInv'
<1> SUFFICES ASSUME BatchInv, [MCNext]_all PROVE BatchInv'
  OBVIOUS
<1>1. CASE Next /\ UNCHANGED timedVars
  <2>1. policy' = policy /\ request' \in Batches \union {<<>>}
    BY <1>1 DEF Next, Approve, Send, BatchInv
  <2>2. PermitInv'
    BY <1>1 DEF BatchInv, PermitInv, timedVars, Dated, Prompts, LiveAt, EndedMeansEnded
  <2> QED
    BY <2>1, <2>2 DEF BatchInv
<1>2. CASE TimedNext /\ UNCHANGED vars
  BY <1>2, TimedKeeps DEF BatchInv, vars
<1>3. CASE UNCHANGED all
  BY <1>3, TimedKeeps DEF BatchInv, all, vars
<1> QED
  BY <1>1, <1>2, <1>3 DEF MCNext

LEMMA BatchInvHolds == MCSpec => []BatchInv
<1>1. MCInit => BatchInv
  BY BatchInvInit
<1>2. BatchInv /\ [MCNext]_all => BatchInv'
  BY BatchInvNext
<1> QED
  BY <1>1, <1>2, PTL DEF MCSpec

\* Of any batch, under any policy, dispatch() decides at least as strictly as of each of its
\* members alone, and asks for at least as many votes: combine() and the gates launder nothing.
THEOREM BatchesLaunderNothing == MCSpec => []NoLaundering
<1>1. BatchInv => NoLaundering
  <2> SUFFICES ASSUME BatchInv, Sent, ~Decided.granted, ~Decided.glass, NEW i \in DOMAIN request,
                      ~Verdict([policy EXCEPT !.granted = {}], <<request[i]>>).glass
               PROVE  LET alone == Verdict([policy EXCEPT !.granted = {}], <<request[i]>>)
                      IN /\ Severity(Decided.decision) >= Severity(alone.decision)
                         /\ Decided.quorum >= alone.quorum
    BY DEF NoLaundering
  <2> DEFINE alone == Verdict(Ungranted(policy), <<request[i]>>)
  <2>1. policy \in Policy /\ request \in Batches
    BY DEF BatchInv, Sent
  <2>2. AsStrict(Decided.decision, alone.decision) /\ Decided.quorum >= alone.quorum
    BY <2>1, VerdictKeepsOrder DEF Decided, Ungranted
  <2>3. Decided.decision \in Decisions
    BY <2>1, VerdictIs DEF Decided, Tightened, Opinion
  <2>4. alone.decision \in Decisions
    BY <2>1, UngrantedIs, BatchIs, AloneIs, VerdictIs DEF Tightened, Opinion
  <2>5. Severity(Decided.decision) >= Severity(alone.decision)
    BY <2>2, <2>3, <2>4 DEF AsStrict, Severity, Decisions
  <2> QED
    BY <2>2, <2>5 DEF Ungranted
<1> QED
  BY <1>1, BatchInvHolds, PTL

\* For any policy and any action, buildExplain()'s headline is what dispatch() decides, but for
\* the hard first-use rule on a prompt and the session's rules, where dispatch() is stricter.
THEOREM TheReportFollows == MCSpec => []ExplainFollowsDispatch
<1>1. BatchInv => ExplainFollowsDispatch
  <2> SUFFICES ASSUME BatchInv, Explained, ~Decided.glass
               PROVE  LET m == Pair(request[1])
                          headline == Effective(policy, m)
                      IN /\ Severity(Decided.decision) >= Severity(headline)
                         /\ Decided.decision # headline =>
                              \/ Conditional(policy, m)
                              \/ Decided.decision = "deny" /\ headline = "require_approval"
                                 /\ policy.firstUse = "deny" /\ m.action \in policy.novel
    BY DEF ExplainFollowsDispatch
  <2> DEFINE m == Pair(request[1])
             headline == Effective(policy, m)
  <2>1. policy \in Policy /\ request \in Batches /\ Len(request) = 1
    BY DEF BatchInv, Explained
  <2>2. request[1] \in Message /\ request = <<request[1]>>
    <3>1. PICK n \in 1..MaxBatch : request \in [1..n -> Message]
      BY <2>1 DEF Batches
    <3>2. n = 1
      BY <2>1, <3>1, BatchAssumption
    <3> QED
      BY <3>1, <3>2
  <2>3. /\ Decided.decision \in Decisions /\ headline \in Decisions /\ AsStrict(Decided.decision, headline)
        /\ ~Conditional(policy, m) => Near(policy, m, Decided.decision, headline)
    BY <2>1, <2>2, ReportIsNear DEF Decided
  <2>4. Severity(Decided.decision) >= Severity(headline)
    BY <2>3 DEF AsStrict, Severity, Decisions
  <2> QED
    BY <2>3, <2>4 DEF Near
<1> QED
  BY <1>1, BatchInvHolds, PTL

\* Whatever permits are opened, end and are revoked: the glass serves its own actions and a
\* human answers, nothing is performed long after its permit, the memory answers for the policy.
THEOREM PermitsStayScoped == MCSpec => []PermitsAreScoped
<1>1. BatchInv => PermitsAreScoped
  <2> SUFFICES ASSUME BatchInv PROVE PermitsAreScoped
    OBVIOUS
  <2>1. GlassIsScoped
    BY GlassCovers DEF BatchInv, GlassIsScoped, Sent, Decided
  <2>2. EndedMeansEnded
    BY DEF BatchInv, PermitInv
  <2>3. MemoryIsStatic
    BY MemoryIsForThePolicy DEF BatchInv, MemoryIsStatic, Sent, Decided
  <2> QED
    BY <2>1, <2>2, <2>3 DEF PermitsAreScoped
<1> QED
  BY <1>1, BatchInvHolds, PTL
=============================================================================
