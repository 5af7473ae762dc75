----------------------------- MODULE SessionPolicyProofs -----------------------------
(* What a session remembers of itself, for any sessions, chains of delegation, rulebooks, *)
(* requests of any length and any cap of the stores; and the hook of the shell guard, for *)
(* any timeouts below the runtime's own; and the programs its adapter names, for command  *)
(* lines of any length and any wrappers, with what a value not known yet may lead to.     *)
(*                                                                                        *)
(* FactsInv says that the stores hold what has been answered: every fact an answer gave,  *)
(* while no more were given than a store keeps, and no pin that no answer gave.           *)
(* ChainIsRun says, by induction on the wrappers followed, that the adapter reads a chain *)
(* of them as the shell runs it, although it does not know what the variables hold.       *)
(* KnownIsAllowed follows one command of an allowed list through every gate of the exec   *)
(* route a second time, alone and with its value known.                                   *)
(*                                                                                        *)
(* And what the tools make of a policy, for any adapters, texts of any length, logs and   *)
(* evidence. EveryAdviceIsSound says what an operator who follows the linter, the diff or *)
(* the blast radius relies on. DecayStaysSafe rests on PolicyInv: texts are written ones, *)
(* the log and the evidence are finite and dated, and an action performed is in the log   *)
(* unless all of the log is younger (Seen). DecayOfOne says of one action what becomes of *)
(* it in a decay, and it does not need the check the command makes before it writes.      *)
EXTENDS MCSession, PolicyAuthoring, FiniteSetTheorems, SequenceTheorems, WellFoundedInduction, TLAPS

Effects == {"deny", "require_approval", "quiet"}
AllUnits == UNION {{b[i].unit : i \in DOMAIN b} : b \in Batches}
FlowFact == [action : Verbs, ts : Nat]
PinFact == [rule : Nat, unit : AllUnits, ts : Nat]
Exchange == [session : Sessions, batch : Batches, ts : Nat, at : {"reading", "denied", "held", "forwarded"},
            rules : Rulebooks, flow : Effects, pin : Effects, tainted : BOOLEAN, pivots : BOOLEAN, reloaded : BOOLEAN]
Heard == [session : Sessions, batch : Batches, ts : Nat, rules : Rulebooks]

FactsTyped ==
  /\ now \in Nat /\ rules \in Rulebooks
  /\ flowFacts \in [Sessions -> Seq(FlowFact)] /\ pinFacts \in [Sessions -> Seq(PinFact)]
  /\ flight \in Seq(Exchange) /\ answered \subseteq Heard
  /\ given \in [Sessions -> [sources : Nat, units : Nat]]

\* A store that has not been given more than it keeps has dropped nothing.
Counted ==
  \A s \in Sessions :
    /\ given[s].sources <= MaxPerKey => Len(flowFacts[s]) = given[s].sources
    /\ given[s].units <= MaxPerKey => Len(pinFacts[s]) = given[s].units

\* What an answer leaves in the stores of its session.
SourceFact(a, m) == [action |-> a.batch[m].action, ts |-> a.ts]
UnitFact(a, m, r) == [rule |-> r, unit |-> a.batch[m].unit, ts |-> a.ts]

SourcesKept ==
  \A a \in answered : given[a.session].sources <= MaxPerKey =>
    \A m \in DOMAIN a.batch : IsSource(a.rules, a.batch[m].action) => SourceFact(a, m) \in Range(flowFacts[a.session])

UnitsKept ==
  \A a \in answered : given[a.session].units <= MaxPerKey =>
    \A m \in DOMAIN a.batch : \A r \in PinUnits(a.rules, a.batch[m]) : UnitFact(a, m, r) \in Range(pinFacts[a.session])

UnitsEarned ==
  \A s \in Sessions : \A f \in Range(pinFacts[s]) :
    \E a \in answered : a.session = s /\ \E m \in DOMAIN a.batch : \E r \in PinUnits(a.rules, a.batch[m]) : f = UnitFact(a, m, r)

\* What is promised, of one request.
Gated(q) ==
  /\ q.tainted => q.flow # "quiet"
  /\ q.pivots /\ ~q.reloaded /\ q.flow # "deny" => q.pin # "quiet"

AllGated == \A r \in DOMAIN flight : Gated(flight[r])

FactsInv == FactsTyped /\ Counted /\ SourcesKept /\ UnitsKept /\ UnitsEarned /\ AllGated

LEMMA FactsInvInit == FactsInit => FactsInv
<1> SUFFICES ASSUME FactsInit PROVE FactsInv
  OBVIOUS
<1>1. FactsTyped
  BY DEF FactsInit, FactsTyped
<1>2. Counted
  BY DEF FactsInit, Counted
<1>3. SourcesKept /\ UnitsKept /\ AllGated
  BY DEF FactsInit, SourcesKept, UnitsKept, AllGated
<1>4. UnitsEarned
  BY DEF FactsInit, UnitsEarned, Range
<1> QED
  BY <1>1, <1>2, <1>3, <1>4 DEF FactsInv

-------------------------------------------------------------------------------
(* Sequences and stores. *)

LEMMA RemoveAtKeeps ==
  ASSUME NEW S, NEW s \in Seq(S), NEW i \in DOMAIN s
  PROVE  /\ RemoveAt(s, i) \in Seq(S)
         /\ \A k \in DOMAIN RemoveAt(s, i) : \E j \in DOMAIN s : RemoveAt(s, i)[k] = s[j]
<1> DEFINE head == SubSeq(s, 1, i - 1)
           tail == SubSeq(s, i + 1, Len(s))
<1>1. /\ head \in Seq(S) /\ Len(head) = i - 1 /\ \A k \in 1..(i - 1) : head[k] = s[k]
      /\ tail \in Seq(S) /\ Len(tail) = Len(s) - i /\ \A k \in 1..(Len(s) - i) : tail[k] = s[i + k]
      /\ i \in 1..Len(s) /\ Len(s) \in Nat /\ DOMAIN s = 1..Len(s)
  OBVIOUS
<1> HIDE DEF head, tail
<1>5. head \in Seq(S) /\ tail \in Seq(S)
  BY <1>1
<1>6. head \o tail \in Seq(S) /\ Len(head \o tail) = Len(head) + Len(tail)
  BY <1>5
<1>2. head \o tail \in Seq(S) /\ Len(head \o tail) = (i - 1) + (Len(s) - i)
  BY <1>1, <1>6
<1>3. ASSUME NEW k \in DOMAIN (head \o tail) PROVE \E j \in DOMAIN s : (head \o tail)[k] = s[j]
  <2>1. k \in Nat /\ 1 <= k /\ k <= Len(s) - 1 /\ i \in Nat
    BY <1>1, <1>2, <1>3
  <2>2. CASE k <= i - 1
    <3>1. (head \o tail)[k] = head[k] /\ k \in 1..(i - 1)
      BY <1>1, <1>5, <2>1, <2>2
    <3>2. k \in DOMAIN s /\ head[k] = s[k]
      BY <1>1, <2>1, <2>2
    <3> QED
      BY <3>1, <3>2
  <2>3. CASE i <= k
    <3>1. (head \o tail)[k] = tail[k - (i - 1)] /\ k - (i - 1) \in 1..(Len(s) - i)
      BY <1>1, <1>5, <2>1, <2>3
    <3>2. tail[k - (i - 1)] = s[i + (k - (i - 1))]
      BY <1>1, <3>1
    <3>3. i + (k - (i - 1)) \in DOMAIN s
      BY <1>1, <2>1, <2>3
    <3> QED
      BY <3>1, <3>2, <3>3
  <2> QED
    BY <2>1, <2>2, <2>3
<1>4. RemoveAt(s, i) = head \o tail
  BY DEF RemoveAt, head, tail
<1> QED
  BY <1>2, <1>3, <1>4

LEMMA RecordKeeps ==
  ASSUME NEW S, NEW facts \in Seq(S), NEW more \in Seq(S), MaxPerKey \in Nat
  PROVE  /\ Record(facts, more) \in Seq(S)
         /\ \A x \in Range(Record(facts, more)) : x \in Range(facts) \/ x \in Range(more)
         /\ Len(facts) + Len(more) <= MaxPerKey =>
              /\ Len(Record(facts, more)) = Len(facts) + Len(more)
              /\ Range(facts) \subseteq Range(Record(facts, more))
              /\ Range(more) \subseteq Range(Record(facts, more))
<1> DEFINE all == facts \o more
           drop == Len(all) - MaxPerKey
           last == SubSeq(all, drop + 1, Len(all))
<1>1. /\ all \in Seq(S) /\ Len(all) = Len(facts) + Len(more)
      /\ Len(facts) \in Nat /\ Len(more) \in Nat /\ DOMAIN facts = 1..Len(facts) /\ DOMAIN more = 1..Len(more)
      /\ DOMAIN all = 1..Len(all)
      /\ \A k \in 1..Len(facts) : all[k] = facts[k]
      /\ \A k \in 1..Len(more) : all[Len(facts) + k] = more[k]
      /\ \A k \in 1..Len(all) : all[k] = IF k <= Len(facts) THEN facts[k] ELSE more[k - Len(facts)]
  OBVIOUS
<1> HIDE DEF all
<1>2. Record(facts, more) = IF Len(all) > MaxPerKey THEN last ELSE all
  BY DEF Record, all
<1>3. Range(facts) \subseteq Range(all)
  <2> SUFFICES ASSUME NEW k \in DOMAIN facts PROVE facts[k] \in Range(all)
    BY DEF Range
  <2>1. k \in DOMAIN all /\ all[k] = facts[k]
    BY <1>1
  <2> QED
    BY <2>1 DEF Range
<1>4. Range(more) \subseteq Range(all)
  <2> SUFFICES ASSUME NEW k \in DOMAIN more PROVE more[k] \in Range(all)
    BY DEF Range
  <2>1. Len(facts) + k \in DOMAIN all /\ all[Len(facts) + k] = more[k]
    BY <1>1
  <2> QED
    BY <2>1 DEF Range
<1>5. ASSUME NEW k \in DOMAIN all PROVE all[k] \in Range(facts) \/ all[k] \in Range(more)
  <2>1. CASE k <= Len(facts)
    <3>1. k \in DOMAIN facts /\ all[k] = facts[k]
      BY <1>1, <2>1
    <3> QED
      BY <3>1 DEF Range
  <2>2. CASE ~(k <= Len(facts))
    <3>1. k - Len(facts) \in DOMAIN more /\ all[k] = more[k - Len(facts)]
      BY <1>1, <2>2
    <3> QED
      BY <3>1 DEF Range
  <2> QED
    BY <2>1, <2>2
<1>6. CASE Len(all) > MaxPerKey
  <2>1. last \in Seq(S) /\ DOMAIN last = 1..MaxPerKey /\ \A k \in 1..MaxPerKey : last[k] = all[drop + k]
    <3>1. drop \in Nat /\ Len(all) \in Nat /\ Len(all) - drop = MaxPerKey
      BY <1>1, <1>6
    <3>2. \A k \in 1..MaxPerKey : drop + k \in 1..Len(all) /\ all[drop + k] \in S
      BY <1>1, <3>1
    <3>3. last = [k \in 1..MaxPerKey |-> all[drop + k]]
      <4> HIDE DEF all, drop
      <4> QED
        BY <3>1
    <3> HIDE DEF all, drop, last
    <3>4. last \in [1..MaxPerKey -> S]
      BY <3>2, <3>3
    <3> QED
      BY <3>3, <3>4
  <2> HIDE DEF last
  <2>2. ASSUME NEW k \in DOMAIN last PROVE last[k] \in Range(facts) \/ last[k] \in Range(more)
    <3>1. drop + k \in DOMAIN all /\ last[k] = all[drop + k]
      BY <1>1, <1>6, <2>1
    <3> QED
      BY <1>5, <3>1
  <2>3. Record(facts, more) = last
    BY <1>2, <1>6
  <2>4. \A x \in Range(last) : x \in Range(facts) \/ x \in Range(more)
    BY <2>2 DEF Range
  <2> QED
    BY <1>1, <1>6, <2>1, <2>3, <2>4
<1>7. CASE ~(Len(all) > MaxPerKey)
  <2>1. Record(facts, more) = all
    BY <1>2, <1>7
  <2>2. \A x \in Range(all) : x \in Range(facts) \/ x \in Range(more)
    BY <1>5 DEF Range
  <2> QED
    BY <1>1, <1>3, <1>4, <2>1, <2>2
<1> QED
  BY <1>6, <1>7

-------------------------------------------------------------------------------
(* Requests, rules and what the gates conclude. *)

LEMMA BatchIs ==
  ASSUME NEW b \in Batches
  PROVE  /\ Len(b) \in Nat /\ DOMAIN b = 1..Len(b)
         /\ \A i \in DOMAIN b : b[i].action \in Verbs /\ b[i].unit \in AllUnits
<1>1. b \in Seq(Range(b))
  BY SessionsAssumption
<1>2. \A i \in DOMAIN b : b[i].action \in Verbs /\ b[i].unit \in AllUnits
  BY DEF Verbs, AllUnits
<1> QED
  BY <1>1, <1>2

LEMMA RulesAre ==
  ASSUME NEW book \in Rulebooks
  PROVE  /\ \A f \in Range(book.flows) : f \in FlowRule
         /\ Len(book.pins) \in Nat /\ DOMAIN book.pins = 1..Len(book.pins)
<1>1. book.flows \in Seq(FlowRule) /\ book.pins \in Seq(PinRule)
  BY RulebooksAssumption
<1> QED
  BY <1>1 DEF Range

LEMMA Speaks ==
  ASSUME NEW S
  PROVE  Strongest(S) \in Effects /\ (S # {} => Strongest(S) # "quiet")
BY DEF Strongest, Effects

\* The flow gate speaks of every sink whose source the session has been answered.
LEMMA SinksAreSeen ==
  ASSUME FactsInv, NEW q \in Exchange, Tainted(q.session, q.batch, q.ts), given[q.session].sources <= MaxPerKey
  PROVE  FlowEffect(rules, Range(flowFacts[q.session]), q.batch, q.ts) # "quiet"
<1> DEFINE facts == Range(flowFacts[q.session])
           earlier(i) == {[action |-> q.batch[j].action, ts |-> q.ts] : j \in {k \in 1..(i - 1) : IsSource(rules, q.batch[k].action)}}
           seen(i) == facts \union earlier(i)
           hits(i) == FlowHits(rules, seen(i), q.batch[i].action, q.ts)
<1>1. PICK f \in Range(rules.flows), i \in DOMAIN q.batch :
        /\ q.batch[i].action \in f.then
        /\ \/ \E a \in Answers({q.session}) : \E m \in DOMAIN a.batch :
                /\ a.batch[m].action \in f.when /\ IsSource(a.rules, a.batch[m].action)
                /\ a.ts + f.within >= q.ts
           \/ \E j \in 1..(i - 1) : q.batch[j].action \in f.when
  BY DEF Tainted
<1>2. \E fact \in seen(i) : fact.action \in f.when /\ fact.ts + f.within >= q.ts
  <2>1. ASSUME NEW a \in Answers({q.session}), NEW m \in DOMAIN a.batch,
               a.batch[m].action \in f.when, IsSource(a.rules, a.batch[m].action), a.ts + f.within >= q.ts
        PROVE  \E fact \in seen(i) : fact.action \in f.when /\ fact.ts + f.within >= q.ts
    <3>1. SourceFact(a, m) \in facts
      BY <2>1 DEF FactsInv, SourcesKept, Answers
    <3>2. SourceFact(a, m).action = a.batch[m].action /\ SourceFact(a, m).ts = a.ts
      BY DEF SourceFact
    <3> QED
      BY <2>1, <3>1, <3>2
  <2>2. ASSUME NEW j \in 1..(i - 1), q.batch[j].action \in f.when
        PROVE  \E fact \in seen(i) : fact.action \in f.when /\ fact.ts + f.within >= q.ts
    <3> DEFINE fact == [action |-> q.batch[j].action, ts |-> q.ts]
    <3>1. fact \in earlier(i)
      BY <2>2 DEF IsSource
    <3>2. f.within \in Nat /\ q.ts \in Nat
      BY RulesAre DEF FactsInv, FactsTyped, FlowRule, Exchange
    <3>3. fact.action \in f.when /\ fact.ts + f.within >= q.ts
      BY <2>2, <3>2
    <3> QED
      BY <3>1, <3>3
  <2> QED
    BY <1>1, <2>1, <2>2
<1>3. f \in hits(i)
  BY <1>1, <1>2 DEF FlowHits
<1>4. f.effect \in {g.effect : g \in UNION {hits(n) : n \in DOMAIN q.batch}}
  BY <1>3
<1>5. FlowEffect(rules, facts, q.batch, q.ts) = Strongest({g.effect : g \in UNION {hits(n) : n \in DOMAIN q.batch}})
  BY DEF FlowEffect
<1> QED
  BY <1>4, <1>5, Speaks

\* The pin gate speaks of every member that leaves the units of its chain, under rules
\* that have been the same for all of them.
LEMMA PivotsAreSeen ==
  ASSUME FactsInv, NEW q \in Exchange, Pivots(q.session, q.batch, q.ts),
         \A k \in Above[q.session] \union {q.session} : given[k].units <= MaxPerKey,
         \A a \in answered : a.rules.pins = rules.pins
  PROVE  PinEffect(rules, UNION {Range(pinFacts[k]) : k \in PinScope(q.session)}, q.batch, q.ts) # "quiet"
<1> DEFINE facts == UNION {Range(pinFacts[k]) : k \in PinScope(q.session)}
           earlier(i) == UNION {{[rule |-> r, unit |-> q.batch[j].unit, ts |-> q.ts] : r \in PinUnits(rules, q.batch[j])} : j \in 1..(i - 1)}
           seen(i) == facts \union earlier(i)
           hits(i) == PinHits(rules, seen(i), q.batch[i], q.ts)
           units(b, rule) == {b[k].unit : k \in {n \in DOMAIN b : b[n].action \in rule.on}} \ {NoUnit}
           lately(rule) == {a \in Answers(Above[q.session] \union {q.session}) : a.ts + rule.within >= q.ts}
           touched(rule, i) == (UNION {units(a.batch, rule) : a \in lately(rule)}) \union units(SubSeq(q.batch, 1, i - 1), rule)
<1>1. PICK r \in DOMAIN rules.pins, i \in DOMAIN q.batch :
        /\ q.batch[i].action \in rules.pins[r].on /\ q.batch[i].unit # NoUnit
        /\ touched(rules.pins[r], i) # {} /\ q.batch[i].unit \notin touched(rules.pins[r], i)
  BY DEF Pivots
<1> DEFINE rule == rules.pins[r]
           before == SubSeq(q.batch, 1, i - 1)
<1>2. /\ q.batch \in Batches /\ i \in 1..Len(q.batch) /\ q.ts \in Nat /\ rules \in Rulebooks
      /\ rule.within \in Nat
  <2>1. q.batch \in Batches /\ q.ts \in Nat /\ rules \in Rulebooks
    BY DEF FactsInv, FactsTyped, Exchange
  <2>2. rules.pins \in Seq(PinRule)
    BY <2>1, RulebooksAssumption
  <2>3. rule \in PinRule
    <3>1. r \in DOMAIN rules.pins
      BY <1>1
    <3>2. \A k \in DOMAIN rules.pins : rules.pins[k] \in PinRule
      BY <2>2
    <3> QED
      BY <3>1, <3>2
  <2>4. DOMAIN q.batch = 1..Len(q.batch)
    BY <2>1, BatchIs
  <2> QED
    BY <2>1, <2>3, <2>4, <1>1 DEF PinRule
<1>3. DOMAIN before = 1..(i - 1) /\ \A k \in 1..(i - 1) : before[k] = q.batch[k]
  <2>1. q.batch \in Seq(Range(q.batch))
    BY <1>2, SessionsAssumption
  <2> QED
    BY <1>2, <2>1
<1> HIDE DEF before
<1>4. \A a \in lately(rule) : a \in answered /\ a.session \in PinScope(q.session) /\ a.rules.pins = rules.pins
                              /\ given[a.session].units <= MaxPerKey /\ a.ts + rule.within >= q.ts
  BY DEF Answers, PinScope
\* Whatever was touched, the gate finds; and what it finds was touched.
<1>5. \A u \in touched(rule, i) : \E g \in seen(i) : g.rule = r /\ g.ts + rule.within >= q.ts
  <2>1. ASSUME NEW a \in lately(rule), NEW k \in DOMAIN a.batch, a.batch[k].action \in rule.on, a.batch[k].unit # NoUnit
        PROVE  \E g \in seen(i) : g.rule = r /\ g.ts + rule.within >= q.ts
    <3>1. r \in PinUnits(a.rules, a.batch[k])
      BY <1>1, <1>4, <2>1 DEF PinUnits
    <3>2. UnitFact(a, k, r) \in Range(pinFacts[a.session])
      BY <1>4, <3>1 DEF FactsInv, UnitsKept
    <3>3. UnitFact(a, k, r) \in facts
      BY <1>4, <3>2
    <3>4. UnitFact(a, k, r).rule = r /\ UnitFact(a, k, r).ts = a.ts
      BY DEF UnitFact
    <3> QED
      BY <1>4, <3>3, <3>4
  <2>2. ASSUME NEW k \in DOMAIN before, before[k].action \in rule.on, before[k].unit # NoUnit
        PROVE  \E g \in seen(i) : g.rule = r /\ g.ts + rule.within >= q.ts
    <3>1. k \in 1..(i - 1) /\ before[k] = q.batch[k]
      BY <1>3
    <3>2. r \in PinUnits(rules, q.batch[k])
      BY <1>1, <2>2, <3>1 DEF PinUnits
    <3> DEFINE g == [rule |-> r, unit |-> q.batch[k].unit, ts |-> q.ts]
    <3>3. g \in earlier(i)
      <4>1. g \in {[rule |-> s, unit |-> q.batch[k].unit, ts |-> q.ts] : s \in PinUnits(rules, q.batch[k])}
        BY <3>1, <3>2
      <4> QED
        BY <3>1, <4>1
    <3>4. g.rule = r /\ g.ts + rule.within >= q.ts
      BY <1>2
    <3> QED
      BY <3>3, <3>4
  <2>3. ASSUME NEW u \in touched(rule, i)
        PROVE  \/ \E a \in lately(rule) : \E k \in DOMAIN a.batch : a.batch[k].action \in rule.on /\ a.batch[k].unit # NoUnit
               \/ \E k \in DOMAIN before : before[k].action \in rule.on /\ before[k].unit # NoUnit
    BY <2>3 DEF before
  <2> QED
    BY <2>1, <2>2, <2>3
<1>6. \A g \in seen(i) : g.rule = r /\ g.ts + rule.within >= q.ts => g.unit # q.batch[i].unit
  <2> SUFFICES ASSUME NEW g \in seen(i), g.rule = r, g.ts + rule.within >= q.ts, g.unit # NoUnit PROVE g.unit \in touched(rule, i)
    BY <1>1
  <2>1. CASE g \in facts
    <3>1. PICK s \in PinScope(q.session) : g \in Range(pinFacts[s])
      BY <2>1
    <3>2. s \in Sessions /\ s \in Above[q.session] \union {q.session}
      BY <3>1, SessionsAssumption DEF PinScope, Exchange
    <3>3. PICK a \in answered : a.session = s /\ \E m \in DOMAIN a.batch : \E t \in PinUnits(a.rules, a.batch[m]) : g = UnitFact(a, m, t)
      BY <3>1, <3>2 DEF FactsInv, UnitsEarned
    <3>4. PICK m \in DOMAIN a.batch : \E t \in PinUnits(a.rules, a.batch[m]) : g = UnitFact(a, m, t)
      BY <3>3
    <3>5. PICK t \in PinUnits(a.rules, a.batch[m]) : g = UnitFact(a, m, t)
      BY <3>4
    <3>6. t = r /\ g.unit = a.batch[m].unit /\ g.ts = a.ts
      BY <3>5 DEF UnitFact
    <3>7. a \in lately(rule)
      BY <3>2, <3>3, <3>6 DEF Answers
    <3>8. a.batch[m].action \in rule.on
      BY <3>3, <3>5, <3>6 DEF PinUnits
    <3>9. g.unit \in units(a.batch, rule)
      BY <3>4, <3>6, <3>8
    <3> HIDE DEF units, lately
    <3> QED
      BY <3>7, <3>9
  <2>2. CASE g \in earlier(i)
    <3>1. PICK j \in 1..(i - 1) : \E t \in PinUnits(rules, q.batch[j]) : g = [rule |-> t, unit |-> q.batch[j].unit, ts |-> q.ts]
      BY <2>2
    <3>2. g.unit = q.batch[j].unit /\ r \in PinUnits(rules, q.batch[j])
      BY <3>1
    <3>3. j \in DOMAIN before /\ before[j] = q.batch[j] /\ before[j].action \in rule.on
      BY <1>3, <3>2 DEF PinUnits
    <3>4. g.unit \in units(before, rule)
      BY <3>2, <3>3
    <3>5. g.unit \in units(SubSeq(q.batch, 1, i - 1), rule)
      BY <3>4 DEF before
    <3> HIDE DEF units, lately
    <3> QED
      BY <3>5
  <2> QED
    BY <2>1, <2>2
<1>7. r \in PinUnits(rules, q.batch[i])
  BY <1>1 DEF PinUnits
<1>8. r \in hits(i)
  <2> DEFINE pinned == {f.unit : f \in {g \in seen(i) : g.rule = r /\ g.ts + rule.within >= q.ts}}
  <2>1. pinned # {}
    <3>1. PICK u \in touched(rule, i) : TRUE
      BY <1>1
    <3>2. PICK g \in seen(i) : g.rule = r /\ g.ts + rule.within >= q.ts
      BY <1>5, <3>1
    <3> QED
      BY <3>2
  <2>2. q.batch[i].unit \notin pinned
    BY <1>6
  <2> QED
    BY <1>7, <2>1, <2>2 DEF PinHits
<1>9. rules.pins[r].effect \in {rules.pins[t].effect : t \in UNION {hits(n) : n \in DOMAIN q.batch}}
  BY <1>8
<1>10. PinEffect(rules, facts, q.batch, q.ts) = Strongest({rules.pins[t].effect : t \in UNION {hits(n) : n \in DOMAIN q.batch}})
  BY DEF PinEffect
<1> QED
  BY <1>9, <1>10, Speaks

-------------------------------------------------------------------------------
(* Every step of the session keeps it. *)

LEMMA FactsAreFinite ==
  ASSUME NEW q \in Exchange
  PROVE  /\ IsFiniteSet(SourcesOf(q)) /\ Cardinality(SourcesOf(q)) \in Nat
         /\ IsFiniteSet(UnitsOf(q)) /\ Cardinality(UnitsOf(q)) \in Nat
<1>1. DOMAIN q.batch = 1..Len(q.batch) /\ DOMAIN q.rules.pins = 1..Len(q.rules.pins)
      /\ Len(q.batch) \in Nat /\ Len(q.rules.pins) \in Nat
  BY BatchIs, RulesAre DEF Exchange
<1>2. IsFiniteSet(DOMAIN q.batch) /\ IsFiniteSet(DOMAIN q.rules.pins)
  <2>1. \A n \in Nat : IsFiniteSet(1..n)
    BY FS_Interval
  <2>2. IsFiniteSet(1..Len(q.batch)) /\ IsFiniteSet(1..Len(q.rules.pins))
    BY <1>1, <2>1
  <2> QED
    BY <1>1, <2>2
<1>3. IsFiniteSet((DOMAIN q.batch) \X (DOMAIN q.rules.pins))
  BY <1>2, FS_Product
<1>4. SourcesOf(q) \subseteq DOMAIN q.batch /\ UnitsOf(q) \subseteq (DOMAIN q.batch) \X (DOMAIN q.rules.pins)
  BY DEF SourcesOf, UnitsOf
<1>5. IsFiniteSet(SourcesOf(q)) /\ IsFiniteSet(UnitsOf(q))
  BY <1>2, <1>3, <1>4, FS_Subset
<1> QED
  BY <1>5, FS_CardinalityType

\* An answer gives the stores of its session one fact of every source and of every unit.
LEMMA SeedGives ==
  ASSUME NEW q \in Exchange, Seed(q)
  PROVE  \E fs \in Seq(FlowFact), us \in Seq(PinFact) :
           /\ Len(fs) = Cardinality(SourcesOf(q)) /\ Len(us) = Cardinality(UnitsOf(q))
           /\ flowFacts' = [flowFacts EXCEPT ![q.session] = Record(@, fs)]
           /\ pinFacts' = [pinFacts EXCEPT ![q.session] = Record(@, us)]
           /\ \A m \in DOMAIN q.batch : IsSource(q.rules, q.batch[m].action) => SourceFact(q, m) \in Range(fs)
           /\ \A m \in DOMAIN q.batch : \A t \in PinUnits(q.rules, q.batch[m]) : UnitFact(q, m, t) \in Range(us)
           /\ \A u \in Range(us) : \E m \in DOMAIN q.batch : \E t \in PinUnits(q.rules, q.batch[m]) : u = UnitFact(q, m, t)
<1>1. PICK from \in Listings(SourcesOf(q)), to \in Listings(UnitsOf(q)) :
        /\ flowFacts' = [flowFacts EXCEPT ![q.session] =
             Record(@, [n \in DOMAIN from |-> [action |-> q.batch[from[n]].action, ts |-> q.ts]])]
        /\ pinFacts' = [pinFacts EXCEPT ![q.session] =
             Record(@, [n \in DOMAIN to |-> [rule |-> to[n][2], unit |-> q.batch[to[n][1]].unit, ts |-> q.ts]])]
  BY DEF Seed
<1> DEFINE fs == [n \in DOMAIN from |-> [action |-> q.batch[from[n]].action, ts |-> q.ts]]
           us == [n \in DOMAIN to |-> [rule |-> to[n][2], unit |-> q.batch[to[n][1]].unit, ts |-> q.ts]]
           c == Cardinality(SourcesOf(q))
           d == Cardinality(UnitsOf(q))
<1>2. /\ c \in Nat /\ from \in [1..c -> SourcesOf(q)] /\ Range(from) = SourcesOf(q)
      /\ d \in Nat /\ to \in [1..d -> UnitsOf(q)] /\ Range(to) = UnitsOf(q)
  BY FactsAreFinite DEF Listings
<1> HIDE DEF c, d
<1>3. /\ q.ts \in Nat /\ q.batch \in Batches /\ q.rules \in Rulebooks
      /\ DOMAIN q.rules.pins \subseteq Nat
  BY RulesAre DEF Exchange
<1>4. \A n \in 1..c : from[n] \in DOMAIN q.batch /\ IsSource(q.rules, q.batch[from[n]].action)
  BY <1>2 DEF SourcesOf
<1>5. ASSUME NEW n \in 1..d
      PROVE  to[n][1] \in DOMAIN q.batch /\ to[n][2] \in Nat /\ to[n][2] \in PinUnits(q.rules, q.batch[to[n][1]])
  <2>1. to[n] \in UnitsOf(q)
    BY <1>2
  <2>2. to[n] \in (DOMAIN q.batch) \X (DOMAIN q.rules.pins) /\ to[n][2] \in PinUnits(q.rules, q.batch[to[n][1]])
    BY <2>1 DEF UnitsOf
  <2> QED
    BY <1>3, <2>2
<1>6. fs \in Seq(FlowFact) /\ Len(fs) = c /\ DOMAIN fs = 1..c
  <2>1. DOMAIN fs = 1..c /\ \A n \in 1..c : fs[n] = [action |-> q.batch[from[n]].action, ts |-> q.ts]
    BY <1>2
  <2>2. fs = [n \in 1..c |-> fs[n]]
    BY <1>2
  <2>3. \A n \in 1..c : fs[n] \in FlowFact
    BY <1>3, <1>4, <2>1, BatchIs DEF FlowFact
  <2> HIDE DEF fs
  <2>4. fs \in [1..c -> FlowFact]
    BY <2>2, <2>3
  <2> QED
    BY <1>2, <2>4
<1>7. us \in Seq(PinFact) /\ Len(us) = d /\ DOMAIN us = 1..d
  <2>1. DOMAIN us = 1..d /\ \A n \in 1..d : us[n] = [rule |-> to[n][2], unit |-> q.batch[to[n][1]].unit, ts |-> q.ts]
    BY <1>2
  <2>2. us = [n \in 1..d |-> us[n]]
    BY <1>2
  <2>3. \A n \in 1..d : us[n] \in PinFact
    BY <1>3, <1>5, <2>1, BatchIs DEF PinFact
  <2> HIDE DEF us
  <2>4. us \in [1..d -> PinFact]
    BY <2>2, <2>3
  <2> QED
    BY <1>2, <2>4
<1>8. ASSUME NEW m \in DOMAIN q.batch, IsSource(q.rules, q.batch[m].action) PROVE SourceFact(q, m) \in Range(fs)
  <2>1. m \in Range(from)
    BY <1>2, <1>8 DEF SourcesOf
  <2>2. PICK n \in DOMAIN from : from[n] = m
    BY <2>1 DEF Range
  <2>3. n \in DOMAIN fs /\ fs[n] = SourceFact(q, m)
    BY <2>2 DEF SourceFact
  <2> QED
    BY <2>3 DEF Range
<1>9. ASSUME NEW m \in DOMAIN q.batch, NEW t \in PinUnits(q.rules, q.batch[m]) PROVE UnitFact(q, m, t) \in Range(us)
  <2>1. t \in DOMAIN q.rules.pins
    BY DEF PinUnits
  <2>2. <<m, t>> \in Range(to)
    BY <1>2, <2>1 DEF UnitsOf
  <2>3. PICK n \in DOMAIN to : to[n] = <<m, t>>
    BY <2>2 DEF Range
  <2>4. n \in DOMAIN us /\ us[n] = UnitFact(q, m, t)
    BY <2>3 DEF UnitFact
  <2> QED
    BY <2>4 DEF Range
<1>10. ASSUME NEW u \in Range(us) PROVE \E m \in DOMAIN q.batch : \E t \in PinUnits(q.rules, q.batch[m]) : u = UnitFact(q, m, t)
  <2>1. PICK n \in DOMAIN us : us[n] = u
    BY DEF Range
  <2>2. n \in 1..d /\ u = UnitFact(q, to[n][1], to[n][2])
    BY <1>7, <2>1 DEF UnitFact
  <2> QED
    BY <1>5, <2>2
<1> HIDE DEF fs, us
<1> QED
  BY <1>1, <1>6, <1>7, <1>8, <1>9, <1>10 DEF c, d, fs, us

LEMMA DeliverKeeps ==
  ASSUME FactsInv, NEW r \in DOMAIN flight, Deliver(r)
  PROVE  FactsInv'
<1> DEFINE q == flight[r]
           me == q.session
           new == [session |-> q.session, batch |-> q.batch, ts |-> q.ts, rules |-> q.rules]
           c == Cardinality(SourcesOf(q))
           d == Cardinality(UnitsOf(q))
<1>1. /\ flight \in Seq(Exchange) /\ q \in Exchange /\ me \in Sessions /\ new \in Heard
      /\ c \in Nat /\ d \in Nat /\ MaxPerKey \in Nat
      /\ flowFacts \in [Sessions -> Seq(FlowFact)] /\ pinFacts \in [Sessions -> Seq(PinFact)]
      /\ given \in [Sessions -> [sources : Nat, units : Nat]]
  <2>1. flight \in Seq(Exchange) /\ q \in Exchange
    BY DEF FactsInv, FactsTyped
  <2> HIDE DEF q
  <2>2. me \in Sessions /\ new \in Heard
    BY <2>1 DEF Exchange, Heard
  <2> QED
    BY <2>1, <2>2, FactsAreFinite, SessionsAssumption DEF FactsInv, FactsTyped
<1>2. /\ Seed(q) /\ flight' = RemoveAt(flight, r) /\ answered' = answered \union {new}
      /\ given' = [given EXCEPT ![me] = [sources |-> @.sources + c, units |-> @.units + d]]
      /\ now' = now /\ rules' = rules
  BY DEF Deliver
<1>3. PICK fs \in Seq(FlowFact), us \in Seq(PinFact) :
        /\ Len(fs) = c /\ Len(us) = d
        /\ flowFacts' = [flowFacts EXCEPT ![me] = Record(@, fs)]
        /\ pinFacts' = [pinFacts EXCEPT ![me] = Record(@, us)]
        /\ \A m \in DOMAIN q.batch : IsSource(q.rules, q.batch[m].action) => SourceFact(q, m) \in Range(fs)
        /\ \A m \in DOMAIN q.batch : \A t \in PinUnits(q.rules, q.batch[m]) : UnitFact(q, m, t) \in Range(us)
        /\ \A u \in Range(us) : \E m \in DOMAIN q.batch : \E t \in PinUnits(q.rules, q.batch[m]) : u = UnitFact(q, m, t)
  BY <1>1, <1>2, SeedGives
<1>4. /\ new.session = me /\ new.batch = q.batch /\ new.ts = q.ts /\ new.rules = q.rules
      /\ \A m, t : SourceFact(new, m) = SourceFact(q, m) /\ UnitFact(new, m, t) = UnitFact(q, m, t)
  BY DEF SourceFact, UnitFact
<1> HIDE DEF q, me, new, c, d
\* The stores and the counts, session by session.
<1>5. /\ Record(flowFacts[me], fs) \in Seq(FlowFact) /\ Record(pinFacts[me], us) \in Seq(PinFact)
      /\ flowFacts'[me] = Record(flowFacts[me], fs) /\ pinFacts'[me] = Record(pinFacts[me], us)
      /\ given'[me] = [sources |-> given[me].sources + c, units |-> given[me].units + d]
      /\ \A s \in Sessions \ {me} : flowFacts'[s] = flowFacts[s] /\ pinFacts'[s] = pinFacts[s] /\ given'[s] = given[s]
  <2>1. flowFacts[me] \in Seq(FlowFact) /\ pinFacts[me] \in Seq(PinFact)
    BY <1>1
  <2>2. Record(flowFacts[me], fs) \in Seq(FlowFact) /\ Record(pinFacts[me], us) \in Seq(PinFact)
    BY <1>1, <1>3, <2>1, RecordKeeps
  <2> QED
    BY <1>1, <1>2, <1>3, <2>2
<1>6. /\ given'[me].sources = given[me].sources + c /\ given'[me].units = given[me].units + d
      /\ given[me].sources \in Nat /\ given[me].units \in Nat
  BY <1>1, <1>5
<1>7. given'[me].sources <= MaxPerKey =>
        /\ given[me].sources <= MaxPerKey /\ Len(flowFacts'[me]) = given'[me].sources
        /\ Range(flowFacts[me]) \subseteq Range(flowFacts'[me]) /\ Range(fs) \subseteq Range(flowFacts'[me])
  <2> SUFFICES ASSUME given[me].sources + c <= MaxPerKey
               PROVE  /\ given[me].sources <= MaxPerKey /\ Len(flowFacts'[me]) = given[me].sources + c
                      /\ Range(flowFacts[me]) \subseteq Range(flowFacts'[me]) /\ Range(fs) \subseteq Range(flowFacts'[me])
    BY <1>6
  <2>1. given[me].sources <= MaxPerKey
    BY <1>1, <1>6
  <2>2. Len(flowFacts[me]) = given[me].sources /\ flowFacts[me] \in Seq(FlowFact)
    BY <1>1, <2>1 DEF FactsInv, Counted
  <2>3. Len(flowFacts[me]) + Len(fs) <= MaxPerKey
    BY <1>3, <2>2
  <2>4. /\ Len(Record(flowFacts[me], fs)) = Len(flowFacts[me]) + Len(fs)
        /\ Range(flowFacts[me]) \subseteq Range(Record(flowFacts[me], fs))
        /\ Range(fs) \subseteq Range(Record(flowFacts[me], fs))
    BY <1>1, <2>2, <2>3, RecordKeeps
  <2>5. flowFacts'[me] = Record(flowFacts[me], fs)
    BY <1>5
  <2> QED
    BY <1>3, <2>1, <2>2, <2>4, <2>5
<1>8. given'[me].units <= MaxPerKey =>
        /\ given[me].units <= MaxPerKey /\ Len(pinFacts'[me]) = given'[me].units
        /\ Range(pinFacts[me]) \subseteq Range(pinFacts'[me]) /\ Range(us) \subseteq Range(pinFacts'[me])
  <2> SUFFICES ASSUME given[me].units + d <= MaxPerKey
               PROVE  /\ given[me].units <= MaxPerKey /\ Len(pinFacts'[me]) = given[me].units + d
                      /\ Range(pinFacts[me]) \subseteq Range(pinFacts'[me]) /\ Range(us) \subseteq Range(pinFacts'[me])
    BY <1>6
  <2>1. given[me].units <= MaxPerKey
    BY <1>1, <1>6
  <2>2. Len(pinFacts[me]) = given[me].units /\ pinFacts[me] \in Seq(PinFact)
    BY <1>1, <2>1 DEF FactsInv, Counted
  <2>3. Len(pinFacts[me]) + Len(us) <= MaxPerKey
    BY <1>3, <2>2
  <2>4. /\ Len(Record(pinFacts[me], us)) = Len(pinFacts[me]) + Len(us)
        /\ Range(pinFacts[me]) \subseteq Range(Record(pinFacts[me], us))
        /\ Range(us) \subseteq Range(Record(pinFacts[me], us))
    BY <1>1, <2>2, <2>3, RecordKeeps
  <2>5. pinFacts'[me] = Record(pinFacts[me], us)
    BY <1>5
  <2> QED
    BY <1>3, <2>1, <2>2, <2>4, <2>5
<1>9. \A f \in Range(pinFacts'[me]) : f \in Range(pinFacts[me]) \/ f \in Range(us)
  <2>1. pinFacts[me] \in Seq(PinFact)
    BY <1>1
  <2> QED
    BY <1>1, <1>3, <1>5, <2>1, RecordKeeps
<1>10. \A a \in answered' : a \in answered \/ a = new
  BY <1>2
<1>11. FactsTyped'
  <2>1. flight' \in Seq(Exchange)
    BY <1>1, <1>2, RemoveAtKeeps
  <2>2. given' \in [Sessions -> [sources : Nat, units : Nat]]
    <3>1. [sources |-> given[me].sources + c, units |-> given[me].units + d] \in [sources : Nat, units : Nat]
      BY <1>1, <1>6
    <3> QED
      BY <1>1, <1>2, <3>1
  <2>3. flowFacts' \in [Sessions -> Seq(FlowFact)] /\ pinFacts' \in [Sessions -> Seq(PinFact)]
    BY <1>1, <1>3, <1>5
  <2>4. answered' \subseteq Heard
    BY <1>1, <1>2 DEF FactsInv, FactsTyped
  <2> QED
    BY <1>2, <2>1, <2>2, <2>3, <2>4 DEF FactsInv, FactsTyped
<1>12. Counted'
  <2> SUFFICES ASSUME NEW s \in Sessions
               PROVE  /\ given'[s].sources <= MaxPerKey => Len(flowFacts'[s]) = given'[s].sources
                      /\ given'[s].units <= MaxPerKey => Len(pinFacts'[s]) = given'[s].units
    BY DEF Counted
  <2>1. CASE s = me
    BY <1>7, <1>8, <2>1
  <2>2. CASE s # me
    BY <1>5, <2>2 DEF FactsInv, Counted
  <2> QED
    BY <2>1, <2>2
<1>13. SourcesKept'
  <2> SUFFICES ASSUME NEW a \in answered', given'[a.session].sources <= MaxPerKey,
                      NEW m \in DOMAIN a.batch, IsSource(a.rules, a.batch[m].action)
               PROVE  SourceFact(a, m) \in Range(flowFacts'[a.session])
    BY DEF SourcesKept, SourceFact
  <2>1. CASE a = new
    BY <1>3, <1>4, <1>7, <2>1
  <2>2. CASE a \in answered /\ a.session = me
    BY <1>7, <2>2 DEF FactsInv, SourcesKept
  <2>3. CASE a \in answered /\ a.session # me
    <3>1. a.session \in Sessions \ {me}
      BY <2>3 DEF FactsInv, FactsTyped, Heard
    <3> QED
      BY <1>5, <2>3, <3>1 DEF FactsInv, SourcesKept
  <2> QED
    BY <1>10, <2>1, <2>2, <2>3
<1>14. UnitsKept'
  <2> SUFFICES ASSUME NEW a \in answered', given'[a.session].units <= MaxPerKey,
                      NEW m \in DOMAIN a.batch, NEW t \in PinUnits(a.rules, a.batch[m])
               PROVE  UnitFact(a, m, t) \in Range(pinFacts'[a.session])
    BY DEF UnitsKept, UnitFact
  <2>1. CASE a = new
    BY <1>3, <1>4, <1>8, <2>1
  <2>2. CASE a \in answered /\ a.session = me
    BY <1>8, <2>2 DEF FactsInv, UnitsKept
  <2>3. CASE a \in answered /\ a.session # me
    <3>1. a.session \in Sessions \ {me}
      BY <2>3 DEF FactsInv, FactsTyped, Heard
    <3> QED
      BY <1>5, <2>3, <3>1 DEF FactsInv, UnitsKept
  <2> QED
    BY <1>10, <2>1, <2>2, <2>3
<1>15. UnitsEarned'
  <2> SUFFICES ASSUME NEW s \in Sessions, NEW f \in Range(pinFacts'[s])
               PROVE  \E a \in answered' : a.session = s /\ \E m \in DOMAIN a.batch : \E t \in PinUnits(a.rules, a.batch[m]) : f = UnitFact(a, m, t)
    BY DEF UnitsEarned, UnitFact
  <2>1. CASE f \in Range(pinFacts[s])
    <3>1. PICK a \in answered : a.session = s /\ \E m \in DOMAIN a.batch : \E t \in PinUnits(a.rules, a.batch[m]) : f = UnitFact(a, m, t)
      BY <2>1 DEF FactsInv, UnitsEarned
    <3> QED
      BY <1>2, <3>1
  <2>2. CASE s = me /\ f \in Range(us)
    <3>1. new \in answered'
      BY <1>2
    <3>2. new.session = s /\ \E m \in DOMAIN new.batch : \E t \in PinUnits(new.rules, new.batch[m]) : f = UnitFact(new, m, t)
      BY <1>3, <1>4, <2>2
    <3> QED
      BY <3>1, <3>2
  <2> QED
    BY <1>5, <1>9, <2>1, <2>2
<1>16. AllGated'
  <2>1. \A k \in DOMAIN flight' : \E j \in DOMAIN flight : flight'[k] = flight[j]
    BY <1>1, <1>2, RemoveAtKeeps
  <2> QED
    BY <2>1 DEF FactsInv, AllGated, Gated
<1> QED
  BY <1>11, <1>12, <1>13, <1>14, <1>15, <1>16 DEF FactsInv

LEMMA WaitKeeps == FactsInv /\ Wait => FactsInv'
<1> SUFFICES ASSUME FactsInv, Wait PROVE FactsInv'
  OBVIOUS
<1>1. FactsTyped'
  BY DEF FactsInv, FactsTyped, Wait
<1>2. Counted' /\ SourcesKept' /\ UnitsKept' /\ UnitsEarned' /\ AllGated'
  BY DEF FactsInv, Wait, Counted, SourcesKept, SourceFact, UnitsKept, UnitsEarned, UnitFact, AllGated, Gated
<1> QED
  BY <1>1, <1>2 DEF FactsInv

LEMMA ReloadKeeps == ASSUME FactsInv, NEW book \in Rulebooks, Reload(book) PROVE FactsInv'
<1>1. FactsTyped'
  BY DEF FactsInv, FactsTyped, Reload
<1>2. Counted' /\ SourcesKept' /\ UnitsKept' /\ UnitsEarned' /\ AllGated'
  BY DEF FactsInv, Reload, Counted, SourcesKept, SourceFact, UnitsKept, UnitsEarned, UnitFact, AllGated, Gated
<1> QED
  BY <1>1, <1>2 DEF FactsInv

\* A step that changes the requests in flight alone.
LEMMA FlightKeeps ==
  ASSUME FactsInv, UNCHANGED <<now, rules, flowFacts, pinFacts, answered, given>>,
         flight' \in Seq(Exchange), \A k \in DOMAIN flight' : Gated(flight'[k])
  PROVE  FactsInv'
<1>1. FactsTyped'
  BY DEF FactsInv, FactsTyped
<1>2. Counted' /\ SourcesKept' /\ UnitsKept' /\ UnitsEarned'
  BY DEF FactsInv, Counted, SourcesKept, SourceFact, UnitsKept, UnitsEarned, UnitFact
<1>3. AllGated'
  BY DEF AllGated, Gated
<1> QED
  BY <1>1, <1>2, <1>3 DEF FactsInv

LEMMA ArriveKeeps ==
  ASSUME FactsInv, NEW s \in Sessions, NEW b \in Batches, Arrive(s, b)
  PROVE  FactsInv'
<1> DEFINE q == [session |-> s, batch |-> b, ts |-> now, at |-> "reading",
                 rules |-> rules, flow |-> "quiet", pin |-> "quiet",
                 tainted |-> FALSE, pivots |-> FALSE, reloaded |-> FALSE]
<1>1. q \in Exchange /\ Gated(q)
  BY DEF FactsInv, FactsTyped, Exchange, Effects, Gated
<1>2. flight \in Seq(Exchange) /\ \A k \in DOMAIN flight : Gated(flight[k])
  BY DEF FactsInv, FactsTyped, AllGated
<1>3. flight' = Append(flight, q)
  BY DEF Arrive
<1> HIDE DEF q
<1>4. flight' \in Seq(Exchange) /\ \A k \in DOMAIN flight' : (k \in DOMAIN flight /\ flight'[k] = flight[k]) \/ flight'[k] = q
  BY <1>1, <1>2, <1>3
<1>5. \A k \in DOMAIN flight' : Gated(flight'[k])
  BY <1>1, <1>2, <1>4
<1> QED
  BY <1>4, <1>5, FlightKeeps DEF Arrive

\* Of a request that is rewritten where it stands.
LEMMA RewrittenKeeps ==
  ASSUME FactsInv, NEW r \in DOMAIN flight, NEW q \in Exchange, Gated(q), flight' = [flight EXCEPT ![r] = q],
         UNCHANGED <<now, rules, flowFacts, pinFacts, answered, given>>
  PROVE  FactsInv'
<1>1. flight \in Seq(Exchange) /\ \A k \in DOMAIN flight : Gated(flight[k])
  BY DEF FactsInv, FactsTyped, AllGated
<1>2. flight' \in Seq(Exchange) /\ DOMAIN flight' = DOMAIN flight /\ \A k \in DOMAIN flight : flight'[k] = IF k = r THEN q ELSE flight[k]
  BY <1>1
<1>3. \A k \in DOMAIN flight' : Gated(flight'[k])
  BY <1>1, <1>2
<1> QED
  BY <1>2, <1>3, FlightKeeps

LEMMA JudgeKeeps ==
  ASSUME FactsInv, NEW r \in DOMAIN flight, Judge(r)
  PROVE  FactsInv'
<1> DEFINE q == flight[r]
           flow == FlowEffect(rules, Range(flowFacts[q.session]), q.batch, q.ts)
           pin == PinEffect(rules, UNION {Range(pinFacts[k]) : k \in PinScope(q.session)}, q.batch, q.ts)
           found == Strongest({flow, pin} \ {"quiet"})
           new == [session |-> q.session, batch |-> q.batch, ts |-> q.ts, rules |-> rules,
                   flow |-> flow, pin |-> IF flow = "deny" THEN "quiet" ELSE pin,
                   at |-> CASE found = "deny" -> "denied" [] found = "quiet" -> "forwarded" [] OTHER -> "held",
                   tainted |-> Tainted(q.session, q.batch, q.ts) /\ given[q.session].sources <= MaxPerKey,
                   pivots |-> /\ Pivots(q.session, q.batch, q.ts)
                              /\ \A k \in Above[q.session] \union {q.session} : given[k].units <= MaxPerKey,
                   reloaded |-> \E a \in answered : a.rules.pins # rules.pins]
<1>1. q \in Exchange
  BY DEF FactsInv, FactsTyped
<1>2. flight' = [flight EXCEPT ![r] = new] /\ UNCHANGED <<now, rules, flowFacts, pinFacts, answered, given>>
  BY DEF Judge
<1>3. flow \in Effects /\ pin \in Effects
  BY Speaks DEF FlowEffect, PinEffect
<1>4. Tainted(q.session, q.batch, q.ts) /\ given[q.session].sources <= MaxPerKey => flow # "quiet"
  BY <1>1, SinksAreSeen
<1>5. /\ Pivots(q.session, q.batch, q.ts)
      /\ \A k \in Above[q.session] \union {q.session} : given[k].units <= MaxPerKey
      /\ ~\E a \in answered : a.rules.pins # rules.pins
      => pin # "quiet"
  BY <1>1, PivotsAreSeen
<1>6. rules \in Rulebooks
  BY DEF FactsInv, FactsTyped
<1> HIDE DEF q, flow, pin, found
<1>7. new \in Exchange
  BY <1>1, <1>3, <1>6 DEF Exchange, Effects
<1>8. Gated(new)
  BY <1>4, <1>5 DEF Gated
<1> HIDE DEF new
<1> QED
  BY <1>2, <1>7, <1>8, RewrittenKeeps

LEMMA ApproveKeeps ==
  ASSUME FactsInv, NEW r \in DOMAIN flight, Approve(r)
  PROVE  FactsInv'
<1> DEFINE new == [flight[r] EXCEPT !.at = "forwarded"]
<1>1. flight[r] \in Exchange /\ Gated(flight[r])
  BY DEF FactsInv, FactsTyped, AllGated
<1>2. new \in Exchange /\ Gated(new)
  BY <1>1 DEF Exchange, Gated
<1>3. flight' = [flight EXCEPT ![r] = new] /\ UNCHANGED <<now, rules, flowFacts, pinFacts, answered, given>>
  BY DEF Approve
<1> HIDE DEF new
<1> QED
  BY <1>2, <1>3, RewrittenKeeps

LEMMA LeaveKeeps ==
  ASSUME FactsInv, NEW r \in DOMAIN flight, Leave(r)
  PROVE  FactsInv'
<1>1. flight \in Seq(Exchange) /\ flight' = RemoveAt(flight, r)
  BY DEF FactsInv, FactsTyped, Leave
<1>2. flight' \in Seq(Exchange) /\ \A k \in DOMAIN flight' : \E j \in DOMAIN flight : flight'[k] = flight[j]
  BY <1>1, RemoveAtKeeps
<1>3. \A k \in DOMAIN flight' : Gated(flight'[k])
  BY <1>2 DEF FactsInv, AllGated
<1> QED
  BY <1>2, <1>3, FlightKeeps DEF Leave

LEMMA FactsInvNext == FactsInv /\ [FactsNext]_factVars => FactsInv'
<1> SUFFICES ASSUME FactsInv, [FactsNext]_factVars PROVE FactsInv'
  OBVIOUS
<1>1. CASE Wait
  BY <1>1, WaitKeeps
<1>2. ASSUME NEW s \in Sessions, NEW b \in Batches, Arrive(s, b) PROVE FactsInv'
  BY <1>2, ArriveKeeps
<1>3. ASSUME NEW book \in Rulebooks, Reload(book) PROVE FactsInv'
  BY <1>3, ReloadKeeps
<1>4. ASSUME NEW r \in DOMAIN flight, Judge(r) PROVE FactsInv'
  BY <1>4, JudgeKeeps
<1>5. ASSUME NEW r \in DOMAIN flight, Approve(r) PROVE FactsInv'
  BY <1>5, ApproveKeeps
<1>6. ASSUME NEW r \in DOMAIN flight, Deliver(r) PROVE FactsInv'
  BY <1>6, DeliverKeeps
<1>7. ASSUME NEW r \in DOMAIN flight, Leave(r) PROVE FactsInv'
  BY <1>7, LeaveKeeps
<1>8. CASE UNCHANGED factVars
  <2>1. flight' = flight /\ flight \in Seq(Exchange) /\ \A k \in DOMAIN flight : Gated(flight[k])
    BY <1>8 DEF factVars, FactsInv, FactsTyped, AllGated
  <2> QED
    BY <1>8, <2>1, FlightKeeps DEF factVars
<1> QED
  BY <1>1, <1>2, <1>3, <1>4, <1>5, <1>6, <1>7, <1>8 DEF FactsNext

\* Whoever of a chain sends it: a sink after a source of its session, and a member that
\* leaves every unit its chain has touched, meet their rule - for any number of sessions and
\* of requests in flight, answered in any order (flow/*.ts, pin/*.ts, server.ts dispatch()).
THEOREM FactsAreKept == MCSpec => []SessionsAreGated
<1>1. MCInit => FactsInv
  BY FactsInvInit DEF MCInit, Quiet
<1>2. FactsInv /\ [MCNext]_Everything => FactsInv'
  <2>1. [MCNext]_Everything => [FactsNext]_factVars
    BY DEF MCNext, Everything
  <2> QED
    BY <2>1, FactsInvNext
<1>3. FactsInv => SessionsAreGated
  BY DEF FactsInv, AllGated, Gated, SessionsAreGated, SeenIsGated, PivotIsSeen
<1> QED
  BY <1>1, <1>2, <1>3, PTL DEF MCSpec

-------------------------------------------------------------------------------
(* The hook of the shell guard. *)

\* A hook that has answered "proceed" was answered "allowed", a command that has run was let
\* through by the hook, and a hook still asking is within its own timeout.
HookInv ==
  /\ elapsed \in Nat /\ tool \in {"pending", "proceed", "block"}
  /\ tool = "proceed" => daemon = "allowed"
  /\ tool = "pending" => elapsed <= HookTimeout(Ttl)
  /\ ran => tool = "proceed"

LEMMA HookTimeoutIsShort == HookTimeout(Ttl) \in Nat /\ HookTimeout(Ttl) < HostTimeout
<1> DEFINE long == Max({MinTimeout, Ttl + Grace})
<1>1. /\ Ttl + Grace \in Nat /\ MinTimeout \in Nat /\ MaxTimeout \in Nat /\ HostTimeout \in Nat
      /\ MaxTimeout < HostTimeout
  BY TimeoutsAssumption
<1>2. long \in {MinTimeout, Ttl + Grace}
  <2>1. \E x \in {MinTimeout, Ttl + Grace} : \A y \in {MinTimeout, Ttl + Grace} : x >= y
    BY <1>1
  <2> QED
    BY <2>1 DEF Max
<1>3. long \in Nat
  BY <1>1, <1>2
<1> HIDE DEF long
<1>4. /\ Min({MaxTimeout, long}) \in {MaxTimeout, long}
      /\ Min({MaxTimeout, long}) <= MaxTimeout
  <2>1. \E x \in {MaxTimeout, long} : \A y \in {MaxTimeout, long} : x <= y
    BY <1>1, <1>3
  <2> QED
    BY <2>1 DEF Min
<1>5. HookTimeout(Ttl) = Min({MaxTimeout, long})
  BY DEF HookTimeout, long
<1> QED
  BY <1>1, <1>3, <1>4, <1>5

LEMMA HookInvInit == MCInit => HookInv
<1>1. HookTimeout(Ttl) \in Nat
  BY HookTimeoutIsShort
<1> QED
  BY <1>1 DEF MCInit, Idle, ExecInit, HookInv

LEMMA HookInvNext == HookInv /\ [ExecNext]_execVars => HookInv'
<1> SUFFICES ASSUME HookInv, [ExecNext]_execVars PROVE HookInv'
  OBVIOUS
<1> DEFINE most == HookTimeout(Ttl)
<1>1. most \in Nat /\ most < HostTimeout /\ HostTimeout \in Nat
  BY HookTimeoutIsShort, TimeoutsAssumption
<1>2. /\ elapsed \in Nat /\ tool \in {"pending", "proceed", "block"}
      /\ tool = "proceed" => daemon = "allowed"
      /\ tool = "pending" => elapsed <= most
      /\ ran => tool = "proceed"
  BY DEF HookInv
<1> HIDE DEF most
<1> SUFFICES /\ elapsed' \in Nat /\ tool' \in {"pending", "proceed", "block"}
             /\ tool' = "proceed" => daemon' = "allowed"
             /\ tool' = "pending" => elapsed' <= most
             /\ ran' => tool' = "proceed"
  BY DEF HookInv, most, HookTimeout
<1>3. CASE Post
  BY <1>2, <1>3 DEF Post
<1>4. ASSUME NEW yes, Answer(yes)
      PROVE  tool' = tool /\ elapsed' = elapsed /\ ran' = ran /\ daemon = "held"
  BY <1>4 DEF Answer
<1>5. CASE Answer(TRUE) \/ Answer(FALSE)
  BY <1>2, <1>4, <1>5
<1>6. CASE Expire
  BY <1>2, <1>6 DEF Expire
<1>7. CASE Die
  BY <1>2, <1>7 DEF Die
<1>8. CASE Hear
  BY <1>2, <1>8 DEF Hear
<1>9. CASE GiveUp
  BY <1>2, <1>9 DEF GiveUp
<1>10. CASE Run
  BY <1>1, <1>2, <1>10 DEF Run
<1>11. CASE Pass
  BY <1>1, <1>2, <1>11 DEF Pass, most
<1>12. CASE Done \/ UNCHANGED execVars
  BY <1>2, <1>12 DEF Done, execVars
<1> QED
  BY <1>3, <1>5, <1>6, <1>7, <1>8, <1>9, <1>10, <1>11, <1>12 DEF ExecNext

\* A command runs only if the daemon has allowed it and the hook has said so: whatever the
\* time to live of an approval, a daemon that is down, dies, or keeps the hook waiting lets
\* nothing run, as long as the hook's longest wait is shorter than the runtime's (cli/hook.ts).
THEOREM TheHookFailsClosed == MCSpec => []HookFailsClosed
<1>1. MCInit => HookInv
  BY HookInvInit
<1>2. HookInv /\ [MCNext]_Everything => HookInv'
  <2>1. [MCNext]_Everything => [ExecNext]_execVars
    BY DEF MCNext, Everything
  <2> QED
    BY <2>1, HookInvNext
<1>3. HookInv => HookFailsClosed
  BY DEF HookInv, HookFailsClosed
<1> QED
  BY <1>1, <1>2, <1>3, PTL DEF MCSpec

-------------------------------------------------------------------------------
(* The command adapter: what is named is what runs. *)

LEMMA LeastNumber ==
  ASSUME NEW S, S \subseteq Nat, S # {}
  PROVE  \E n \in S : \A m \in S : n <= m
<1>1. IsWellFoundedOn(OpToRel(<, Nat), Nat)
  BY NatLessThanWellFounded
<1>2. PICK n \in S : \A m \in S : ~(<<m, n>> \in OpToRel(<, Nat))
  BY <1>1, WFMin
<1>3. \A m \in S : ~(m < n)
  BY <1>2 DEF OpToRel
<1> QED
  BY <1>3

\* What holds of zero, and of the next number whenever of one, holds of all.
LEMMA CountUp ==
  ASSUME NEW S, 0 \in S, \A n \in S \cap Nat : n + 1 \in S
  PROVE  Nat \subseteq S
<1> SUFFICES ASSUME Nat \ S # {} PROVE FALSE
  OBVIOUS
<1>1. PICK n \in Nat \ S : \A m \in Nat \ S : n <= m
  BY LeastNumber
<1>2. n # 0 /\ n - 1 \in Nat /\ (n - 1) + 1 = n
  BY <1>1
<1>3. n - 1 \in S
  BY <1>1, <1>2
<1> QED
  BY <1>1, <1>2, <1>3

Loop(at, step, x, n) == at = [k \in 0..n |-> IF k = 0 THEN x ELSE step[at[k - 1]]]

\* A loop of no steps does nothing, and one of one more does one more.
LEMMA Iterated ==
  ASSUME NEW step, NEW x
  PROVE  Iterate(step, x, 0) = x /\ \A n \in Nat : Iterate(step, x, n + 1) = step[Iterate(step, x, n)]
<1> DEFINE The(n) == CHOOSE at : Loop(at, step, x, n)
           Good == {n \in Nat : Loop(The(n), step, x, n)}
<1>0. \A n \in Nat : Iterate(step, x, n) = The(n)[n]
  BY DEF Iterate, Loop
<1>1. 0 \in Good
  <2>1. PICK at : at = [k \in 0..0 |-> x]
    OBVIOUS
  <2>2. Loop(at, step, x, 0)
    BY <2>1 DEF Loop
  <2> QED
    BY <2>2
<1>2. ASSUME NEW n \in Good \cap Nat PROVE n + 1 \in Good
  <2> HIDE DEF The
  <2>0. Loop(The(n), step, x, n)
    BY <1>2
  <2>1. PICK at : at = [k \in 0..n + 1 |-> IF k <= n THEN The(n)[k] ELSE step[The(n)[n]]]
    OBVIOUS
  <2>2. \A k \in 0..n : at[k] = The(n)[k] /\ The(n)[k] = IF k = 0 THEN x ELSE step[The(n)[k - 1]]
    BY <2>0, <2>1 DEF Loop
  <2>3. at[n + 1] = step[at[n]]
    BY <2>1, <2>2
  <2>4. \A k \in 0..n + 1 : at[k] = IF k = 0 THEN x ELSE step[at[k - 1]]
    BY <2>2, <2>3
  <2>5. at = [k \in 0..n + 1 |-> at[k]]
    BY <2>1
  <2>6. Loop(at, step, x, n + 1)
    BY <2>4, <2>5 DEF Loop
  <2>7. Loop(The(n + 1), step, x, n + 1)
    BY <2>6 DEF The
  <2> QED
    BY <2>7
<1> HIDE DEF Good
<1>3. Nat \subseteq Good
  BY <1>1, <1>2, CountUp
<1>4. \A n \in Nat : Loop(The(n), step, x, n)
  BY <1>3 DEF Good
<1> HIDE DEF The
<1>5. ASSUME NEW n \in Nat PROVE The(n + 1)[n + 1] = step[The(n)[n]]
  <2> DEFINE a == The(n + 1)
             b == The(n)
             Same == {k \in Nat : k <= n => a[k] = b[k]}
  <2>1. /\ \A k \in 0..n + 1 : a[k] = IF k = 0 THEN x ELSE step[a[k - 1]]
        /\ \A k \in 0..n : b[k] = IF k = 0 THEN x ELSE step[b[k - 1]]
    BY <1>4 DEF Loop
  <2> HIDE DEF a, b
  <2>2. 0 \in Same
    BY <2>1
  <2>3. ASSUME NEW k \in Same \cap Nat PROVE k + 1 \in Same
    BY <2>1, <2>3
  <2> HIDE DEF Same
  <2>4. Nat \subseteq Same
    BY <2>2, <2>3, CountUp
  <2>5. a[n] = b[n]
    BY <2>4 DEF Same
  <2>6. a[n + 1] = step[a[n]]
    BY <2>1
  <2> QED
    BY <2>5, <2>6 DEF a, b
<1>6. The(0)[0] = x
  BY <1>4 DEF Loop
<1>7. Iterate(step, x, 0) = x
  BY <1>0, <1>6
<1>8. ASSUME NEW n \in Nat PROVE Iterate(step, x, n + 1) = step[Iterate(step, x, n)]
  <2>1. n + 1 \in Nat
    OBVIOUS
  <2>2. Iterate(step, x, n + 1) = The(n + 1)[n + 1] /\ Iterate(step, x, n) = The(n)[n]
    BY <1>0, <2>1
  <2> QED
    BY <1>5, <2>2
<1> QED
  BY <1>7, <1>8

\* A loop stays where its steps stay.
LEMMA IterateStays ==
  ASSUME NEW step, NEW S, NEW x \in S, \A y \in S : step[y] \in S
  PROVE  \A n \in Nat : Iterate(step, x, n) \in S
<1> DEFINE Good == {n \in Nat : Iterate(step, x, n) \in S}
<1>1. 0 \in Good
  BY Iterated
<1>2. ASSUME NEW n \in Good \cap Nat PROVE n + 1 \in Good
  <2>1. n \in Nat /\ n + 1 \in Nat /\ Iterate(step, x, n) \in S
    BY <1>2
  <2>2. Iterate(step, x, n + 1) = step[Iterate(step, x, n)]
    BY <2>1, Iterated
  <2> QED
    BY <2>1, <2>2
<1> HIDE DEF Good
<1>3. Nat \subseteq Good
  BY <1>1, <1>2, CountUp
<1> QED
  BY <1>3 DEF Good

LEMMA OptionsEndType ==
  ASSUME NEW spec, NEW T, NEW args \in Seq(T)
  PROVE  OptionsEnd(spec, args) \in 0..(Len(args) + 2)
<1> DEFINE S == 0..(Len(args) + 2)
           next(i) == CASE args[i] \in spec.bool -> i + 1
                        [] args[i] \in spec.value \ spec.bool -> i + 2
                        [] args[i] \notin spec.bool \union spec.value -> 0
           step == [i \in S |-> IF i \in DOMAIN args /\ args[i] \in Flags THEN next(i) ELSE i]
<1>1. 1 \in S /\ Len(args) \in Nat /\ DOMAIN args = 1..Len(args)
  OBVIOUS
<1>2. ASSUME NEW i \in S PROVE step[i] \in S
  <2>1. ASSUME i \in DOMAIN args PROVE next(i) \in S
    <3>1. i + 1 \in S /\ i + 2 \in S /\ 0 \in S
      BY <1>1, <2>1
    <3> HIDE DEF S
    <3>2. CASE args[i] \in spec.bool
      BY <3>1, <3>2
    <3>3. CASE args[i] \in spec.value \ spec.bool
      BY <3>1, <3>3
    <3>4. CASE args[i] \notin spec.bool \union spec.value
      BY <3>1, <3>4
    <3> QED
      BY <3>2, <3>3, <3>4
  <2> HIDE DEF next
  <2> QED
    BY <2>1
<1>3. OptionsEnd(spec, args) = Iterate(step, 1, Len(args))
  BY DEF OptionsEnd
<1> HIDE DEF step
<1> QED
  BY <1>1, <1>2, <1>3, IterateStays

\* Where the options end does not depend on words that are none.
LEMMA OptionsEndSame ==
  ASSUME NEW spec, NEW T, NEW args \in Seq(T), NEW U, NEW brgs \in Seq(U), Len(args) = Len(brgs),
         \A i \in 1..Len(args) : args[i] = brgs[i] \/ (args[i] \notin Flags /\ brgs[i] \notin Flags)
  PROVE  OptionsEnd(spec, args) = OptionsEnd(spec, brgs)
<1> DEFINE S == 0..(Len(args) + 2)
           next(a, i) == CASE a[i] \in spec.bool -> i + 1
                        [] a[i] \in spec.value \ spec.bool -> i + 2
                        [] a[i] \notin spec.bool \union spec.value -> 0
           step(a) == [i \in S |-> IF i \in DOMAIN a /\ a[i] \in Flags THEN next(a, i) ELSE i]
<1>1. DOMAIN args = DOMAIN brgs /\ DOMAIN args = 1..Len(args)
  OBVIOUS
<1>2. \A i \in DOMAIN args : args[i] = brgs[i] => next(args, i) = next(brgs, i)
  OBVIOUS
<1>3. step(args) = step(brgs)
  <2> HIDE DEF next
  <2> QED
    BY <1>1, <1>2
<1>4. OptionsEnd(spec, args) = Iterate(step(args), 1, Len(args))
  BY DEF OptionsEnd
<1>5. OptionsEnd(spec, brgs) = Iterate(step(brgs), 1, Len(brgs))
  BY DEF OptionsEnd
<1> HIDE DEF step
<1> QED
  BY <1>3, <1>4, <1>5

\* Words with no variable in what looks like an option.
Plainly(words) ==
  /\ words \in Seq(Word)
  /\ \A i \in DOMAIN words : words[i].kind \in {"safe", "var"} => words[i].text \notin Flags

\* A word keeps its text and is plain, or had a variable in it and is no option either way.
LEMMA ExpandKeeps ==
  ASSUME NEW words, Plainly(words), NEW safe, NEW value \in Tokens \ Flags
  PROVE  LET e == Expand(words, safe, value)
         IN /\ e \in Seq(Word) /\ Len(e) = Len(words) /\ DOMAIN e = DOMAIN words
            /\ \A i \in DOMAIN words :
                 \/ e[i] = words[i]
                 \/ Unresolved(words[i], safe) /\ e[i].text \notin Flags /\ words[i].text \notin Flags
            /\ \A i \in DOMAIN words : ~Unresolved(words[i], safe) => e[i] = words[i]
<1> DEFINE e == Expand(words, safe, value)
           new == [text |-> value, kind |-> "plain"]
<1>1. words \in Seq(Word) /\ DOMAIN words = 1..Len(words) /\ Len(words) \in Nat
  BY DEF Plainly
<1>2. new \in Word
  BY DEF Word
<1>3. e = [i \in 1..Len(words) |-> IF Unresolved(words[i], safe) THEN new ELSE words[i]]
  BY <1>1 DEF Expand, KnownWord
<1>4. \A i \in 1..Len(words) : words[i] \in Word
  BY <1>1
<1>5. e \in [1..Len(words) -> Word]
  BY <1>2, <1>3, <1>4
<1>6. e \in Seq(Word) /\ Len(e) = Len(words) /\ DOMAIN e = DOMAIN words
  BY <1>1, <1>5
<1>7. ASSUME NEW i \in DOMAIN words
      PROVE  \/ e[i] = words[i]
             \/ Unresolved(words[i], safe) /\ e[i].text \notin Flags /\ words[i].text \notin Flags
  <2>1. CASE ~Unresolved(words[i], safe)
    BY <1>1, <1>3, <2>1
  <2>2. CASE Unresolved(words[i], safe)
    <3>1. words[i].kind \in {"safe", "var"}
      BY <2>2 DEF Unresolved
    <3>2. words[i].text \notin Flags
      BY <3>1 DEF Plainly
    <3>3. e[i] = new
      BY <1>1, <1>3, <2>2
    <3>4. e[i].text = value
      BY <3>3
    <3> QED
      BY <2>2, <3>2, <3>4
  <2> QED
    BY <2>1, <2>2
<1>8. \A i \in DOMAIN words : ~Unresolved(words[i], safe) => e[i] = words[i]
  BY <1>1, <1>3
<1> QED
  BY <1>6, <1>7, <1>8

\* The words after one.
LEMMA After ==
  ASSUME NEW words \in Seq(Word), NEW i \in DOMAIN words
  PROVE  LET args == SubSeq(words, i + 1, Len(words))
         IN /\ args \in Seq(Word) /\ Len(args) = Len(words) - i /\ DOMAIN args = 1..(Len(words) - i)
            /\ \A j \in 1..(Len(words) - i) : args[j] = words[i + j]
            /\ Texts(args) \in Seq(Tokens) /\ Len(Texts(args)) = Len(words) - i
            /\ \A j \in 1..(Len(words) - i) : Texts(args)[j] = words[i + j].text
<1> DEFINE args == SubSeq(words, i + 1, Len(words))
           n == Len(words) - i
<1>1. Len(words) \in Nat /\ i \in 1..Len(words) /\ DOMAIN words = 1..Len(words)
  OBVIOUS
<1>2. args = [j \in 1..n |-> words[i + j]]
  BY <1>1
<1>3. n \in Nat /\ \A j \in 1..n : i + j \in 1..Len(words)
  BY <1>1
<1>4. \A j \in 1..n : words[i + j] \in Word
  BY <1>1, <1>3
<1> HIDE DEF args, n
<1>5. args \in [1..n -> Word]
  BY <1>2, <1>4
<1>6. args \in Seq(Word) /\ Len(args) = n /\ DOMAIN args = 1..n
  BY <1>3, <1>5
<1>7. Texts(args) = [j \in 1..n |-> args[j].text]
  BY <1>6 DEF Texts
<1>8. \A j \in 1..n : args[j].text \in Tokens
  BY <1>5 DEF Word
<1>9. Texts(args) \in [1..n -> Tokens]
  BY <1>7, <1>8
<1>10. Texts(args) \in Seq(Tokens) /\ Len(Texts(args)) = n
  BY <1>3, <1>9
<1> QED
  BY <1>2, <1>6, <1>7, <1>10 DEF args, n

\* The arguments of a word are read alike, whatever their variables hold.
ArgsAlike(words, e, i) ==
  LET args == SubSeq(words, i + 1, Len(words))
      brgs == SubSeq(e, i + 1, Len(e))
      n == Len(words) - i
  IN /\ n \in Nat /\ Len(args) = n /\ Len(brgs) = n /\ DOMAIN args = 1..n /\ DOMAIN brgs = 1..n
     /\ \A j \in 1..n : i + j \in DOMAIN words /\ args[j] = words[i + j] /\ brgs[j] = e[i + j]
     /\ \A spec : /\ OptionsEnd(spec, Texts(args)) \in Nat
                  /\ OptionsEnd(spec, Texts(brgs)) = OptionsEnd(spec, Texts(args))

LEMMA ArgsKept ==
  ASSUME NEW words, Plainly(words), NEW safe, NEW value \in Tokens \ Flags, NEW i \in DOMAIN words
  PROVE  ArgsAlike(words, Expand(words, safe, value), i)
<1> DEFINE e == Expand(words, safe, value)
           args == SubSeq(words, i + 1, Len(words))
           brgs == SubSeq(e, i + 1, Len(e))
           n == Len(words) - i
<1>1. words \in Seq(Word) /\ Len(words) \in Nat /\ DOMAIN words = 1..Len(words) /\ n \in Nat
  BY DEF Plainly
<1>2. /\ e \in Seq(Word) /\ Len(e) = Len(words) /\ DOMAIN e = DOMAIN words
      /\ \A j \in DOMAIN words :
           \/ e[j] = words[j]
           \/ Unresolved(words[j], safe) /\ e[j].text \notin Flags /\ words[j].text \notin Flags
  BY ExpandKeeps
<1> HIDE DEF e
<1>3. /\ Len(args) = n /\ DOMAIN args = 1..n
      /\ \A j \in 1..n : args[j] = words[i + j]
      /\ Texts(args) \in Seq(Tokens) /\ Len(Texts(args)) = n
      /\ \A j \in 1..n : Texts(args)[j] = words[i + j].text
  BY <1>1, After
<1>4. /\ Len(brgs) = n /\ DOMAIN brgs = 1..n
      /\ \A j \in 1..n : brgs[j] = e[i + j]
      /\ Texts(brgs) \in Seq(Tokens) /\ Len(Texts(brgs)) = n
      /\ \A j \in 1..n : Texts(brgs)[j] = e[i + j].text
  <2>1. e \in Seq(Word) /\ i \in DOMAIN e /\ Len(e) - i = n
    BY <1>1, <1>2
  <2> HIDE DEF n
  <2> QED
    BY <2>1, After
<1>5. \A j \in 1..n : i + j \in DOMAIN words
  BY <1>1
<1> HIDE DEF args, brgs, n
<1>6. \A j \in 1..n : \/ Texts(args)[j] = Texts(brgs)[j]
                      \/ Texts(args)[j] \notin Flags /\ Texts(brgs)[j] \notin Flags
  BY <1>2, <1>3, <1>4, <1>5
<1>7. ASSUME NEW spec
      PROVE  OptionsEnd(spec, Texts(args)) \in Nat /\ OptionsEnd(spec, Texts(brgs)) = OptionsEnd(spec, Texts(args))
  <2>1. \A a \in Seq(Tokens), b \in Seq(Tokens) :
          /\ Len(a) = Len(b)
          /\ \A j \in 1..Len(a) : a[j] = b[j] \/ (a[j] \notin Flags /\ b[j] \notin Flags)
          => OptionsEnd(spec, a) = OptionsEnd(spec, b)
    BY OptionsEndSame
  <2>2. OptionsEnd(spec, Texts(args)) \in 0..(n + 2)
    BY <1>3, OptionsEndType
  <2> QED
    BY <1>1, <1>3, <1>4, <1>6, <2>1, <2>2
<1> QED
  BY <1>1, <1>3, <1>4, <1>5, <1>7 DEF ArgsAlike, e, args, brgs, n

\* Where a wrapper's command starts, in its arguments: 0 if it cannot be told.
EndOf(name, args) == IF name = Env THEN 1 ELSE OptionsEnd(Wrappers[name], Texts(args))
StartOf(name, args) == IF name = Env THEN 1 ELSE EndOf(name, args) + Wrappers[name].positionals

LEMMA StartIsPositive ==
  ASSUME NEW name \in DOMAIN Wrappers \union {Env}, NEW args, OptionsEnd(Wrappers[name], Texts(args)) \in Nat
  PROVE  /\ EndOf(name, args) \in Nat /\ StartOf(name, args) \in Nat
         /\ EndOf(name, args) # 0 => StartOf(name, args) # 0
<1>1. CASE name = Env
  BY <1>1 DEF EndOf, StartOf
<1>2. CASE name # Env
  <2>1. name \in DOMAIN Wrappers /\ Wrappers[name].positionals \in Nat
    BY <1>2, AdapterAssumption
  <2> QED
    BY <1>2, <2>1 DEF EndOf, StartOf
<1> QED
  BY <1>1, <1>2

\* What the guard takes a wrapper to wrap is what the wrapper runs, and has a name.
LEMMA WrappedIsRun ==
  ASSUME NEW words, Plainly(words), NEW safe, NEW value \in Tokens \ Flags,
         NEW i \in DOMAIN words, ~Unresolved(words[i], safe), Wrapped(words, i, safe) # 0
  PROVE  /\ Runs(Expand(words, safe, value), i) = Wrapped(words, i, safe)
         /\ Wrapped(words, i, safe) \in DOMAIN words
         /\ ~Unresolved(words[Wrapped(words, i, safe)], safe)
<1> DEFINE e == Expand(words, safe, value)
           args == SubSeq(words, i + 1, Len(words))
           brgs == SubSeq(e, i + 1, Len(e))
           name == words[i].text
           n == Len(words) - i
           end == EndOf(name, args)
           start == StartOf(name, args)
<1>1. i \in Nat /\ i # 0
  BY DEF Plainly
<1>2. e[i] = words[i]
  BY ExpandKeeps
<1>3. /\ n \in Nat /\ Len(args) = n /\ Len(brgs) = n /\ DOMAIN args = 1..n /\ DOMAIN brgs = 1..n
      /\ \A j \in 1..n : i + j \in DOMAIN words /\ args[j] = words[i + j] /\ brgs[j] = e[i + j]
      /\ \A spec : /\ OptionsEnd(spec, Texts(args)) \in Nat
                   /\ OptionsEnd(spec, Texts(brgs)) = OptionsEnd(spec, Texts(args))
  <2>1. ArgsAlike(words, e, i)
    BY ArgsKept
  <2> QED
    BY <2>1 DEF ArgsAlike
<1>4. Wrapped(words, i, safe) =
        IF name \notin DOMAIN Wrappers \union {Env} THEN i
        ELSE IF name = Env /\ \E w \in Range(args) : w.text \in Assignments \union Flags THEN 0
        ELSE IF end = 0 THEN 0
        ELSE IF start > Len(args) THEN i
        ELSE IF RefusedAsName(args[start], safe) THEN 0
        ELSE i + start
  BY DEF Wrapped, EndOf, StartOf
<1>5. Runs(e, i) = IF name \notin DOMAIN Wrappers \union {Env} \/ end = 0 \/ start > n THEN i ELSE i + start
  <2>1. end = EndOf(name, brgs) /\ start = StartOf(name, brgs)
    BY <1>3 DEF EndOf, StartOf
  <2>2. Runs(e, i) = IF name \notin DOMAIN Wrappers \union {Env} \/ EndOf(name, brgs) = 0
                        \/ StartOf(name, brgs) > Len(brgs) THEN i ELSE i + StartOf(name, brgs)
    BY <1>2 DEF Runs, EndOf, StartOf
  <2> QED
    BY <1>3, <2>1, <2>2
<1>6. name \in DOMAIN Wrappers \union {Env} => end \in Nat /\ start \in Nat /\ (end # 0 => start # 0)
  BY <1>3, StartIsPositive
<1> HIDE DEF e, args, brgs, name, n, end, start
<1>7. CASE name \notin DOMAIN Wrappers \union {Env}
  BY <1>4, <1>5, <1>7 DEF e
<1>8. CASE name \in DOMAIN Wrappers \union {Env} /\ start > n
  BY <1>3, <1>4, <1>5, <1>8 DEF e
<1>9. CASE name \in DOMAIN Wrappers \union {Env} /\ ~(start > n)
  <2>1. end # 0 /\ ~RefusedAsName(args[start], safe) /\ Wrapped(words, i, safe) = i + start
    BY <1>3, <1>4, <1>9
  <2>2. start \in 1..n
    BY <1>3, <1>6, <1>9, <2>1
  <2>3. args[start] = words[i + start] /\ i + start \in DOMAIN words
    BY <1>3, <2>2
  <2>4. ~Unresolved(words[i + start], safe)
    BY <2>1, <2>3 DEF RefusedAsName
  <2>5. Runs(e, i) = i + start
    BY <1>5, <1>9, <2>1
  <2> QED
    BY <2>1, <2>3, <2>4, <2>5 DEF e
<1> QED
  BY <1>7, <1>8, <1>9

\* The step of the guard's loop over wrappers, and that of what runs.
Guarded(words, safe) == [i \in 0..Len(words) |-> IF i = 0 THEN 0 ELSE Wrapped(words, i, safe)]
Running(words) == [i \in DOMAIN words |-> Runs(words, i)]

\* As long as the guard can tell, whatever agrees with it on one wrapper agrees on a chain.
LEMMA ChainFollows ==
  ASSUME NEW words, Plainly(words), words # <<>>, NEW safe, NEW value \in Tokens \ Flags,
         ~Unresolved(words[1], safe), NEW B,
         \A i \in DOMAIN words :
           ~Unresolved(words[i], safe) /\ Wrapped(words, i, safe) # 0 => B[i] = Wrapped(words, i, safe)
  PROVE  \A n \in Nat :
           LET at == Iterate(Guarded(words, safe), 1, n)
           IN at = 0 \/ (at \in DOMAIN words /\ ~Unresolved(words[at], safe) /\ Iterate(B, 1, n) = at)
<1> DEFINE A == Guarded(words, safe)
           Same(n) == LET at == Iterate(A, 1, n)
                      IN at = 0 \/ (at \in DOMAIN words /\ ~Unresolved(words[at], safe) /\ Iterate(B, 1, n) = at)
           Good == {n \in Nat : Same(n)}
<1>1. words \in Seq(Word) /\ Len(words) \in Nat /\ DOMAIN words = 1..Len(words) /\ 1 \in DOMAIN words
  BY DEF Plainly
<1>2. A[0] = 0 /\ \A i \in DOMAIN words : A[i] = Wrapped(words, i, safe)
  BY <1>1 DEF Guarded
<1>3. ASSUME NEW i \in DOMAIN words, ~Unresolved(words[i], safe), A[i] # 0
      PROVE  A[i] \in DOMAIN words /\ ~Unresolved(words[A[i]], safe) /\ B[i] = A[i]
  BY <1>2, <1>3, WrappedIsRun
<1> HIDE DEF A
<1>4. /\ Iterate(A, 1, 0) = 1 /\ \A n \in Nat : Iterate(A, 1, n + 1) = A[Iterate(A, 1, n)]
      /\ Iterate(B, 1, 0) = 1 /\ \A n \in Nat : Iterate(B, 1, n + 1) = B[Iterate(B, 1, n)]
  BY ONLY Iterated, Zenon
<1>5. 0 \in Good
  BY <1>1, <1>4
<1>6. ASSUME NEW n \in Good \cap Nat PROVE n + 1 \in Good
  <2> DEFINE at == Iterate(A, 1, n)
  <2>1. /\ n \in Nat /\ n + 1 \in Nat /\ Iterate(A, 1, n + 1) = A[at] /\ Iterate(B, 1, n + 1) = B[Iterate(B, 1, n)]
        /\ at = 0 \/ (at \in DOMAIN words /\ ~Unresolved(words[at], safe) /\ Iterate(B, 1, n) = at)
    BY <1>4, <1>6
  <2> HIDE DEF at
  <2>2. CASE at = 0 \/ A[at] = 0
    BY <1>2, <2>1, <2>2
  <2>3. CASE at # 0 /\ A[at] # 0
    BY <1>3, <2>1, <2>3
  <2> QED
    BY <2>2, <2>3
<1> HIDE DEF Good
<1>7. Nat \subseteq Good
  BY <1>5, <1>6, CountUp
<1> QED
  BY <1>7 DEF Good, A

\* The chain of wrappers that the guard follows is the one that runs.
LEMMA ChainIsRun ==
  ASSUME NEW words, Plainly(words), words # <<>>, NEW safe, NEW value \in Tokens \ Flags,
         ~Unresolved(words[1], safe)
  PROVE  \A n \in Nat :
           LET at == Iterate(Guarded(words, safe), 1, n)
           IN \/ at = 0
              \/ /\ at \in DOMAIN words /\ ~Unresolved(words[at], safe)
                 /\ Iterate(Running(Expand(words, safe, value)), 1, n) = at
<1> DEFINE e == Expand(words, safe, value)
<1>1. DOMAIN e = DOMAIN words
  BY ExpandKeeps
<1>2. ASSUME NEW i \in DOMAIN words, ~Unresolved(words[i], safe), Wrapped(words, i, safe) # 0
      PROVE  Running(e)[i] = Wrapped(words, i, safe)
  BY <1>1, <1>2, WrappedIsRun DEF Running
<1> HIDE DEF e
<1> QED
  BY <1>2, ChainFollows DEF e

\* From a word that has a name on: the name is kept, and so is every option after it.
LEMMA SuffixKept ==
  ASSUME NEW words, Plainly(words), NEW safe, NEW value \in Tokens \ Flags,
         NEW k \in DOMAIN words, ~Unresolved(words[k], safe)
  PROVE  LET a == SubSeq(words, k, Len(words))
             b == SubSeq(Expand(words, safe, value), k, Len(words))
         IN /\ a # <<>> /\ b # <<>> /\ b[1] = a[1]
            /\ PrintFlag \in Range(Texts(Tail(a))) => /\ PrintFlag \in Range(Texts(Tail(b)))
                                                      /\ PrintFlag \in Range(Texts(b))
<1> DEFINE e == Expand(words, safe, value)
           n == Len(words)
           a == SubSeq(words, k, n)
           b == SubSeq(e, k, n)
           m == n - k + 1
<1>1. words \in Seq(Word) /\ n \in Nat /\ DOMAIN words = 1..n
  BY DEF Plainly
<1>2. /\ e \in Seq(Word) /\ Len(e) = n /\ DOMAIN e = 1..n
      /\ \A i \in DOMAIN words :
           \/ e[i] = words[i]
           \/ Unresolved(words[i], safe) /\ e[i].text \notin Flags /\ words[i].text \notin Flags
      /\ e[k] = words[k]
  BY <1>1, ExpandKeeps
<1>3. m \in Nat /\ 1 \in 1..m /\ k \in Nat /\ \A j \in 1..m : k + j - 1 \in 1..n
  BY <1>1
<1> HIDE DEF e
<1>4. a = [j \in 1..m |-> words[k + j - 1]] /\ b = [j \in 1..m |-> e[k + j - 1]]
  <2>1. n \in Nat /\ k \in 1..n
    BY <1>1
  <2>2. a = [j \in 1..m |-> words[k + j - 1]]
    BY <2>1
  <2>3. b = [j \in 1..m |-> e[k + j - 1]]
    BY <2>1
  <2> QED
    BY <2>2, <2>3
<1> HIDE DEF a, b, n, m
<1>5. a \in Seq(Word) /\ Len(a) = m /\ DOMAIN a = 1..m /\ \A j \in 1..m : a[j] = words[k + j - 1]
  <2>1. \A j \in 1..m : words[k + j - 1] \in Word
    BY <1>1, <1>3
  <2>2. a \in [1..m -> Word]
    BY <1>4, <2>1
  <2> QED
    BY <1>3, <1>4, <2>2
<1>6. b \in Seq(Word) /\ Len(b) = m /\ DOMAIN b = 1..m /\ \A j \in 1..m : b[j] = e[k + j - 1]
  <2>1. \A j \in 1..m : e[k + j - 1] \in Word
    BY <1>2, <1>3
  <2>2. b \in [1..m -> Word]
    BY <1>4, <2>1
  <2> QED
    BY <1>3, <1>4, <2>2
<1>7. a # <<>> /\ b # <<>> /\ b[1] = a[1]
  BY <1>2, <1>3, <1>5, <1>6
<1>8. ASSUME PrintFlag \in Range(Texts(Tail(a)))
      PROVE  PrintFlag \in Range(Texts(Tail(b))) /\ PrintFlag \in Range(Texts(b))
  <2>1. /\ Tail(a) \in Seq(Word) /\ Len(Tail(a)) = Len(a) - 1
        /\ \A j \in 1..Len(Tail(a)) : Tail(a)[j] = a[j + 1]
    BY <1>5, <1>7, HeadTailProperties
  <2>2. /\ Tail(b) \in Seq(Word) /\ Len(Tail(b)) = Len(b) - 1
        /\ \A j \in 1..Len(Tail(b)) : Tail(b)[j] = b[j + 1]
    BY <1>6, <1>7, HeadTailProperties
  <2>3. DOMAIN Tail(a) = 1..(m - 1) /\ DOMAIN Tail(b) = 1..(m - 1)
    BY <1>3, <1>5, <1>6, <2>1, <2>2
  <2>4. PICK j \in 1..(m - 1) : Tail(a)[j].text = PrintFlag
    BY <1>8, <2>3 DEF Range, Texts
  <2>5. j + 1 \in 1..m /\ k + (j + 1) - 1 \in 1..n
    <3>1. j + 1 \in 1..m
      BY <1>3, <2>4
    <3> QED
      BY <1>3, <3>1
  <2>6. Tail(a)[j] = a[j + 1] /\ Tail(b)[j] = b[j + 1]
    BY <1>3, <1>5, <1>6, <2>1, <2>2, <2>4
  <2>7. b[j + 1] = a[j + 1]
    <3>1. words[k + (j + 1) - 1].text \in Flags
      BY <1>5, <2>4, <2>5, <2>6, AdapterAssumption
    <3>2. e[k + (j + 1) - 1] = words[k + (j + 1) - 1]
      BY <1>1, <1>2, <2>5, <3>1
    <3> QED
      BY <1>5, <1>6, <2>5, <3>2
  <2> QED
    BY <1>6, <2>3, <2>4, <2>5, <2>6, <2>7 DEF Range, Texts
<1> QED
  BY <1>7, <1>8 DEF a, b, n, e

\* What a command that is not refused is judged by.
LEMMA ChainOf ==
  ASSUME NEW c, Proper(c), NEW safe, ~Refused(c, safe)
  PROVE  /\ Plainly(c.words) /\ c.words # <<>> /\ ~Unresolved(c.words[1], safe)
         /\ Unwrap(c.words, safe, MaxWrapperDepth) # Opaque
         /\ Binary(c, safe) \notin AlwaysRefuse
         /\ Binary(c, safe) \in Shells => PrintFlag \in Range(Texts(Tail(Unwrap(c.words, safe, MaxWrapperDepth))))
<1>1. Plainly(c.words) /\ c.words # <<>>
  BY DEF Proper, Plainly
<1> QED
  BY <1>1 DEF Refused, RefusedAsName, ScanShell, Binary

\* A command the guard does not refuse, and whose chain it has followed to the end, runs
\* what it was judged by.
LEMMA CommandIsNamed ==
  ASSUME NEW c, Proper(c), NEW safe, ~Refused(c, safe), Followed(c, safe), NEW value \in Tokens \ Flags
  PROVE  LET program == Program(Expand(c.words, safe, value))
         IN /\ program[1].text = Binary(c, safe)
            /\ program[1].text \notin AlwaysRefuse
            /\ ReadsSource(program) => PrintFlag \in Range(Texts(program))
<1> DEFINE words == c.words
           e == Expand(words, safe, value)
           n == Len(words)
           k == Iterate(Guarded(words, safe), 1, n)
           chain == Unwrap(words, safe, MaxWrapperDepth)
           program == Program(e)
<1>1. /\ Plainly(words) /\ words # <<>> /\ ~Unresolved(words[1], safe)
      /\ chain # Opaque /\ Binary(c, safe) \notin AlwaysRefuse
      /\ Binary(c, safe) \in Shells => PrintFlag \in Range(Texts(Tail(chain)))
  BY ChainOf
<1>2. n \in Nat /\ Len(e) = n
  BY <1>1, ExpandKeeps DEF Plainly
<1>3. chain = IF k = 0 THEN Opaque ELSE SubSeq(words, k, n)
  BY DEF Followed, Unwrap, Guarded
<1>4. k \in DOMAIN words /\ ~Unresolved(words[k], safe) /\ Iterate(Running(e), 1, n) = k /\ k # 0
  BY <1>1, <1>2, <1>3, ChainIsRun
<1>5. program = SubSeq(e, k, n)
  BY <1>2, <1>4 DEF Program, Running
<1>6. /\ program[1] = chain[1]
      /\ PrintFlag \in Range(Texts(Tail(chain))) => PrintFlag \in Range(Texts(program))
  <2>1. chain = SubSeq(words, k, Len(words))
    BY <1>3, <1>4
  <2>2. program = SubSeq(Expand(words, safe, value), k, Len(words))
    BY <1>5
  <2> HIDE DEF k, program, chain, words
  <2>3. PICK a, b : a = SubSeq(words, k, Len(words)) /\ b = SubSeq(Expand(words, safe, value), k, Len(words))
    OBVIOUS
  <2>4. /\ b[1] = a[1]
        /\ PrintFlag \in Range(Texts(Tail(a))) => PrintFlag \in Range(Texts(b))
    BY <1>1, <1>4, <2>3, SuffixKept
  <2> QED
    BY <2>1, <2>2, <2>3, <2>4
<1>7. Binary(c, safe) = chain[1].text
  BY DEF Binary
<1>8. ReadsSource(program) => program[1].text \in Shells
  BY DEF ReadsSource
<1> HIDE DEF chain, program
<1> QED
  BY <1>1, <1>6, <1>7, <1>8 DEF program

\* What is asked never changes, and its commands are proper ones; nor does who asks.
LineInv ==
  /\ line \in Seq(Command) /\ \A i \in DOMAIN line : Proper(line[i])
  /\ Principal(who)

LEMMA PlainIsProper ==
  ASSUME NEW n \in Nat \ {0}, NEW S, S \subseteq Words \union Chained, NEW words \in [1..n -> S]
  PROVE  /\ <<Plain(words)>> \in Seq(Command)
         /\ \A i \in DOMAIN <<Plain(words)>> : Proper(<<Plain(words)>>[i])
<1>1. S \subseteq Word
  BY WordsAssumption
<1>2. words \in Seq(Word) /\ Len(words) = n /\ words # <<>> /\ DOMAIN words = 1..n
  BY <1>1
<1>3. ASSUME NEW w \in S, w.kind \in {"safe", "var"} PROVE w.text \notin Flags
  BY <1>3, WordsAssumption DEF Words, Chained, W
<1>4. Plain(words) \in Command /\ Plain(words).words = words
  BY <1>2 DEF Plain, Command
<1>5. Proper(Plain(words))
  BY <1>2, <1>3, <1>4 DEF Proper
<1> QED
  BY <1>4, <1>5

\* Somebody who is allowed nothing.
LEMMA NobodyIsPrincipal == Principal(Asker(<<>>, <<>>, <<>>))
<1> DEFINE nobody == Asker(<<>>, <<>>, <<>>)
           empty == [deny |-> <<>>, approve |-> <<>>, allow |-> <<>>]
<1>1. nobody.policy = Compile([t \in {Bash} |-> empty]) /\ nobody.limits = Limits(<<>>, 0) /\ nobody.spent = 0
  BY DEF Asker
<1>2. nobody.limits.weights = <<>> /\ nobody.limits.perHour = 0
  BY <1>1 DEF Limits
<1> HIDE DEF nobody
<1>3. CaseInsensitive(<<>>) = <<>>
  BY DEF CaseInsensitive
<1>4. CompileGrant(empty) = empty /\ empty \in Grant
  BY <1>3 DEF CompileGrant, Grant
<1>5. DOMAIN nobody.policy = {Bash} /\ nobody.policy[Bash] = CompileGrant(empty)
  <2> HIDE DEF empty
  <2> QED
    BY <1>1 DEF Compile
<1>6. nobody.limits.weights \in Seq([on : SUBSET Actions, weight : Nat])
  BY <1>2
<1>7. Principal(nobody)
  BY <1>1, <1>2, <1>4, <1>5, <1>6 DEF Principal
<1> QED
  BY <1>7 DEF nobody

LEMMA LineInvInit == MCInit => LineInv
<1> SUFFICES ASSUME MCInit PROVE LineInv
  OBVIOUS
<1>1. Principal(who)
  BY NobodyIsPrincipal, AsksAssumption DEF MCInit, Idle, ExecInit
<1>2. CASE line = <<>>
  BY <1>1, <1>2 DEF LineInv
<1>3. CASE line \in Lines
  BY <1>1, <1>3, LinesAssumption DEF LineInv
<1>4. CASE \E n \in 1..3 : \E words \in [1..n -> Words] : line = <<Plain(words)>>
  <2>1. PICK n \in 1..3 : \E words \in [1..n -> Words] : line = <<Plain(words)>>
    BY <1>4
  <2>2. PICK words \in [1..n -> Words] : line = <<Plain(words)>>
    BY <2>1
  <2>3. n \in Nat \ {0} /\ Words \subseteq Words \union Chained
    OBVIOUS
  <2>4. <<Plain(words)>> \in Seq(Command) /\ \A i \in DOMAIN <<Plain(words)>> : Proper(<<Plain(words)>>[i])
    BY <2>3, PlainIsProper
  <2> QED
    BY <1>1, <2>2, <2>4 DEF LineInv
<1>5. CASE \E words \in [1..4 -> Chained] : line = <<Plain(words)>>
  <2>1. PICK words \in [1..4 -> Chained] : line = <<Plain(words)>>
    BY <1>5
  <2>2. 4 \in Nat \ {0} /\ Chained \subseteq Words \union Chained
    OBVIOUS
  <2>3. <<Plain(words)>> \in Seq(Command) /\ \A i \in DOMAIN <<Plain(words)>> : Proper(<<Plain(words)>>[i])
    BY <2>2, PlainIsProper
  <2> QED
    BY <1>1, <2>1, <2>3 DEF LineInv
<1> QED
  BY <1>2, <1>3, <1>4, <1>5 DEF MCInit, Idle, ExecInit

LEMMA LineInvNext == LineInv /\ [MCNext]_Everything => LineInv'
<1> SUFFICES ASSUME LineInv, [MCNext]_Everything PROVE line' = line /\ who' = who
  BY DEF LineInv
<1>1. CASE UNCHANGED execVars
  BY <1>1 DEF execVars
<1>2. CASE ExecNext
  BY <1>2 DEF ExecNext, Post, Answer, Expire, Die, Hear, GiveUp, Run, Pass, Done, execVars
<1> QED
  BY <1>1, <1>2 DEF MCNext, Everything

LEMMA ProperIsNamed == LineInv => NamesWhatRuns
<1> SUFFICES ASSUME LineInv, Mapped, NEW i \in DOMAIN line, NEW value \in Tokens \ Flags, Followed(line[i], SafeHere)
             PROVE  LET program == RunsOf(i, value)
                    IN /\ program[1].text = MapBashCommand(line)[i].action
                       /\ program[1].text \notin AlwaysRefuse
                       /\ ReadsSource(program) => PrintFlag \in Range(Texts(program))
  BY DEF NamesWhatRuns
<1>1. Proper(line[i]) /\ ~Refused(line[i], SafeHere)
  BY DEF LineInv, Mapped, Undecidable, SafeHere
<1>2. MapBashCommand(line)[i].action = Binary(line[i], SafeHere)
  BY DEF MapBashCommand, SafeHere
<1> QED
  BY <1>1, <1>2, CommandIsNamed DEF RunsOf

\* Of a line the guard does not refuse, every command ends in the program its action names,
\* whatever its variables hold and however many words it has, and that program is no shell
\* reading source (adapters/bash.ts: resolveCommand(), unwrapAt(), scanShell()).
THEOREM WhatRunsIsNamed == MCSpec => []NamesWhatRuns
<1>1. LineInv /\ [MCNext]_Everything => LineInv'
  BY LineInvNext
<1> QED
  BY LineInvInit, <1>1, ProperIsNamed, PTL DEF MCSpec
--------------------------------------------------------------------------------
(* An argument nobody knows yet proves nothing. *)

\* A value that no wrapper takes for one of its own words, and a line on which a variable
\* is as safe as on the one asked about or more so.
LEMMA WrappedIsKept ==
  ASSUME NEW words, Plainly(words), NEW safe \in BOOLEAN, NEW safer \in BOOLEAN, safe => safer,
         NEW value \in Tokens \ Flags, Env \in Range(Texts(words)) => value \notin Assignments,
         NEW i \in DOMAIN words, ~Unresolved(words[i], safe), Wrapped(words, i, safe) # 0
  PROVE  Wrapped(Expand(words, safe, value), i, safer) = Wrapped(words, i, safe)
<1> DEFINE e == Expand(words, safe, value)
           args == SubSeq(words, i + 1, Len(words))
           brgs == SubSeq(e, i + 1, Len(e))
           name == words[i].text
           n == Len(words) - i
           end == EndOf(name, args)
           start == StartOf(name, args)
<1>1. i \in Nat /\ i # 0
  BY DEF Plainly
<1>2. /\ e[i] = words[i]
      /\ \A j \in DOMAIN words : Unresolved(words[j], safe) \/ e[j] = words[j]
      /\ \A j \in DOMAIN words : Unresolved(words[j], safe) => e[j] = [text |-> value, kind |-> "plain"]
  BY DEF Expand, KnownWord
<1>3. /\ n \in Nat /\ Len(args) = n /\ Len(brgs) = n /\ DOMAIN args = 1..n /\ DOMAIN brgs = 1..n
      /\ \A j \in 1..n : i + j \in DOMAIN words /\ args[j] = words[i + j] /\ brgs[j] = e[i + j]
      /\ \A spec : /\ OptionsEnd(spec, Texts(args)) \in Nat
                   /\ OptionsEnd(spec, Texts(brgs)) = OptionsEnd(spec, Texts(args))
  <2>1. ArgsAlike(words, e, i)
    BY ArgsKept
  <2> QED
    BY <2>1 DEF ArgsAlike
<1>4. Wrapped(words, i, safe) =
        IF name \notin DOMAIN Wrappers \union {Env} THEN i
        ELSE IF name = Env /\ \E w \in Range(args) : w.text \in Assignments \union Flags THEN 0
        ELSE IF end = 0 THEN 0
        ELSE IF start > Len(args) THEN i
        ELSE IF RefusedAsName(args[start], safe) THEN 0
        ELSE i + start
  BY DEF Wrapped, EndOf, StartOf
<1>5. Wrapped(e, i, safer) =
        IF name \notin DOMAIN Wrappers \union {Env} THEN i
        ELSE IF name = Env /\ \E w \in Range(brgs) : w.text \in Assignments \union Flags THEN 0
        ELSE IF end = 0 THEN 0
        ELSE IF start > Len(brgs) THEN i
        ELSE IF RefusedAsName(brgs[start], safer) THEN 0
        ELSE i + start
  <2>1. end = EndOf(name, brgs) /\ start = StartOf(name, brgs)
    BY <1>3 DEF EndOf, StartOf
  <2>2. Wrapped(e, i, safer) =
          IF name \notin DOMAIN Wrappers \union {Env} THEN i
          ELSE IF name = Env /\ \E w \in Range(brgs) : w.text \in Assignments \union Flags THEN 0
          ELSE IF EndOf(name, brgs) = 0 THEN 0
          ELSE IF StartOf(name, brgs) > Len(brgs) THEN i
          ELSE IF RefusedAsName(brgs[StartOf(name, brgs)], safer) THEN 0
          ELSE i + StartOf(name, brgs)
    BY <1>2 DEF Wrapped, EndOf, StartOf
  <2> QED
    BY <2>1, <2>2
<1>6. name \in DOMAIN Wrappers \union {Env} => end \in Nat /\ start \in Nat /\ (end # 0 => start # 0)
  BY <1>3, StartIsPositive
<1>7. name = Env => Env \in Range(Texts(words))
  BY DEF Range, Texts
<1> HIDE DEF e, args, brgs, name, n, end, start
<1>8. ASSUME name = Env, NEW w \in Range(brgs), w.text \in Assignments \union Flags
      PROVE  \E v \in Range(args) : v.text \in Assignments \union Flags
  <2>1. PICK j \in 1..n : w = brgs[j]
    BY <1>3 DEF Range
  <2>2. w = e[i + j] /\ args[j] = words[i + j] /\ i + j \in DOMAIN words /\ args[j] \in Range(args)
    BY <1>3, <2>1 DEF Range
  <2>3. e[i + j] = words[i + j]
    <3>1. value \notin Assignments \union Flags
      BY <1>7, <1>8
    <3> QED
      BY <1>2, <1>8, <2>2, <3>1
  <2> QED
    BY <1>8, <2>2, <2>3
<1>9. CASE name \notin DOMAIN Wrappers \union {Env}
  BY <1>4, <1>5, <1>9 DEF e
<1>10. CASE name \in DOMAIN Wrappers \union {Env}
  <2>1. /\ ~(name = Env /\ \E w \in Range(args) : w.text \in Assignments \union Flags)
        /\ end # 0
    BY <1>4, <1>10
  <2>2. ~(name = Env /\ \E w \in Range(brgs) : w.text \in Assignments \union Flags)
    BY <1>8, <2>1
  <2>3. CASE start > n
    BY <1>3, <1>4, <1>5, <1>10, <2>1, <2>2, <2>3 DEF e
  <2>4. CASE ~(start > n)
    <3>1. ~RefusedAsName(args[start], safe) /\ Wrapped(words, i, safe) = i + start
      BY <1>3, <1>4, <1>10, <2>1, <2>4
    <3>2. start \in 1..n
      BY <1>3, <1>6, <1>10, <2>1, <2>4
    <3>3. args[start] = words[i + start] /\ brgs[start] = e[i + start] /\ i + start \in DOMAIN words
      BY <1>3, <3>2
    <3>4. ~Unresolved(words[i + start], safe)
      BY <3>1, <3>3 DEF RefusedAsName
    <3>5. brgs[start] = args[start]
      BY <1>2, <3>3, <3>4
    <3>6. ~RefusedAsName(brgs[start], safer)
      BY <3>1, <3>5 DEF RefusedAsName, Unresolved
    <3> QED
      BY <1>3, <1>5, <1>10, <2>1, <2>2, <2>4, <3>1, <3>6 DEF e
  <2> QED
    BY <2>3, <2>4
<1> QED
  BY <1>9, <1>10

\* The chain a command was judged by is that of the command with its variables known.
LEMMA ChainIsKept ==
  ASSUME NEW c, Proper(c), NEW safe \in BOOLEAN, ~Refused(c, safe), NEW safer \in BOOLEAN, safe => safer,
         NEW value \in Values(c)
  PROVE  LET chain == Unwrap(c.words, safe, MaxWrapperDepth)
             kept == Unwrap(Expand(c.words, safe, value), safer, MaxWrapperDepth)
         IN /\ kept # Opaque /\ kept[1] = chain[1]
            /\ PrintFlag \in Range(Texts(Tail(chain))) => PrintFlag \in Range(Texts(Tail(kept)))
<1> DEFINE words == c.words
           e == Expand(words, safe, value)
           n == Len(words)
           k == Iterate(Guarded(words, safe), 1, MaxWrapperDepth)
           chain == Unwrap(words, safe, MaxWrapperDepth)
           kept == Unwrap(e, safer, MaxWrapperDepth)
<1>0. value \in Tokens \ Flags /\ (Env \in Range(Texts(words)) => value \notin Assignments)
  BY DEF Values
<1>1. Plainly(words) /\ words # <<>> /\ ~Unresolved(words[1], safe) /\ chain # Opaque
  BY ChainOf
<1>2. n \in Nat /\ DOMAIN words = 1..n /\ Len(e) = n /\ DOMAIN e = DOMAIN words
  BY <1>0, <1>1, ExpandKeeps DEF Plainly
<1>3. chain = IF k = 0 THEN Opaque ELSE SubSeq(words, k, n)
  BY DEF Unwrap, Guarded
<1>4. kept = LET at == Iterate(Guarded(e, safer), 1, MaxWrapperDepth)
             IN IF at = 0 THEN Opaque ELSE SubSeq(e, at, n)
  BY <1>2 DEF Unwrap, Guarded
<1>5. ASSUME NEW i \in DOMAIN words, ~Unresolved(words[i], safe), Wrapped(words, i, safe) # 0
      PROVE  Guarded(e, safer)[i] = Wrapped(words, i, safe)
  <2>1. Wrapped(e, i, safer) = Wrapped(words, i, safe)
    BY <1>0, <1>1, <1>5, WrappedIsKept
  <2> QED
    BY <1>2, <2>1 DEF Guarded
<1> HIDE DEF words, e, n, k, chain, kept
<1>6. k # 0
  BY <1>1, <1>3
<1>7. \A m \in Nat :
        LET at == Iterate(Guarded(words, safe), 1, m)
        IN at = 0 \/ (at \in DOMAIN words /\ ~Unresolved(words[at], safe) /\ Iterate(Guarded(e, safer), 1, m) = at)
  BY <1>0, <1>1, <1>5, ChainFollows
<1>8. k \in DOMAIN words /\ ~Unresolved(words[k], safe) /\ Iterate(Guarded(e, safer), 1, MaxWrapperDepth) = k
  BY <1>6, <1>7, AdapterAssumption DEF k
<1>9. chain = SubSeq(words, k, Len(words)) /\ kept = SubSeq(Expand(words, safe, value), k, Len(words))
  BY <1>3, <1>4, <1>6, <1>8 DEF n, e
<1>10. /\ kept # <<>> /\ kept[1] = chain[1]
       /\ PrintFlag \in Range(Texts(Tail(chain))) => PrintFlag \in Range(Texts(Tail(kept)))
  BY <1>0, <1>1, <1>8, <1>9, SuffixKept
<1> QED
  BY <1>10 DEF Opaque, chain, kept, words, e

\* What of a command with its variables known is as it was.
LEMMA KnownIs ==
  ASSUME NEW c \in Command, NEW safe, NEW value
  PROVE  LET known == Known(c, safe, value)
         IN /\ known.prefix = c.prefix /\ known.words = Expand(c.words, safe, value)
            /\ DOMAIN known.redirects = DOMAIN c.redirects
            /\ \A i \in DOMAIN c.redirects :
                 LET r == c.redirects[i]
                     q == known.redirects[i]
                 IN /\ q.heredoc = r.heredoc
                    /\ r.heredoc => q = r
                    /\ ~r.heredoc /\ ~Unresolved(r.to, safe) => q = r
                    /\ ~r.heredoc /\ Unresolved(r.to, safe) => q.to = [text |-> value, kind |-> "plain"]
<1> DEFINE known == Known(c, safe, value)
           to(r) == KnownWord(r.to, safe, value)
           q(r) == IF r.heredoc THEN r ELSE [r EXCEPT !.to = to(r)]
<1>1. /\ known.prefix = c.prefix /\ known.words = Expand(c.words, safe, value)
      /\ known.redirects = [i \in DOMAIN c.redirects |-> q(c.redirects[i])]
  BY DEF Known
<1> HIDE DEF known
<1>2. ASSUME NEW i \in DOMAIN c.redirects
      PROVE  LET r == c.redirects[i]
             IN /\ q(r).heredoc = r.heredoc
                /\ r.heredoc => q(r) = r
                /\ ~r.heredoc /\ ~Unresolved(r.to, safe) => q(r) = r
                /\ ~r.heredoc /\ Unresolved(r.to, safe) => q(r).to = [text |-> value, kind |-> "plain"]
  <2> DEFINE r == c.redirects[i]
  <2>1. r \in Redirect
    BY DEF Command
  <2> HIDE DEF r
  <2>2. CASE r.heredoc
    BY <2>2 DEF r
  <2>3. CASE ~r.heredoc
    <3>1. r \in [heredoc : {FALSE}, to : Word]
      BY <2>1, <2>3 DEF Redirect
    <3>2. q(r) = [heredoc |-> r.heredoc, to |-> to(r)]
      BY <2>3, <3>1
    <3>3. r = [heredoc |-> r.heredoc, to |-> r.to]
      BY <3>1
    <3> QED
      BY <2>3, <3>2, <3>3 DEF r, KnownWord
  <2> QED
    BY <2>2, <2>3 DEF r
<1> HIDE DEF q
<1> QED
  BY <1>1, <1>2 DEF known

\* A command that is not refused is not refused with its variables known, and is judged by
\* the same program.
LEMMA KnownIsDecided ==
  ASSUME NEW c \in Command, Proper(c), NEW safe \in BOOLEAN, ~Refused(c, safe), NEW safer \in BOOLEAN, safe => safer,
         NEW value \in Values(c)
  PROVE  ~Refused(Known(c, safe, value), safer) /\ Binary(Known(c, safe, value), safer) = Binary(c, safe)
<1> DEFINE known == Known(c, safe, value)
           words == c.words
           e == Expand(words, safe, value)
           new == [text |-> value, kind |-> "plain"]
           chain == Unwrap(words, safe, MaxWrapperDepth)
           kept == Unwrap(e, safer, MaxWrapperDepth)
<1>1. /\ Plainly(words) /\ words # <<>> /\ ~Unresolved(words[1], safe)
      /\ Binary(c, safe) \notin AlwaysRefuse
      /\ Binary(c, safe) \in Shells => PrintFlag \in Range(Texts(Tail(chain)))
  BY ChainOf
<1>2. value \in Tokens \ Flags
  BY DEF Values
<1>3. e \in Seq(Word) /\ Len(e) = Len(words) /\ DOMAIN e = DOMAIN words /\ e[1] = words[1]
  <2>1. 1 \in DOMAIN words
    BY <1>1 DEF Plainly
  <2> QED
    BY <1>1, <1>2, <2>1, ExpandKeeps
<1>4. \A i \in DOMAIN words : e[i] = words[i] \/ e[i] = new
  BY DEF Expand, KnownWord
<1>5. ~RefusedAsArgument(new)
  BY DEF RefusedAsArgument
<1>6. /\ known.prefix = c.prefix /\ known.words = e
      /\ DOMAIN known.redirects = DOMAIN c.redirects
      /\ \A i \in DOMAIN c.redirects :
           LET r == c.redirects[i]
               q == known.redirects[i]
           IN /\ q.heredoc = r.heredoc
              /\ r.heredoc => q = r
              /\ ~r.heredoc /\ ~Unresolved(r.to, safe) => q = r
              /\ ~r.heredoc /\ Unresolved(r.to, safe) => q.to = new
  BY KnownIs
<1>7. kept # Opaque /\ kept[1] = chain[1] /\ (PrintFlag \in Range(Texts(Tail(chain))) => PrintFlag \in Range(Texts(Tail(kept))))
  BY ChainIsKept
<1>8. /\ ~RefusedAsName(words[1], safe)
      /\ \A w \in Range(Tail(words)) \union Range(c.prefix) : ~RefusedAsArgument(w)
      /\ \A r \in Range(c.redirects) : ~(IF r.heredoc THEN HeredocRefused(r) ELSE RefusedAsArgument(r.to))
  BY DEF Refused
<1> HIDE DEF known, words, e, new, chain, kept
<1>9. Binary(c, safe) = chain[1].text /\ Binary(known, safer) = kept[1].text
  BY <1>6 DEF Binary, chain, kept, words
<1>10. ~RefusedAsName(e[1], safer)
  BY <1>1, <1>3, <1>8 DEF RefusedAsName, Unresolved
<1>11. ASSUME NEW w \in Range(Tail(e)) \union Range(c.prefix) PROVE ~RefusedAsArgument(w)
  <2>1. CASE w \in Range(c.prefix)
    BY <1>8, <2>1
  <2>2. CASE w \in Range(Tail(e))
    <3>1. words \in Seq(Word) /\ words # <<>> /\ e # <<>>
      BY <1>1, <1>3 DEF Plainly
    <3>2. /\ Len(Tail(e)) = Len(words) - 1 /\ Tail(e) \in Seq(Word)
          /\ \A i \in 1..Len(Tail(e)) : Tail(e)[i] = e[i + 1]
      BY <1>3, <3>1, HeadTailProperties
    <3>3. /\ Len(Tail(words)) = Len(words) - 1 /\ Tail(words) \in Seq(Word)
          /\ \A i \in 1..Len(Tail(words)) : Tail(words)[i] = words[i + 1]
      BY <3>1, HeadTailProperties
    <3>4. PICK i \in 1..(Len(words) - 1) : w = e[i + 1]
      BY <2>2, <3>2 DEF Range
    <3>5. i + 1 \in DOMAIN words /\ i \in DOMAIN Tail(words) /\ words[i + 1] = Tail(words)[i]
      BY <3>1, <3>3, <3>4
    <3>6. words[i + 1] \in Range(Tail(words))
      BY <3>5 DEF Range
    <3> QED
      BY <1>4, <1>5, <1>8, <3>4, <3>5, <3>6
  <2> QED
    BY <2>1, <2>2
<1>12. ASSUME NEW q \in Range(known.redirects)
       PROVE  ~(IF q.heredoc THEN HeredocRefused(q) ELSE RefusedAsArgument(q.to))
  <2>1. PICK i \in DOMAIN c.redirects : q = known.redirects[i]
    BY <1>6 DEF Range
  <2>2. c.redirects[i] \in Range(c.redirects)
    BY DEF Range
  <2> QED
    BY <1>5, <1>6, <1>8, <2>1, <2>2
<1>13. ~Refused(known, safer)
  <2>1. ~(kept[1].text \in AlwaysRefuse)
    BY <1>1, <1>7, <1>9
  <2>2. ~(kept[1].text \in Shells /\ ScanShell(Texts(Tail(kept))))
    BY <1>1, <1>7, <1>9 DEF ScanShell
  <2>3. kept = Unwrap(known.words, safer, MaxWrapperDepth)
    BY <1>6 DEF kept
  <2> QED
    BY <1>6, <1>7, <1>10, <1>11, <1>12, <2>1, <2>2, <2>3 DEF Refused
<1> QED
  BY <1>7, <1>9, <1>13 DEF known

\* A command without a variable is what it is.
LEMMA ResolvedIsKnown ==
  ASSUME NEW c \in Command, NEW safe \in BOOLEAN, ~IsUnresolved(c, safe), NEW safer \in BOOLEAN, safe => safer, NEW value
  PROVE  Known(c, safe, value) = c /\ ~IsUnresolved(c, safer)
<1> DEFINE known == Known(c, safe, value)
<1>1. /\ \A w \in Range(c.words) \union Range(c.prefix) : ~Unresolved(w, safe)
      /\ \A r \in Range(c.redirects) : ~r.heredoc => ~Unresolved(r.to, safe)
  BY DEF IsUnresolved
<1>2. ~IsUnresolved(c, safer)
  BY <1>1 DEF IsUnresolved, Unresolved
<1>3. c = [prefix |-> c.prefix, words |-> c.words, redirects |-> c.redirects]
      /\ c.words \in Seq(Word) /\ c.redirects \in Seq(Redirect)
  BY DEF Command
<1>4. Expand(c.words, safe, value) = c.words
  <2>1. \A i \in DOMAIN c.words : KnownWord(c.words[i], safe, value) = c.words[i]
    BY <1>1 DEF KnownWord, Range
  <2>2. c.words = [i \in DOMAIN c.words |-> c.words[i]]
    BY <1>3
  <2> QED
    BY <2>1, <2>2 DEF Expand
<1>5. /\ known.prefix = c.prefix /\ known.words = Expand(c.words, safe, value)
      /\ DOMAIN known.redirects = DOMAIN c.redirects
      /\ \A i \in DOMAIN c.redirects :
           LET r == c.redirects[i]
               q == known.redirects[i]
           IN /\ q.heredoc = r.heredoc
              /\ r.heredoc => q = r
              /\ ~r.heredoc /\ ~Unresolved(r.to, safe) => q = r
              /\ ~r.heredoc /\ Unresolved(r.to, safe) => q.to = [text |-> value, kind |-> "plain"]
  BY KnownIs
<1>6. \A i \in DOMAIN c.redirects : known.redirects[i] = c.redirects[i]
  BY <1>1, <1>5 DEF Range
<1>7. c.redirects = [i \in DOMAIN c.redirects |-> c.redirects[i]]
  BY <1>3
<1>8. known = [prefix |-> c.prefix, words |-> Expand(c.words, safe, value),
               redirects |-> [i \in DOMAIN c.redirects |-> known.redirects[i]]]
  BY DEF Known
<1> HIDE DEF known
<1>9. [i \in DOMAIN c.redirects |-> known.redirects[i]] = c.redirects
  BY <1>6, <1>7
<1>10. known = c
  BY <1>3, <1>4, <1>8, <1>9
<1> QED
  BY <1>2, <1>10 DEF known

\* What holds of a set whenever it holds of its proper subsets holds of every finite set.
LEMMA BySize ==
  ASSUME NEW S, IsFiniteSet(S), NEW Good,
         \A T \in SUBSET S : (\A U \in SUBSET T : U # T => U \in Good) => T \in Good
  PROVE  \A T \in SUBSET S : T \in Good
<1> SUFFICES ASSUME NEW T0 \in SUBSET S, T0 \notin Good PROVE FALSE
  OBVIOUS
<1> DEFINE Sizes == {Cardinality(T) : T \in {U \in SUBSET S : U \notin Good}}
<1>1. \A T \in SUBSET S : IsFiniteSet(T) /\ Cardinality(T) \in Nat
  BY FS_Subset, FS_CardinalityType
<1>2. Sizes \subseteq Nat /\ Sizes # {}
  BY <1>1
<1>3. PICK n \in Sizes : \A m \in Sizes : n <= m
  BY <1>2, LeastNumber
<1>4. PICK T \in SUBSET S : T \notin Good /\ Cardinality(T) = n
  BY <1>3
<1>5. ASSUME NEW U \in SUBSET T, U # T PROVE U \in Good
  <2>1. U \in SUBSET S
    OBVIOUS
  <2>2. IsFiniteSet(T) /\ Cardinality(T) \in Nat /\ Cardinality(U) \in Nat
    BY <1>1, <2>1
  <2>3. Cardinality(U) <= Cardinality(T) /\ (Cardinality(U) = Cardinality(T) => U = T)
    BY <2>2, FS_Subset
  <2>4. Cardinality(U) < Cardinality(T)
    BY <1>5, <2>2, <2>3
  <2>5. ASSUME U \notin Good PROVE FALSE
    <3>1. Cardinality(U) \in Sizes
      BY <2>1, <2>5
    <3> HIDE DEF Sizes
    <3>2. Cardinality(T) <= Cardinality(U)
      BY <1>3, <1>4, <3>1
    <3> QED
      BY <2>2, <2>4, <3>2
  <2> QED
    BY <2>5
<1> QED
  BY <1>4, <1>5

\* FoldSeq() of the community modules, as a sum over the indices of a sequence.
Some(T) == CHOOSE x \in T : TRUE
Sums(g, f, S) == g = [T \in SUBSET S |-> IF T = {} THEN 0 ELSE g[T \ {Some(T)}] + f[Some(T)]]
Total(f, S) == (CHOOSE g : Sums(g, f, S))[S]

\* The fold, one element further.
LEMMA SumsStep ==
  ASSUME NEW S, NEW f, NEW g, Sums(g, f, S), NEW T \in SUBSET S
  PROVE  /\ T = {} => g[T] = 0
         /\ T # {} => Some(T) \in T /\ g[T] = g[T \ {Some(T)}] + f[Some(T)]
<1>1. g[T] = IF T = {} THEN 0 ELSE g[T \ {Some(T)}] + f[Some(T)]
  BY DEF Sums
<1> QED
  BY <1>1 DEF Some

\* Two folds over the same terms agree on a set that both are over.
LEMMA SumsAgree ==
  ASSUME NEW S, NEW R, NEW f, NEW e, NEW g, NEW h, Sums(g, f, S), Sums(h, e, R),
         NEW T, IsFiniteSet(T), T \subseteq S, T \subseteq R, \A x \in T : f[x] = e[x]
  PROVE  g[T] = h[T]
<1> DEFINE Good == {U \in SUBSET T : g[U] = h[U]}
<1>1. ASSUME NEW U \in SUBSET T, \A V \in SUBSET U : V # U => V \in Good PROVE U \in Good
  <2>1. CASE U = {}
    BY <2>1, SumsStep
  <2>2. CASE U # {}
    <3>1. /\ Some(U) \in U
          /\ g[U] = g[U \ {Some(U)}] + f[Some(U)]
          /\ h[U] = h[U \ {Some(U)}] + e[Some(U)]
      BY <2>2, SumsStep
    <3>2. U \ {Some(U)} \in Good
      BY <1>1, <3>1
    <3> QED
      BY <3>1, <3>2
  <2> QED
    BY <2>1, <2>2
<1> HIDE DEF Good
<1>2. \A U \in SUBSET T : U \in Good
  BY <1>1, BySize
<1> QED
  BY <1>2 DEF Good

\* The recursive definition of the fold has a solution.
LEMMA SumsExist ==
  ASSUME NEW S, IsFiniteSet(S), NEW f
  PROVE  \A T \in SUBSET S : Sums(CHOOSE g : Sums(g, f, T), f, T)
<1> DEFINE The(T) == CHOOSE g : Sums(g, f, T)
           Good == {T \in SUBSET S : Sums(The(T), f, T)}
<1>1. ASSUME NEW T \in SUBSET S, \A U \in SUBSET T : U # T => U \in Good PROVE T \in Good
  <2> DEFINE Whole == IF T = {} THEN 0 ELSE The(T \ {Some(T)})[T \ {Some(T)}] + f[Some(T)]
             g == [U \in SUBSET T |-> IF U = T THEN Whole ELSE The(U)[U]]
  <2> HIDE DEF The
  <2>1. ASSUME NEW U \in SUBSET T PROVE g[U] = IF U = {} THEN 0 ELSE g[U \ {Some(U)}] + f[Some(U)]
    <3>1. CASE U = {} /\ U = T
      BY <3>1
    <3>2. CASE U = {} /\ U # T
      <4>1. Sums(The(U), f, U)
        BY <1>1, <3>2
      <4> QED
        BY <3>2, <4>1, SumsStep
    <3>3. CASE U # {}
      <4> DEFINE V == U \ {Some(U)}
      <4>1. Some(U) \in U /\ V \in SUBSET T /\ V # T /\ V \in SUBSET U
        BY <3>3 DEF Some
      <4>2. g[V] = The(V)[V] /\ Sums(The(V), f, V)
        BY <1>1, <4>1
      <4>3. CASE U = T
        BY <3>3, <4>2, <4>3
      <4>4. CASE U # T
        <5>1. Sums(The(U), f, U) /\ g[U] = The(U)[U]
          BY <1>1, <4>4
        <5>2. The(U)[U] = The(U)[V] + f[Some(U)]
          BY <3>3, <5>1, SumsStep
        <5>3. IsFiniteSet(V)
          BY <4>1, FS_Subset
        <5>4. The(U)[V] = The(V)[V]
          BY <4>1, <4>2, <5>1, <5>3, SumsAgree
        <5> QED
          BY <3>3, <4>2, <5>1, <5>2, <5>4
      <4> QED
        BY <4>3, <4>4
    <3> QED
      BY <3>1, <3>2, <3>3
  <2> HIDE DEF Whole
  <2>2. Sums(g, f, T)
    <3>1. g = [U \in SUBSET T |-> g[U]]
      OBVIOUS
    <3> HIDE DEF g
    <3> QED
      BY <2>1, <3>1 DEF Sums
  <2>3. Sums(The(T), f, T)
    BY <2>2 DEF The
  <2> QED
    BY <2>3
<1> HIDE DEF Good
<1>2. \A T \in SUBSET S : T \in Good
  BY <1>1, BySize
<1> QED
  BY <1>2 DEF Good

\* A sum is no less than any of its terms, and that of one term is that term.
LEMMA TotalBounds ==
  ASSUME NEW S, IsFiniteSet(S), NEW f, \A x \in S : f[x] \in Nat
  PROVE  /\ Total(f, S) \in Nat /\ \A x \in S : f[x] <= Total(f, S)
         /\ \A x : S = {x} => Total(f, S) = f[x]
<1> DEFINE g == CHOOSE h : Sums(h, f, S)
           Good == {T \in SUBSET S : g[T] \in Nat /\ \A x \in T : f[x] <= g[T]}
<1>1. Sums(g, f, S)
  BY SumsExist
<1>2. Total(f, S) = g[S]
  BY DEF Total
<1> HIDE DEF g
<1>3. ASSUME NEW T \in SUBSET S, \A U \in SUBSET T : U # T => U \in Good PROVE T \in Good
  <2>1. CASE T = {}
    <3>1. g[T] = 0
      BY <1>1, <2>1, SumsStep
    <3> QED
      BY <2>1, <3>1
  <2>2. CASE T # {}
    <3> DEFINE c == Some(T)
    <3>1. c \in T /\ g[T] = g[T \ {c}] + f[c]
      BY <1>1, <2>2, SumsStep
    <3> HIDE DEF c
    <3>2. T \ {c} \in Good /\ f[c] \in Nat
      BY <1>3, <3>1
    <3> QED
      BY <3>1, <3>2
  <2> QED
    BY <2>1, <2>2
<1> HIDE DEF Good
<1>4. S \in Good
  BY <1>3, BySize
<1>5. ASSUME NEW x, S = {x} PROVE g[S] = f[x]
  <2>1. Some(S) \in S /\ g[S] = g[S \ {Some(S)}] + f[Some(S)]
    <3>1. S \in SUBSET S /\ S # {}
      BY <1>5
    <3> QED
      BY <1>1, <3>1, SumsStep
  <2>2. Some(S) = x /\ S \ {Some(S)} = {}
    BY <1>5, <2>1
  <2>3. g[{}] = 0 /\ f[x] \in Nat
    BY <1>1, <1>5, SumsStep
  <2> QED
    BY <2>1, <2>2, <2>3
<1> QED
  BY <1>2, <1>4, <1>5 DEF Good

\* A finite set of numbers has a greatest one.
LEMMA GreatestNumber ==
  ASSUME NEW S \in SUBSET Nat, IsFiniteSet(S), S # {}
  PROVE  Max(S) \in S /\ \A n \in S : n <= Max(S)
<1> DEFINE Good == {T \in SUBSET S : T # {} => \E n \in T : \A k \in T : n >= k}
<1>1. ASSUME NEW T \in SUBSET S, \A U \in SUBSET T : U # T => U \in Good PROVE T \in Good
  <2>1. CASE T = {}
    BY <2>1
  <2>2. CASE T # {}
    <3>1. PICK x \in T : TRUE
      BY <2>2
    <3>2. T \ {x} \in Good
      BY <1>1, <3>1
    <3>3. CASE T \ {x} = {}
      <4>1. \A k \in T : x >= k
        BY <3>1, <3>3
      <4> QED
        BY <3>1, <4>1
    <3>4. CASE T \ {x} # {}
      <4>1. PICK n \in T \ {x} : \A k \in T \ {x} : n >= k
        BY <3>2, <3>4
      <4>2. CASE n >= x
        BY <4>1, <4>2
      <4>3. CASE ~(n >= x)
        <5>1. \A k \in T : x >= k
          BY <4>1, <4>3, <3>1
        <5> QED
          BY <3>1, <5>1
      <4> QED
        BY <4>2, <4>3
    <3> QED
      BY <3>3, <3>4
  <2> QED
    BY <2>1, <2>2
<1> HIDE DEF Good
<1>2. S \in Good
  BY <1>1, BySize
<1>3. \E n \in S : \A k \in S : n >= k
  BY <1>2 DEF Good
<1>4. Max(S) \in S /\ \A k \in S : Max(S) >= k
  BY <1>3 DEF Max
<1> QED
  BY <1>4

\* What execCost() adds up.
Cost(p, mapping) == [i \in DOMAIN mapping |-> ActionCost(p.limits.weights, mapping[i].action)]

LEMMA ExecCostIs ==
  ASSUME NEW p, NEW mapping, IsFiniteSet(DOMAIN mapping)
  PROVE  ExecCost(p, mapping) = Total(Cost(p, mapping), DOMAIN mapping)
<1> DEFINE S == DOMAIN mapping
           f == Cost(p, mapping)
           Body(g) == [T \in SUBSET S |->
                         IF T = {} THEN 0
                         ELSE g[T \ {CHOOSE x \in T : TRUE}]
                              + ActionCost(p.limits.weights, mapping[CHOOSE x \in T : TRUE].action)]
<1>1. ExecCost(p, mapping) = (CHOOSE g : g = Body(g))[S]
  BY DEF ExecCost, FoldSeq, FoldFunction, FoldFunctionOnSet, MapThenFoldSet
<1>2. \A T \in SUBSET S : T # {} =>
        f[CHOOSE x \in T : TRUE] = ActionCost(p.limits.weights, mapping[CHOOSE x \in T : TRUE].action)
  BY DEF Cost
<1> HIDE DEF f, S
<1>3. \A g : Sums(g, f, S) <=> g = Body(g)
  BY <1>2 DEF Sums, Some
<1>4. Sums(CHOOSE g : Sums(g, f, S), f, S) /\ IsFiniteSet(S)
  BY SumsExist DEF S
<1>5. Sums(CHOOSE g : g = Body(g), f, S)
  <2> HIDE DEF Body
  <2>1. \E g : g = Body(g)
    BY <1>3, <1>4
  <2>2. (CHOOSE g : g = Body(g)) = Body(CHOOSE g : g = Body(g))
    BY <2>1
  <2> QED
    BY <1>3, <2>2
<1>6. (CHOOSE g : g = Body(g))[S] = (CHOOSE g : Sums(g, f, S))[S]
  BY <1>4, <1>5, SumsAgree
<1> QED
  BY <1>1, <1>6 DEF Total, f, S

\* A price is a number.
LEMMA CostIsNumber ==
  ASSUME NEW weights \in Seq([on : SUBSET Actions, weight : Nat]), NEW action
  PROVE  ActionCost(weights, action) \in Nat
<1> DEFINE D == {i \in DOMAIN weights : action \in weights[i].on}
           Prices == {w.weight : w \in {v \in Range(weights) : action \in v.on}}
           f == [i \in D |-> weights[i].weight]
<1>1. DOMAIN weights = 1..Len(weights) /\ Len(weights) \in Nat
  OBVIOUS
<1>2. IsFiniteSet(D)
  <2>1. IsFiniteSet(1..Len(weights)) /\ D \in SUBSET (1..Len(weights))
    BY <1>1, FS_Interval
  <2> QED
    BY <2>1, FS_Subset
<1>3. f \in Surjection(D, Prices)
  BY DEF Range, Surjection
<1>4. IsFiniteSet(Prices)
  BY <1>2, <1>3, FS_Surjection
<1>5. Prices \in SUBSET Nat
  <2>1. \A i \in 1..Len(weights) : weights[i] \in [on : SUBSET Actions, weight : Nat]
    BY ElementOfSeq, Zenon
  <2>2. \A i \in 1..Len(weights) : weights[i].weight \in Nat
    BY <2>1
  <2>3. \A w \in Range(weights) : w.weight \in Nat
    BY <1>1, <2>2 DEF Range
  <2> QED
    BY <2>3
<1> HIDE DEF Prices
<1>6. {1} \union Prices \in SUBSET Nat /\ IsFiniteSet({1} \union Prices) /\ {1} \union Prices # {}
  <2>1. IsFiniteSet({1})
    BY FS_Singleton
  <2>2. IsFiniteSet({1} \union Prices)
    BY <1>4, <2>1, FS_Union
  <2> QED
    BY <1>5, <2>2
<1>7. Max({1} \union Prices) \in Nat
  BY <1>6, GreatestNumber
<1> QED
  BY <1>7 DEF ActionCost, Prices

\* What an allow means.
LEMMA AllowIs ==
  ASSUME NEW policy, NEW bin, NEW action, NEW target
  PROVE  LET d == Evaluate(policy, bin, action, target).decision
         IN /\ d \in {"deny", "require_approval", "allow"}
            /\ d = "allow" <=> /\ bin \in DOMAIN policy
                               /\ ~AnyMatch(policy[bin].deny, action, target, "deny")
                               /\ ~AnyMatch(policy[bin].approve, action, target, "require_approval")
                               /\ AnyMatch(policy[bin].allow, action, target, "allow")
  BY DEF Evaluate

\* What is of either of two sequences is of both, one after the other.
LEMMA OfBoth ==
  ASSUME NEW S, NEW a \in Seq(S), NEW b \in Seq(S)
  PROVE  Range(a) \union Range(b) \subseteq Range(a \o b)
<1>1. DOMAIN a = 1..Len(a) /\ DOMAIN b = 1..Len(b) /\ Len(a) \in Nat /\ Len(b) \in Nat
  OBVIOUS
<1>2. /\ a \o b \in Seq(S) /\ Len(a \o b) = Len(a) + Len(b)
      /\ \A i \in 1..(Len(a) + Len(b)) : (a \o b)[i] = IF i <= Len(a) THEN a[i] ELSE b[i - Len(a)]
  BY ConcatProperties
<1>3. DOMAIN (a \o b) = 1..(Len(a) + Len(b))
  BY <1>2
<1>4. ASSUME NEW q \in Range(a) PROVE q \in Range(a \o b)
  <2>1. PICK i \in 1..Len(a) : q = a[i]
    BY <1>1, <1>4 DEF Range
  <2>2. i \in 1..(Len(a) + Len(b)) /\ i <= Len(a)
    BY <1>1
  <2>3. (a \o b)[i] = q
    BY <1>2, <2>1, <2>2
  <2> QED
    BY <1>3, <2>2, <2>3 DEF Range
<1>5. ASSUME NEW q \in Range(b) PROVE q \in Range(a \o b)
  <2>1. PICK i \in 1..Len(b) : q = b[i]
    BY <1>1, <1>5 DEF Range
  <2>2. Len(a) + i \in 1..(Len(a) + Len(b)) /\ ~(Len(a) + i <= Len(a)) /\ (Len(a) + i) - Len(a) = i
    BY <1>1
  <2>3. (a \o b)[Len(a) + i] = q
    BY <1>2, <2>1, <2>2
  <2> QED
    BY <1>3, <2>2, <2>3 DEF Range
<1> QED
  BY <1>4, <1>5

\* What is allowed of an unknown target is allowed of any that no rule stops or asks about.
LEMMA UnknownIsAny ==
  ASSUME NEW policy, NEW bin, NEW action, NEW target, bin \in DOMAIN policy => policy[bin] \in Grant,
         Evaluate(policy, bin, action, Unknown).decision = "allow",
         ~AnyMatch(policy[bin].deny \o policy[bin].approve, action, target, "require_approval")
  PROVE  Evaluate(policy, bin, action, target).decision = "allow"
<1> DEFINE grant == policy[bin]
<1>1. bin \in DOMAIN policy /\ AnyMatch(grant.allow, action, Unknown, "allow")
  BY AllowIs
<1>2. grant.deny \in Seq(Rule) /\ grant.approve \in Seq(Rule)
  BY <1>1 DEF Grant
<1> HIDE DEF grant
<1>3. PICK r \in Range(grant.allow) : Matches(r, action, Unknown, "allow")
  BY <1>1 DEF AnyMatch
<1>4. r.at = AnyTarget /\ action \in r.on
  BY <1>3, EngineAssumption DEF Matches
<1>5. AnyMatch(grant.allow, action, target, "allow")
  BY <1>3, <1>4 DEF AnyMatch, Matches
<1>6. ASSUME NEW q \in Range(grant.deny) \union Range(grant.approve)
      PROVE  q \in Range(grant.deny \o grant.approve)
  BY <1>2, <1>6, OfBoth
<1>7. ~AnyMatch(grant.deny, action, target, "deny") /\ ~AnyMatch(grant.approve, action, target, "require_approval")
  BY <1>6 DEF AnyMatch, Matches, grant
<1> QED
  BY <1>1, <1>5, <1>7, AllowIs DEF grant

\* A line that is allowed is so at every gate.
LEMMA AllowedAtEveryGate ==
  ASSUME NEW p, NEW text
  PROVE  LET mapping == MapBashCommand(text)
         IN DecideExec(p, text) = "allow" <=>
              /\ ~Undecidable(text) /\ ~OutOfScope(p, mapping) /\ ~Tripped(p, mapping)
              /\ WithinCeiling(p.limits.perHour, p.spent, ExecCost(p, mapping))
              /\ \A m \in Range(mapping) : Evaluate(p.policy, Bash, m.action, TargetOf(m)).decision = "allow"
<1> DEFINE mapping == MapBashCommand(text)
           decisions == {v.decision : v \in Verdicts(p, mapping)}
<1>1. decisions = {Evaluate(p.policy, Bash, m.action, TargetOf(m)).decision : m \in Range(mapping)}
  BY DEF Verdicts
<1>2. \A m \in Range(mapping) :
        Evaluate(p.policy, Bash, m.action, TargetOf(m)).decision \in {"deny", "require_approval", "allow"}
  BY AllowIs
<1>3. CombineExec(p, mapping) = IF "deny" \in decisions THEN "deny"
                                ELSE IF "require_approval" \in decisions THEN "require_approval" ELSE "allow"
  BY DEF CombineExec
<1> HIDE DEF mapping, decisions
<1>4. CombineExec(p, mapping) = "allow" <=>
        \A m \in Range(mapping) : Evaluate(p.policy, Bash, m.action, TargetOf(m)).decision = "allow"
  BY <1>1, <1>2, <1>3
<1> QED
  BY <1>4 DEF DecideExec, mapping

\* On the line of a command alone, variables are as safe as on one it is part of, or more so.
LEMMA AloneIsSafer ==
  ASSUME NEW text \in Seq(Command), NEW i \in DOMAIN text, NEW known,
         known.prefix = text[i].prefix, known.words[1] = text[i].words[1]
  PROVE  SafeVarsUsable(text) => SafeVarsUsable(<<known>>)
<1>1. DOMAIN <<known>> = {1} /\ <<known>>[1] = known
  OBVIOUS
<1> QED
  BY <1>1 DEF SafeVarsUsable

\* One command of a line that is allowed, with its variables known.
LEMMA KnownIsAllowed ==
  ASSUME NEW p, Principal(p), NEW text \in Seq(Command), \A j \in DOMAIN text : Proper(text[j]),
         DecideExec(p, text) = "allow", NEW i \in DOMAIN text, NEW value \in Values(text[i]), NEW known,
         known = Known(text[i], SafeVarsUsable(text), value),
         ~Trips(p.limits.wires, Binary(text[i], SafeVarsUsable(text)), Target(known)),
         ~AnyMatch(p.policy[Bash].deny \o p.policy[Bash].approve, Binary(text[i], SafeVarsUsable(text)),
                   Target(known), "require_approval")
  PROVE  DecideExec(p, <<known>>) = "allow"
<1> DEFINE c == text[i]
           safe == SafeVarsUsable(text)
           safer == SafeVarsUsable(<<known>>)
           mapping == MapBashCommand(text)
           alone == MapBashCommand(<<known>>)
           m == mapping[i]
           k == alone[1]
<1>1. c \in Command /\ Proper(c) /\ c.words \in Seq(Word) /\ c.words # <<>> /\ safe \in BOOLEAN /\ safer \in BOOLEAN
  <2>1. c \in Command /\ Proper(c)
    OBVIOUS
  <2>2. c.words \in Seq(Word) /\ c.words # <<>>
    BY <2>1 DEF Proper
  <2>3. safe \in BOOLEAN /\ safer \in BOOLEAN
    BY DEF SafeVarsUsable
  <2> QED
    BY <2>1, <2>2, <2>3
<1>2. /\ ~Undecidable(text) /\ ~OutOfScope(p, mapping) /\ ~Tripped(p, mapping)
      /\ WithinCeiling(p.limits.perHour, p.spent, ExecCost(p, mapping))
      /\ \A x \in Range(mapping) : Evaluate(p.policy, Bash, x.action, TargetOf(x)).decision = "allow"
  BY AllowedAtEveryGate
<1>3. ~Refused(c, safe)
  BY <1>2 DEF Undecidable
<1>4. known.prefix = c.prefix /\ known.words = Expand(c.words, safe, value)
  BY DEF Known
<1>5. known.words[1] = c.words[1]
  <2>1. value \in Tokens \ Flags
    BY DEF Values
  <2>2. Plainly(c.words) /\ ~Unresolved(c.words[1], safe) /\ 1 \in DOMAIN c.words
    BY <1>1, <1>3, ChainOf
  <2> QED
    BY <1>4, <2>1, <2>2, ExpandKeeps
<1>6. safe => safer
  BY <1>4, <1>5, AloneIsSafer
<1>7. ~Refused(known, safer) /\ Binary(known, safer) = Binary(c, safe)
  BY <1>1, <1>3, <1>6, KnownIsDecided
<1>8. /\ DOMAIN mapping = DOMAIN text /\ DOMAIN alone = {1}
      /\ m.action = Binary(c, safe) /\ m.target = Target(c) /\ m.unresolved = IsUnresolved(c, safe)
      /\ k.action = Binary(c, safe) /\ k.target = Target(known) /\ k.unresolved = IsUnresolved(known, safer)
      /\ k = [action |-> Binary(c, safe), target |-> Target(known), unresolved |-> IsUnresolved(known, safer)]
      /\ m = [action |-> Binary(c, safe), target |-> Target(c), unresolved |-> IsUnresolved(c, safe)]
  <2>1. DOMAIN <<known>> = {1} /\ <<known>>[1] = known
    OBVIOUS
  <2> QED
    BY <1>7, <2>1 DEF MapBashCommand
<1>9. IsUnresolved(c, safe) \/ k = m
  <2> SUFFICES ASSUME ~IsUnresolved(c, safe) PROVE k = m
    OBVIOUS
  <2>1. known = c /\ ~IsUnresolved(c, safer)
    BY <1>1, <1>6, ResolvedIsKnown
  <2>2. IsUnresolved(known, safer) = IsUnresolved(c, safe)
    <3>1. IsUnresolved(known, safer) \in BOOLEAN /\ IsUnresolved(c, safe) \in BOOLEAN
      BY DEF IsUnresolved
    <3> QED
      BY <2>1, <3>1
  <2> QED
    BY <1>8, <2>1, <2>2
<1>10. m \in Range(mapping) /\ Range(alone) = {k}
  BY <1>8 DEF Range
<1>11. ~Undecidable(<<known>>)
  <2>1. DOMAIN <<known>> = {1} /\ <<known>>[1] = known /\ <<known>> # <<>>
    OBVIOUS
  <2> QED
    BY <1>7, <2>1 DEF Undecidable
<1> HIDE DEF c, safe, safer, mapping, alone, m, k
<1>12. ~OutOfScope(p, alone)
  <2> SUFFICES ASSUME NEW s \in Range(p.scopes), Beyond(s, k) PROVE FALSE
    BY <1>10 DEF OutOfScope
  <2>1. ~Beyond(s, m)
    BY <1>2, <1>10 DEF OutOfScope
  <2> QED
    BY <1>8, <1>9, <2>1 DEF Beyond
<1>13. ~Tripped(p, alone)
  BY <1>8, <1>10 DEF Tripped, c, safe
<1>14. Evaluate(p.policy, Bash, k.action, TargetOf(k)).decision = "allow"
  <2>1. Evaluate(p.policy, Bash, m.action, TargetOf(m)).decision = "allow"
    BY <1>2, <1>10
  <2>2. CASE k = m
    BY <2>1, <2>2
  <2>3. CASE IsUnresolved(c, safe)
    <3>1. Evaluate(p.policy, Bash, k.action, Unknown).decision = "allow"
      BY <1>8, <2>1, <2>3 DEF TargetOf
    <3>2. ~AnyMatch(p.policy[Bash].deny \o p.policy[Bash].approve, k.action, k.target, "require_approval")
      BY <1>8 DEF c, safe
    <3>3. Bash \in DOMAIN p.policy => p.policy[Bash] \in Grant
      BY DEF Principal
    <3>4. Evaluate(p.policy, Bash, k.action, k.target).decision = "allow"
      BY <3>1, <3>2, <3>3, UnknownIsAny
    <3> QED
      BY <3>1, <3>4 DEF TargetOf
  <2> QED
    BY <1>9, <2>2, <2>3
<1>15. WithinCeiling(p.limits.perHour, p.spent, ExecCost(p, alone))
  <2> DEFINE f == Cost(p, mapping)
             g == Cost(p, alone)
  <2>1. IsFiniteSet(DOMAIN mapping) /\ IsFiniteSet(DOMAIN alone) /\ i \in DOMAIN mapping
    <3>1. IsFiniteSet(1..Len(text)) /\ DOMAIN text = 1..Len(text)
      BY FS_Interval
    <3> QED
      BY <1>8, <3>1, FS_Singleton
  <2>2. ExecCost(p, mapping) = Total(f, DOMAIN mapping) /\ ExecCost(p, alone) = Total(g, DOMAIN alone)
    BY <2>1, ExecCostIs
  <2>3. /\ \A j \in DOMAIN mapping : f[j] \in Nat
        /\ \A j \in DOMAIN alone : g[j] \in Nat
    BY CostIsNumber DEF Cost, Principal
  <2>4. f[i] = g[1]
    BY <1>8, <2>1 DEF Cost, m, k
  <2> HIDE DEF f, g
  <2>5. Total(f, DOMAIN mapping) \in Nat /\ f[i] <= Total(f, DOMAIN mapping)
    BY <2>1, <2>3, TotalBounds
  <2>6. Total(g, DOMAIN alone) = g[1]
    BY <1>8, <2>1, <2>3, TotalBounds
  <2>7. g[1] \in Nat /\ p.limits.perHour \in Nat /\ p.spent \in Nat
    BY <1>8, <2>3 DEF Principal
  <2> QED
    BY <1>2, <2>2, <2>4, <2>5, <2>6, <2>7 DEF WithinCeiling
<1>16. \A x \in Range(alone) : Evaluate(p.policy, Bash, x.action, TargetOf(x)).decision = "allow"
  BY <1>10, <1>14
<1> QED
  BY <1>11, <1>12, <1>13, <1>15, <1>16, AllowedAtEveryGate DEF alone

LEMMA UnknownIsSafe == LineInv => UnknownProvesNothing
<1> SUFFICES ASSUME LineInv, DecideExec(who, line) = "allow", NEW i \in DOMAIN line, NEW value \in Values(line[i])
             PROVE  LET known == Known(line[i], SafeHere, value)
                        action == Binary(line[i], SafeHere)
                        target == Target(known)
                        grant == who.policy[Bash]
                    IN \/ Trips(who.limits.wires, action, target)
                       \/ AnyMatch(grant.deny \o grant.approve, action, target, "require_approval")
                       \/ DecideExec(who, <<known>>) = "allow"
  BY DEF UnknownProvesNothing
<1>1. line \in Seq(Command) /\ (\A j \in DOMAIN line : Proper(line[j])) /\ Principal(who)
  BY DEF LineInv
<1> DEFINE known == Known(line[i], SafeHere, value)
<1>2. known = Known(line[i], SafeVarsUsable(line), value)
  BY DEF SafeHere
<1> HIDE DEF known
<1>3. \/ Trips(who.limits.wires, Binary(line[i], SafeVarsUsable(line)), Target(known))
      \/ AnyMatch(who.policy[Bash].deny \o who.policy[Bash].approve, Binary(line[i], SafeVarsUsable(line)),
                  Target(known), "require_approval")
      \/ DecideExec(who, <<known>>) = "allow"
  BY <1>1, <1>2, KnownIsAllowed
<1> QED
  BY <1>3 DEF known, SafeHere

\* A line is allowed with an argument that nobody knows yet only if each of its commands would
\* be allowed whatever stands there, unless a tripwire or a rule of deny or of approval names
\* that very value: of any list, any words, any policy, limits and scope of a sub-token
\* (proxy/exec-route.ts: decideExec(), combineExec(); adapters/bash.ts: foldArg()).
THEOREM AnUnknownProvesNothing == MCSpec => []UnknownProvesNothing
<1>1. LineInv /\ [MCNext]_Everything => LineInv'
  BY LineInvNext
<1> QED
  BY LineInvInit, <1>1, UnknownIsSafe, PTL DEF MCSpec

-------------------------------------------------------------------------------
(* The policy engine and the tools beside it: what the order of rules, their number and *)
(* the spelling of their targets change, and what they do not.                          *)

LEMMA SetInSequence ==
  ASSUME NEW S, IsFiniteSet(S)
  PROVE  SetToSeq(S) \in Seq(S) /\ Range(SetToSeq(S)) = S
<1> DEFINE n == Cardinality(S)
           f == SetToSeq(S)
<1>1. n \in Nat /\ ExistsBijection(1..n, S)
  BY FS_CardinalityType
<1>2. PICK g : g \in Bijection(1..n, S)
  BY <1>1 DEF ExistsBijection
<1>3. g \in [1..n -> S] /\ IsInjective(g)
  BY <1>2 DEF Bijection, Injection, IsInjective
<1>4. f \in [1..n -> S] /\ IsInjective(f)
  BY <1>3 DEF SetToSeq
<1>5. f \in Injection(1..n, S)
  BY <1>4 DEF Injection, IsInjective
<1>6. IsFiniteSet(1..n) /\ Cardinality(1..n) = n
  BY <1>1, FS_Interval
<1>7. f \in Surjection(1..n, S)
  BY <1>5, <1>6, FS_Injection
<1>8. f \in Seq(S)
  BY <1>1, <1>4
<1> QED
  BY <1>4, <1>7, <1>8 DEF Surjection, Range

LEMMA RangeIs ==
  ASSUME NEW S, NEW s \in Seq(S)
  PROVE  Range(s) \subseteq S /\ IsFiniteSet(Range(s)) /\ \A i \in DOMAIN s : s[i] \in Range(s)
<1>1. Len(s) \in Nat /\ DOMAIN s = 1..Len(s) /\ IsFiniteSet(1..Len(s))
  BY FS_Interval
<1>2. s \in Surjection(1..Len(s), Range(s))
  BY <1>1 DEF Surjection, Range
<1> QED
  BY <1>1, <1>2, FS_Surjection DEF ExistsSurjection, Range

LEMMA ConcatRange ==
  ASSUME NEW S, NEW a \in Seq(S), NEW b \in Seq(S)
  PROVE  a \o b \in Seq(S) /\ Range(a \o b) = Range(a) \cup Range(b)
<1>1. /\ Len(a) \in Nat /\ Len(b) \in Nat /\ DOMAIN a = 1..Len(a) /\ DOMAIN b = 1..Len(b)
      /\ Len(a \o b) = Len(a) + Len(b) /\ DOMAIN (a \o b) = 1..(Len(a) + Len(b))
      /\ \A i \in 1..(Len(a) + Len(b)) : (a \o b)[i] = IF i <= Len(a) THEN a[i] ELSE b[i - Len(a)]
  OBVIOUS
<1>2. \A i \in DOMAIN a : i \in DOMAIN (a \o b) /\ (a \o b)[i] = a[i]
  BY <1>1
<1>3. \A i \in DOMAIN b : Len(a) + i \in DOMAIN (a \o b) /\ (a \o b)[Len(a) + i] = b[i]
  BY <1>1
<1>4. \A i \in DOMAIN (a \o b) : (i \in DOMAIN a /\ (a \o b)[i] = a[i])
                                 \/ (i - Len(a) \in DOMAIN b /\ (a \o b)[i] = b[i - Len(a)])
  BY <1>1
<1>5. Range(a \o b) \subseteq Range(a) \cup Range(b)
  BY <1>4 DEF Range
<1>6. Range(a) \subseteq Range(a \o b)
  BY <1>2 DEF Range
<1>7. Range(b) \subseteq Range(a \o b)
  BY <1>3 DEF Range
<1> QED
  BY <1>5, <1>6, <1>7

\* Of sequences, one after the other.
Flats(f, s, n) == f = [i \in 1..n |-> IF i = 1 THEN s[i] ELSE f[i - 1] \o s[i]]

LEMMA Flattened ==
  ASSUME NEW S, NEW s \in Seq(Seq(S))
  PROVE  FlattenSeq(s) \in Seq(S) /\ Range(FlattenSeq(s)) = UNION {Range(s[i]) : i \in DOMAIN s}
<1> DEFINE Exists == {n \in Nat : \E f : Flats(f, s, n)}
<1>1. 0 \in Exists
  <2>1. PICK f : f = [i \in 1..0 |-> s[i]]
    OBVIOUS
  <2>2. Flats(f, s, 0)
    BY <2>1 DEF Flats
  <2> QED
    BY <2>2
<1>2. ASSUME NEW n \in Exists \cap Nat PROVE n + 1 \in Exists
  <2>1. PICK g : Flats(g, s, n)
    BY <1>2
  <2>2. PICK f : f = [i \in 1..n + 1 |-> IF i <= n THEN g[i] ELSE IF i = 1 THEN s[i] ELSE g[i - 1] \o s[i]]
    OBVIOUS
  <2>3. \A i \in 1..n : g[i] = IF i = 1 THEN s[i] ELSE g[i - 1] \o s[i]
    BY <2>1 DEF Flats
  <2>4. \A i \in 1..n : f[i] = g[i]
    BY <2>2
  <2>5. \A i \in 1..n + 1 : f[i] = IF i = 1 THEN s[i] ELSE f[i - 1] \o s[i]
    <3>1. ASSUME NEW i \in 1..n, i # 1 PROVE i - 1 \in 1..n
      BY <3>1
    <3>2. \A i \in 1..n : f[i] = IF i = 1 THEN s[i] ELSE f[i - 1] \o s[i]
      BY <2>3, <2>4, <3>1
    <3>3. f[n + 1] = IF n + 1 = 1 THEN s[n + 1] ELSE g[n] \o s[n + 1]
      BY <2>2
    <3>4. n + 1 # 1 => n \in 1..n
      OBVIOUS
    <3>5. f[n + 1] = IF n + 1 = 1 THEN s[n + 1] ELSE f[(n + 1) - 1] \o s[n + 1]
      BY <2>4, <3>3, <3>4
    <3>6. \A i \in 1..n + 1 : i \in 1..n \/ i = n + 1
      OBVIOUS
    <3> QED
      BY <3>2, <3>5, <3>6
  <2>6. f = [i \in 1..n + 1 |-> f[i]]
    BY <2>2
  <2>7. Flats(f, s, n + 1)
    BY <2>5, <2>6 DEF Flats
  <2> QED
    BY <2>7
<1> HIDE DEF Exists
<1>3. Nat \subseteq Exists
  BY <1>1, <1>2, CountUp
<1> DEFINE n == Len(s)
           f == CHOOSE g : Flats(g, s, n)
<1>4. n \in Nat /\ DOMAIN s = 1..n /\ \A i \in 1..n : s[i] \in Seq(S)
  OBVIOUS
<1>5. Flats(f, s, n)
  BY <1>3, <1>4 DEF Exists
<1>6. FlattenSeq(s) = IF n = 0 THEN s ELSE f[n]
  BY DEF FlattenSeq, Flats
<1> HIDE DEF f, n
<1> DEFINE Good == {k \in Nat : k \in 1..n => f[k] \in Seq(S) /\ Range(f[k]) = UNION {Range(s[i]) : i \in 1..k}}
<1>7. 0 \in Good
  OBVIOUS
<1>8. ASSUME NEW k \in Good \cap Nat PROVE k + 1 \in Good
  <2>1. CASE k + 1 \notin 1..n
    BY <2>1
  <2>2. CASE k + 1 \in 1..n /\ k = 0
    <3>1. f[k + 1] = s[k + 1]
      BY <1>5, <2>2 DEF Flats
    <3> QED
      BY <1>4, <2>2, <3>1
  <2>3. CASE k + 1 \in 1..n /\ k # 0
    <3>0. k \in Nat /\ k \in 1..n /\ k + 1 # 1 /\ (k + 1) - 1 = k
      BY <1>4, <2>3
    <3>1. f[k + 1] = f[k] \o s[k + 1] /\ k \in 1..n
      <4>1. f[k + 1] = IF k + 1 = 1 THEN s[k + 1] ELSE f[(k + 1) - 1] \o s[k + 1]
        BY <1>5, <2>3 DEF Flats
      <4> QED
        BY <3>0, <4>1
    <3>2. f[k] \in Seq(S) /\ Range(f[k]) = UNION {Range(s[i]) : i \in 1..k}
      BY <1>8, <3>1
    <3>3. s[k + 1] \in Seq(S)
      BY <1>4, <2>3
    <3>4. Range(f[k] \o s[k + 1]) = Range(f[k]) \cup Range(s[k + 1])
      <4>1. PICK a, b : a = f[k] /\ b = s[k + 1] /\ a \in Seq(S) /\ b \in Seq(S)
        BY <3>2, <3>3
      <4> QED
        BY <4>1, ConcatRange
    <3>5. UNION {Range(s[i]) : i \in 1..k + 1} = (UNION {Range(s[i]) : i \in 1..k}) \cup Range(s[k + 1])
      BY <2>3
    <3>6. f[k + 1] \in Seq(S)
      BY <3>1, <3>2, <3>3
    <3>7. Range(f[k + 1]) = UNION {Range(s[i]) : i \in 1..k + 1}
      BY <3>1, <3>2, <3>4, <3>5
    <3> QED
      BY <3>0, <3>6, <3>7
  <2> QED
    BY <2>1, <2>2, <2>3
<1> HIDE DEF Good
<1>9. Nat \subseteq Good
  BY <1>7, <1>8, CountUp
<1>10. CASE n = 0
  BY <1>4, <1>6, <1>10 DEF n, Range
<1>11. CASE n # 0
  <2>1. n \in 1..n
    BY <1>4, <1>11
  <2> QED
    BY <1>4, <1>6, <1>9, <1>11, <2>1 DEF Good
<1> QED
  BY <1>10, <1>11

-------------------------------------------------------------------------------
(* evaluate(), rule by rule. *)

Folding(r) == IF r.at = AnyTarget THEN r ELSE [r EXCEPT !.at = CaseVariants(@)]

LEMMA FoldingIs ==
  ASSUME NEW r \in Rule
  PROVE  /\ Folding(r) \in Rule /\ Folding(r).on = r.on /\ Folding(r).ask = r.ask
         /\ Folding(r).at = AnyTarget <=> r.at = AnyTarget
         /\ r.at # AnyTarget => r.at \in SUBSET Targets /\ Folding(r).at = CaseVariants(r.at)
<1>1. /\ r = [on |-> r.on, at |-> r.at, ask |-> r.ask] /\ r.on \in SUBSET Actions /\ r.ask \in BOOLEAN
      /\ r.at \in SUBSET Targets \/ r.at = AnyTarget
  BY DEF Rule
<1>2. CASE r.at = AnyTarget
  BY <1>2 DEF Folding
<1>3. CASE r.at # AnyTarget
  <2>1. CaseVariants(r.at) \in SUBSET Targets /\ CaseVariants(r.at) # AnyTarget
    BY EngineAssumption DEF CaseVariants
  <2>2. Folding(r) = [on |-> r.on, at |-> CaseVariants(r.at), ask |-> r.ask]
    BY <1>1, <1>3 DEF Folding
  <2> QED
    BY <1>1, <1>3, <2>1, <2>2 DEF Rule
<1> QED
  BY <1>2, <1>3

LEMMA FoldedRules ==
  ASSUME NEW ruleset \in Seq(Rule)
  PROVE  /\ CaseInsensitive(ruleset) \in Seq(Rule) /\ DOMAIN CaseInsensitive(ruleset) = DOMAIN ruleset
         /\ \A i \in DOMAIN ruleset : CaseInsensitive(ruleset)[i] = Folding(ruleset[i])
         /\ Range(CaseInsensitive(ruleset)) = {Folding(r) : r \in Range(ruleset)}
<1> DEFINE n == Len(ruleset)
<1>1. n \in Nat /\ DOMAIN ruleset = 1..n /\ \A i \in 1..n : ruleset[i] \in Rule
  OBVIOUS
<1>2. CaseInsensitive(ruleset) = [i \in 1..n |-> Folding(ruleset[i])]
  BY <1>1 DEF CaseInsensitive, Folding
<1>3. \A i \in 1..n : Folding(ruleset[i]) \in Rule
  BY <1>1, FoldingIs
<1>4. [i \in 1..n |-> Folding(ruleset[i])] \in Seq(Rule)
  <2> DEFINE f == [i \in 1..n |-> Folding(ruleset[i])]
  <2>1. f \in [1..n -> Rule]
    BY <1>3
  <2> QED
    BY <1>1, <2>1
<1> HIDE DEF n
<1>5. /\ DOMAIN CaseInsensitive(ruleset) = DOMAIN ruleset
      /\ \A i \in DOMAIN ruleset : CaseInsensitive(ruleset)[i] = Folding(ruleset[i])
  BY <1>1, <1>2
<1>6. Range(CaseInsensitive(ruleset)) = {Folding(r) : r \in Range(ruleset)}
  BY <1>5 DEF Range
<1> QED
  BY <1>2, <1>4, <1>5, <1>6

\* What a rule matches: nothing but bare rules for a target nobody knows, and, for the null
\* target, any rule of a clause that lets through.
LEMMA MatchesIs ==
  ASSUME NEW r \in Rule, NEW a, NEW clause
  PROVE  /\ \A t \in Targets : Matches(r, a, t, clause) <=> a \in r.on /\ (r.at = AnyTarget \/ t \in r.at)
         /\ Matches(r, a, Unknown, clause) <=> a \in r.on /\ r.at = AnyTarget
         /\ Matches(r, a, Somewhere, clause) <=> a \in r.on /\ (r.at = AnyTarget \/ clause # "deny")
BY EngineAssumption DEF Matches

LEMMA DecideIs ==
  ASSUME NEW policy, NEW upstream \in DOMAIN policy, NEW a, NEW t
  PROVE  LET denied == AnyMatch(policy[upstream].deny, a, t, "deny")
             asked == AnyMatch(policy[upstream].approve, a, t, "require_approval")
             let == AnyMatch(policy[upstream].allow, a, t, "allow")
             open == t = Unknown /\ \E r \in Range(policy[upstream].allow) : r.ask /\ a \in r.on
         IN /\ Decide(policy, upstream, a, t) = "allow" <=> ~denied /\ ~asked /\ let
            /\ Decide(policy, upstream, a, t) = "require_approval" <=> ~denied /\ (asked \/ (~let /\ open))
            /\ Decide(policy, upstream, a, t) = "deny" <=> denied \/ (~asked /\ ~let /\ ~open)
            /\ Evaluate(policy, upstream, a, t).reason = "explicit_deny" <=> denied
            /\ Decide(policy, upstream, a, t) \in {"allow", "require_approval", "deny"}
<1> DEFINE denied == AnyMatch(policy[upstream].deny, a, t, "deny")
           asked == AnyMatch(policy[upstream].approve, a, t, "require_approval")
           let == AnyMatch(policy[upstream].allow, a, t, "allow")
           open == \E r \in Range(policy[upstream].allow) : r.ask /\ a \in r.on
           it == Evaluate(policy, upstream, a, t)
<1>1. it = CASE denied -> [decision |-> "deny", reason |-> "explicit_deny"]
             [] ~denied /\ asked -> [decision |-> "require_approval", reason |-> "approval_required"]
             [] ~denied /\ ~asked /\ let -> [decision |-> "allow", reason |-> "explicit_allow"]
             [] OTHER -> IF t # Unknown THEN [decision |-> "deny", reason |-> "no_matching_allow"]
                         ELSE IF open THEN [decision |-> "require_approval", reason |-> "unresolved_approval"]
                              ELSE [decision |-> "deny", reason |-> "unresolved_target"]
  BY DEF Evaluate
<1>2. denied \in BOOLEAN /\ asked \in BOOLEAN /\ let \in BOOLEAN /\ open \in BOOLEAN
  BY DEF AnyMatch
<1> HIDE DEF denied, asked, let, open, it
<1>3. /\ it.decision = "allow" <=> ~denied /\ ~asked /\ let
      /\ it.decision = "require_approval" <=> ~denied /\ (asked \/ (~let /\ t = Unknown /\ open))
      /\ it.decision = "deny" <=> denied \/ (~asked /\ ~let /\ ~(t = Unknown /\ open))
      /\ it.reason = "explicit_deny" <=> denied
      /\ it.decision \in {"allow", "require_approval", "deny"}
  <2>1. CASE denied
    BY <1>1, <2>1
  <2>2. CASE ~denied /\ asked
    BY <1>1, <2>2
  <2>3. CASE ~denied /\ ~asked /\ let
    BY <1>1, <2>3
  <2>4. CASE ~denied /\ ~asked /\ ~let
    BY <1>1, <2>4
  <2> QED
    BY <1>2, <2>1, <2>2, <2>3, <2>4
<1> QED
  BY <1>3 DEF denied, asked, let, open, it, Decide

LEMMA UngrantedIs ==
  ASSUME NEW policy, NEW upstream, upstream \notin DOMAIN policy, NEW a, NEW t
  PROVE  Decide(policy, upstream, a, t) = "deny" /\ Evaluate(policy, upstream, a, t).reason # "explicit_deny"
BY DEF Decide, Evaluate

LEMMA CompiledIs ==
  ASSUME NEW grants, \A upstream \in DOMAIN grants : grants[upstream] \in Grant
  PROVE  /\ DOMAIN Compile(grants) = DOMAIN grants
         /\ \A upstream \in DOMAIN grants :
              /\ Compile(grants)[upstream] = CompileGrant(grants[upstream]) /\ Compile(grants)[upstream] \in Grant
              /\ Compile(grants)[upstream].allow = grants[upstream].allow
              /\ Compile(grants)[upstream].deny = CaseInsensitive(grants[upstream].deny)
              /\ Compile(grants)[upstream].approve = CaseInsensitive(grants[upstream].approve)
              /\ grants[upstream].allow \in Seq(Rule) /\ grants[upstream].deny \in Seq(Rule) /\ grants[upstream].approve \in Seq(Rule)
<1>1. ASSUME NEW upstream \in DOMAIN grants
      PROVE  /\ CompileGrant(grants[upstream]) \in Grant
             /\ grants[upstream].allow \in Seq(Rule) /\ grants[upstream].deny \in Seq(Rule) /\ grants[upstream].approve \in Seq(Rule)
  <2>1. grants[upstream].allow \in Seq(Rule) /\ grants[upstream].deny \in Seq(Rule) /\ grants[upstream].approve \in Seq(Rule)
    BY DEF Grant
  <2>2. CaseInsensitive(grants[upstream].deny) \in Seq(Rule) /\ CaseInsensitive(grants[upstream].approve) \in Seq(Rule)
    BY <2>1, FoldedRules
  <2> QED
    BY <2>1, <2>2 DEF CompileGrant, Grant
<1> QED
  BY <1>1 DEF Compile, CompileGrant

-------------------------------------------------------------------------------
(* The null target stands for any target. *)

\* A policy whose grants are compiled.
Policy(policy) == \A upstream \in DOMAIN policy : policy[upstream] \in Grant

LEMMA RulesOf ==
  ASSUME NEW grant \in Grant
  PROVE  \A ruleset \in {grant.deny, grant.approve, grant.allow} : ruleset \in Seq(Rule) /\ Range(ruleset) \subseteq Rule
<1>1. grant.deny \in Seq(Rule) /\ grant.approve \in Seq(Rule) /\ grant.allow \in Seq(Rule)
  BY DEF Grant
<1> QED
  BY <1>1, RangeIs

LEMMA SomewhereBounds ==
  ASSUME NEW policy, Policy(policy), NEW upstream, NEW a, NEW t \in Targets
  PROVE  /\ Decide(policy, upstream, a, Somewhere) = "deny" => Decide(policy, upstream, a, t) = "deny"
         /\ Decide(policy, upstream, a, Somewhere) = "allow" => Decide(policy, upstream, a, t) # "require_approval"
         /\ Evaluate(policy, upstream, a, Somewhere).reason = "explicit_deny" => Decide(policy, upstream, a, Unknown) = "deny"
<1>1. CASE upstream \notin DOMAIN policy
  BY <1>1, UngrantedIs
<1>2. CASE upstream \in DOMAIN policy
  <2> DEFINE grant == policy[upstream]
  <2>1. /\ \A r \in Range(grant.deny) \cup Range(grant.approve) \cup Range(grant.allow) : r \in Rule
        /\ t # Unknown /\ Somewhere # Unknown /\ t # Somewhere
    BY <1>2, RulesOf, EngineAssumption DEF Policy
  <2>2. /\ AnyMatch(grant.deny, a, Somewhere, "deny") => AnyMatch(grant.deny, a, t, "deny")
        /\ AnyMatch(grant.deny, a, Somewhere, "deny") => AnyMatch(grant.deny, a, Unknown, "deny")
        /\ AnyMatch(grant.approve, a, t, "require_approval") => AnyMatch(grant.approve, a, Somewhere, "require_approval")
        /\ AnyMatch(grant.allow, a, t, "allow") => AnyMatch(grant.allow, a, Somewhere, "allow")
    BY <2>1, MatchesIs DEF AnyMatch
  <2>3. \A at \in {t, Somewhere, Unknown} :
          /\ Decide(policy, upstream, a, at) = "allow" <=>
               /\ ~AnyMatch(grant.deny, a, at, "deny") /\ ~AnyMatch(grant.approve, a, at, "require_approval")
               /\ AnyMatch(grant.allow, a, at, "allow")
          /\ at # Unknown => (Decide(policy, upstream, a, at) = "require_approval" <=>
               ~AnyMatch(grant.deny, a, at, "deny") /\ AnyMatch(grant.approve, a, at, "require_approval"))
          /\ AnyMatch(grant.deny, a, at, "deny") => Decide(policy, upstream, a, at) = "deny"
          /\ Evaluate(policy, upstream, a, at).reason = "explicit_deny" <=> AnyMatch(grant.deny, a, at, "deny")
          /\ Decide(policy, upstream, a, at) \in {"allow", "require_approval", "deny"}
    BY <1>2, DecideIs
  <2> HIDE DEF grant
  <2>4. Decide(policy, upstream, a, Somewhere) = "deny" => Decide(policy, upstream, a, t) = "deny"
    BY <2>1, <2>2, <2>3
  <2>5. Decide(policy, upstream, a, Somewhere) = "allow" => Decide(policy, upstream, a, t) # "require_approval"
    BY <2>1, <2>2, <2>3
  <2> QED
    BY <2>2, <2>3, <2>4, <2>5
<1> QED
  BY <1>1, <1>2

\* The blast radius decides as the engine does.
LEMMA ExposureIs ==
  ASSUME NEW policy, Policy(policy), NEW upstream, NEW a
  PROVE  ExposureOf(policy, upstream, a) = Decide(policy, upstream, a, Somewhere)
<1>1. CASE upstream \notin DOMAIN policy
  BY <1>1, UngrantedIs DEF ExposureOf
<1>2. CASE upstream \in DOMAIN policy
  <2> DEFINE grant == policy[upstream]
             denied == \E r \in Range(grant.deny) : r.at = AnyTarget /\ a \in r.on
             asked == \E r \in Range(grant.approve) : a \in r.on
             let == \E r \in Range(grant.allow) : a \in r.on
  <2>1. /\ \A r \in Range(grant.deny) \cup Range(grant.approve) \cup Range(grant.allow) : r \in Rule
        /\ Somewhere # Unknown
    BY <1>2, RulesOf, EngineAssumption DEF Policy
  <2>2. /\ AnyMatch(grant.deny, a, Somewhere, "deny") <=> denied
        /\ AnyMatch(grant.approve, a, Somewhere, "require_approval") <=> asked
        /\ AnyMatch(grant.allow, a, Somewhere, "allow") <=> let
    BY <2>1, MatchesIs DEF AnyMatch
  <2>3. ExposureOf(policy, upstream, a) = IF denied THEN "deny" ELSE IF asked THEN "require_approval" ELSE IF let THEN "allow" ELSE "deny"
    BY <1>2 DEF ExposureOf
  <2>4. /\ Decide(policy, upstream, a, Somewhere) = "allow" <=> ~denied /\ ~asked /\ let
        /\ Decide(policy, upstream, a, Somewhere) = "require_approval" <=> ~denied /\ asked
        /\ Decide(policy, upstream, a, Somewhere) \in {"allow", "require_approval", "deny"}
    BY <1>2, <2>1, <2>2, DecideIs
  <2> HIDE DEF denied, asked, let
  <2> QED
    BY <2>3, <2>4
<1> QED
  BY <1>1, <1>2

\* Overlays and wires only ever cover more for the null target.
LEMMA FrictionCovers ==
  ASSUME NEW ruleset \in Seq(Rule), NEW a, NEW t \in Targets
  PROVE  /\ AgentRequiresApproval(ruleset, a, t) => AgentRequiresApproval(ruleset, a, Somewhere)
         /\ Trips(ruleset, a, t) => Trips(ruleset, a, Somewhere)
<1>1. \A r \in Range(CaseInsensitive(ruleset)) : r \in Rule
  BY FoldedRules, RangeIs
<1> QED
  BY <1>1, MatchesIs DEF AgentRequiresApproval, Trips

Capping == [rule : Rule, bytes : Nat, exceed : {"deny", "truncate"}]
Capped(caps, a, t) == {c \in Range(caps) : Matches(CaseInsensitive(<<c.rule>>)[1], a, t, "allow")}

LEMMA CapIs ==
  ASSUME NEW c \in Capping, NEW a
  PROVE  /\ CaseInsensitive(<<c.rule>>)[1] = Folding(c.rule) /\ Folding(c.rule) \in Rule
         /\ Folding(c.rule).on = c.rule.on /\ c.bytes \in Nat /\ c.exceed \in {"deny", "truncate"}
<1>1. c.rule \in Rule /\ c.bytes \in Nat /\ c.exceed \in {"deny", "truncate"}
  BY DEF Capping
<1>2. <<c.rule>> \in Seq(Rule) /\ 1 \in DOMAIN <<c.rule>> /\ <<c.rule>>[1] = c.rule
  BY <1>1
<1> QED
  BY <1>1, <1>2, FoldedRules, FoldingIs

LEMMA LeastOf ==
  ASSUME NEW S, S \subseteq Nat, S # {}
  PROVE  Min(S) \in S /\ \A n \in S : Min(S) <= n
<1>1. PICK m \in S : \A n \in S : m <= n
  BY LeastNumber
<1> QED
  BY <1>1 DEF Min

LEMMA CapsCover ==
  ASSUME NEW caps \in Seq(Capping), NEW a, NEW t \in Targets, ResponseLimit(caps, a, t).exceed # "uncapped"
  PROVE  LET worst == ResponseLimit(caps, a, Somewhere) here == ResponseLimit(caps, a, t)
         IN worst.bytes < here.bytes \/ (worst.bytes = here.bytes /\ (here.exceed = "deny" => worst.exceed = "deny"))
<1> DEFINE here == Capped(caps, a, t)
           worst == Capped(caps, a, Somewhere)
           least(S) == Min({c.bytes : c \in S})
<1>1. \A c \in Range(caps) : c \in Capping
  BY RangeIs
<1>2. here \subseteq worst
  BY <1>1, CapIs, MatchesIs DEF Capped
<1>3. here # {}
  BY DEF ResponseLimit, Capped
<1>4. \A S \in {here, worst} : least(S) \in {c.bytes : c \in S} /\ least(S) \in Nat /\ \A c \in S : least(S) <= c.bytes
  <2>1. ASSUME NEW S \in {here, worst} PROVE least(S) \in {c.bytes : c \in S} /\ \A n \in {c.bytes : c \in S} : least(S) <= n
    <3>1. {c.bytes : c \in S} \subseteq Nat /\ {c.bytes : c \in S} # {}
      BY <1>1, <1>2, <1>3, CapIs DEF Capped
    <3> QED
      BY <3>1, LeastOf
  <2>2. ASSUME NEW S \in {here, worst} PROVE least(S) \in Nat
    BY <2>1, <1>1, CapIs DEF Capped
  <2> HIDE DEF least, here, worst
  <2> QED
    BY <2>1, <2>2
<1>5. \A S \in {here, worst} : S # {}
  BY <1>2, <1>3
<1>6. /\ ResponseLimit(caps, a, t).bytes = least(here) /\ ResponseLimit(caps, a, Somewhere).bytes = least(worst)
      /\ ResponseLimit(caps, a, t).exceed =
           IF \E c \in here : c.bytes = least(here) /\ c.exceed = "deny" THEN "deny" ELSE "truncate"
      /\ ResponseLimit(caps, a, Somewhere).exceed =
           IF \E c \in worst : c.bytes = least(worst) /\ c.exceed = "deny" THEN "deny" ELSE "truncate"
  BY <1>5 DEF ResponseLimit, Capped
<1>7. least(worst) <= least(here)
  BY <1>2, <1>4
<1> HIDE DEF least, here, worst
<1>8. least(worst) \in Nat /\ least(here) \in Nat
  BY <1>4
<1> QED
  BY <1>2, <1>6, <1>7, <1>8

LEMMA WrittenPolicy ==
  ASSUME NEW text, Written(text)
  PROVE  Policy(Compile(text.grants)) /\ DOMAIN Compile(text.grants) \subseteq Tools
         /\ DOMAIN Compile(text.grants) = DOMAIN text.grants
<1>1. \A upstream \in DOMAIN text.grants : upstream \in Tools /\ text.grants[upstream] \in Grant
  BY DEF Written
<1> QED
  BY <1>1, CompiledIs DEF Policy

LEMMA NullTargetIsHonest ==
  ASSUME NEW text, Reviewable(text)
  PROVE  ReachabilityIsHonest(text)
<1> DEFINE policy == Compile(text.grants)
<1>1. /\ Policy(policy) /\ text.limits.overlay \in Seq(Rule) /\ text.limits.wires \in Seq(Rule)
      /\ text.limits.caps \in Seq(Capping)
  BY WrittenPolicy DEF Reviewable, Capping
<1> HIDE DEF policy
<1>2. ASSUME NEW p \in Pairs, NEW t \in Targets
      PROVE  /\ Decide(policy, p[1], p[2], Somewhere) = "deny" => Decide(policy, p[1], p[2], t) = "deny"
             /\ Decide(policy, p[1], p[2], Somewhere) = "allow" => Decide(policy, p[1], p[2], t) # "require_approval"
             /\ Evaluate(policy, p[1], p[2], Somewhere).reason = "explicit_deny" =>
                  Decide(policy, p[1], p[2], Unknown) = "deny"
  BY <1>1, SomewhereBounds
<1>3. ASSUME NEW p \in Enumerable
      PROVE  /\ (p[2] \in AutoAllow(policy, p[1])) = (Decide(policy, p[1], p[2], Somewhere) = "allow")
             /\ (p[2] \in RequiresApproval(policy, p[1])) = (Decide(policy, p[1], p[2], Somewhere) = "require_approval")
  <2>1. p[2] \in Vocabulary[p[1]]
    BY DEF Enumerable
  <2>2. ExposureOf(policy, p[1], p[2]) = Decide(policy, p[1], p[2], Somewhere)
    BY <1>1, ExposureIs
  <2>3. /\ p[2] \in AutoAllow(policy, p[1]) <=> Decide(policy, p[1], p[2], Somewhere) = "allow"
        /\ p[2] \in RequiresApproval(policy, p[1]) <=> Decide(policy, p[1], p[2], Somewhere) = "require_approval"
    BY <2>1, <2>2 DEF AutoAllow, RequiresApproval
  <2> QED
    BY <2>3
<1>4. ASSUME NEW p \in Pairs, NEW t \in Targets
      PROVE  /\ AgentRequiresApproval(text.limits.overlay, p[2], t) => AgentRequiresApproval(text.limits.overlay, p[2], Somewhere)
             /\ Trips(text.limits.wires, p[2], t) => Trips(text.limits.wires, p[2], Somewhere)
             /\ ResponseLimit(text.limits.caps, p[2], t).exceed # "uncapped" =>
                  LET worst == ResponseLimit(text.limits.caps, p[2], Somewhere) here == ResponseLimit(text.limits.caps, p[2], t)
                  IN worst.bytes < here.bytes \/ (worst.bytes = here.bytes /\ (here.exceed = "deny" => worst.exceed = "deny"))
  BY <1>1, FrictionCovers, CapsCover
<1> QED
  BY <1>2, <1>3, <1>4 DEF ReachabilityIsHonest, policy

-------------------------------------------------------------------------------
(* What the linter flags is idle. *)

Unflagged(s, flagged) == {s[i] : i \in DOMAIN s \ flagged}

LEMMA WithoutIs ==
  ASSUME NEW S, NEW s \in Seq(S), NEW flagged
  PROVE  /\ Without(s, flagged) \in Seq(S) /\ Range(Without(s, flagged)) = Unflagged(s, flagged)
         /\ IsFiniteSet(Unflagged(s, flagged))
<1> DEFINE kept == {s[i] : i \in DOMAIN s \ flagged}
<1>1. kept \subseteq Range(s) /\ IsFiniteSet(Range(s)) /\ Range(s) \subseteq S
  BY RangeIs DEF Range
<1>2. IsFiniteSet(kept)
  BY <1>1, FS_Subset
<1>3. SetToSeq(kept) \in Seq(kept) /\ Range(SetToSeq(kept)) = kept
  BY <1>2, SetInSequence
<1>4. Seq(kept) \subseteq Seq(S)
  BY <1>1
<1> QED
  BY <1>2, <1>3, <1>4 DEF Without, Unflagged

\* The first bare rule that covers an action is not shadowed, and it covers what any
\* shadowed one does.
LEMMA ShadowsAreIdle ==
  ASSUME NEW ruleset \in Seq(Rule), NEW known, NEW a \in known
  PROVE  LET kept == Without(ruleset, ShadowedPatterns(ruleset, known))
             asks(list) == \E r \in Range(list) : r.ask /\ a \in r.on
         IN /\ \A t, clause : AnyMatch(kept, a, t, clause) <=> AnyMatch(ruleset, a, t, clause)
            /\ asks(kept) => asks(ruleset)
            /\ asks(ruleset) => asks(kept) \/ AnyMatch(kept, a, Unknown, "allow")
<1> DEFINE shadowed == ShadowedPatterns(ruleset, known)
           kept == Without(ruleset, shadowed)
           Covering == {i \in DOMAIN ruleset : ruleset[i].at = AnyTarget /\ a \in ruleset[i].on}
<1>0. Range(kept) = {ruleset[i] : i \in DOMAIN ruleset \ shadowed}
  <2> HIDE DEF shadowed
  <2>1. Range(Without(ruleset, shadowed)) = Unflagged(ruleset, shadowed)
    BY WithoutIs
  <2> QED
    BY <2>1 DEF Unflagged
<1>1. /\ Range(kept) = {ruleset[i] : i \in DOMAIN ruleset \ shadowed} /\ DOMAIN ruleset = 1..Len(ruleset) /\ Len(ruleset) \in Nat
      /\ \A i \in DOMAIN ruleset : ruleset[i] \in Rule
  <2> HIDE DEF kept, shadowed
  <2> QED
    BY <1>0
<1>2. ASSUME NEW i \in shadowed, a \in ruleset[i].on
      PROVE  \E r \in Range(kept) : r.at = AnyTarget /\ a \in r.on
  <2>1. PICK j \in 1..(i - 1) : /\ i \in DOMAIN ruleset /\ ruleset[j].at = AnyTarget
                                /\ Reaches(ruleset[i], known) \subseteq Reaches(ruleset[j], known)
    BY <1>2 DEF ShadowedPatterns
  <2>2. j \in Covering
    BY <1>1, <1>2, <2>1 DEF Reaches
  <2>3. PICK k \in Covering : \A m \in Covering : k <= m
    <3>1. Covering \subseteq Nat /\ Covering # {}
      BY <1>1, <2>2
    <3> QED
      BY <3>1, LeastNumber
  <2>4. k \notin shadowed
    <3> SUFFICES ASSUME k \in shadowed PROVE FALSE
      OBVIOUS
    <3>1. PICK m \in 1..(k - 1) : ruleset[m].at = AnyTarget /\ Reaches(ruleset[k], known) \subseteq Reaches(ruleset[m], known)
      BY DEF ShadowedPatterns
    <3>2. m \in Covering
      BY <1>1, <3>1 DEF Reaches
    <3>3. k <= m /\ k \in Nat
      BY <1>1, <2>3, <3>2
    <3> QED
      BY <3>1, <3>3
  <2> QED
    BY <1>1, <2>3, <2>4
<1> HIDE DEF shadowed, kept
<1>3. /\ \A r \in Range(kept) : r \in Range(ruleset)
      /\ \A r \in Range(ruleset) : r \in Range(kept) \/ \E i \in shadowed : r = ruleset[i]
  BY <1>1 DEF Range
<1>4. \A r \in Range(ruleset) : a \in r.on => r \in Range(kept) \/ \E s \in Range(kept) : s.at = AnyTarget /\ a \in s.on
  BY <1>2, <1>3
<1>5. ASSUME NEW t, NEW clause PROVE AnyMatch(kept, a, t, clause) <=> AnyMatch(ruleset, a, t, clause)
  <2>1. \A s : s.at = AnyTarget /\ a \in s.on => Matches(s, a, t, clause)
    BY DEF Matches
  <2>2. \A r : Matches(r, a, t, clause) => a \in r.on
    BY DEF Matches
  <2> QED
    BY <1>3, <1>4, <2>1, <2>2 DEF AnyMatch
<1>6. \A s : s.at = AnyTarget /\ a \in s.on => Matches(s, a, Unknown, "allow")
  BY DEF Matches
<1> QED
  BY <1>3, <1>4, <1>5, <1>6 DEF AnyMatch, kept, shadowed

\* The policy without all that its grants' linter calls shadowed.
Trimmed(grant, known) ==
  [deny |-> Without(grant.deny, ShadowedPatterns(grant.deny, known)),
   approve |-> Without(grant.approve, ShadowedPatterns(grant.approve, known)),
   allow |-> Without(grant.allow, ShadowedPatterns(grant.allow, known))]

LEMMA TrimmedDecidesTheSame ==
  ASSUME NEW policy, Policy(policy), NEW upstream \in DOMAIN policy, NEW a \in Vocabulary[upstream], NEW t
  PROVE  LET trimmed == [u \in DOMAIN policy |-> Trimmed(policy[u], Vocabulary[u])]
         IN Decide(trimmed, upstream, a, t) = Decide(policy, upstream, a, t)
<1> DEFINE trimmed == [u \in DOMAIN policy |-> Trimmed(policy[u], Vocabulary[u])]
           grant == policy[upstream]
           trim == trimmed[upstream]
           denied(g) == AnyMatch(g.deny, a, t, "deny")
           asked(g) == AnyMatch(g.approve, a, t, "require_approval")
           let(g) == AnyMatch(g.allow, a, t, "allow")
           open(g) == \E r \in Range(g.allow) : r.ask /\ a \in r.on
<1>1. \A ruleset \in {grant.deny, grant.approve, grant.allow} : ruleset \in Seq(Rule)
  BY RulesOf DEF Policy
<1>2. trim = Trimmed(grant, Vocabulary[upstream]) /\ DOMAIN trimmed = DOMAIN policy
  OBVIOUS
<1>3. /\ trim.deny = Without(grant.deny, ShadowedPatterns(grant.deny, Vocabulary[upstream]))
      /\ trim.approve = Without(grant.approve, ShadowedPatterns(grant.approve, Vocabulary[upstream]))
      /\ trim.allow = Without(grant.allow, ShadowedPatterns(grant.allow, Vocabulary[upstream]))
  BY <1>2 DEF Trimmed
<1>4. /\ denied(trim) <=> denied(grant)
      /\ asked(trim) <=> asked(grant)
      /\ let(trim) <=> let(grant)
  BY <1>1, <1>3, ShadowsAreIdle
<1>5. (open(trim) => open(grant)) /\ (open(grant) => open(trim) \/ AnyMatch(trim.allow, a, Unknown, "allow"))
  BY <1>1, <1>3, ShadowsAreIdle
<1> HIDE DEF grant, trim, trimmed
<1>6. \A p \in {policy, trimmed} :
        /\ Decide(p, upstream, a, t) = "allow" <=> ~denied(p[upstream]) /\ ~asked(p[upstream]) /\ let(p[upstream])
        /\ Decide(p, upstream, a, t) = "require_approval" <=>
             ~denied(p[upstream]) /\ (asked(p[upstream]) \/ (~let(p[upstream]) /\ t = Unknown /\ open(p[upstream])))
        /\ Decide(p, upstream, a, t) \in {"allow", "require_approval", "deny"}
  BY <1>2, DecideIs
<1>7. t = Unknown /\ ~let(trim) => (open(trim) <=> open(grant))
  BY <1>5
<1>8. policy[upstream] = grant /\ trimmed[upstream] = trim
  BY DEF grant, trim
<1>9. /\ Decide(policy, upstream, a, t) = "allow" <=> Decide(trimmed, upstream, a, t) = "allow"
      /\ Decide(policy, upstream, a, t) = "require_approval" <=> Decide(trimmed, upstream, a, t) = "require_approval"
  <2>1. \A g \in {grant, trim} : denied(g) \in BOOLEAN /\ asked(g) \in BOOLEAN /\ let(g) \in BOOLEAN /\ open(g) \in BOOLEAN
    BY DEF AnyMatch
  <2> HIDE DEF denied, asked, let, open
  <2>2. /\ Decide(policy, upstream, a, t) = "allow" <=> ~denied(grant) /\ ~asked(grant) /\ let(grant)
        /\ Decide(policy, upstream, a, t) = "require_approval" <=>
             ~denied(grant) /\ (asked(grant) \/ (~let(grant) /\ t = Unknown /\ open(grant)))
        /\ Decide(trimmed, upstream, a, t) = "allow" <=> ~denied(trim) /\ ~asked(trim) /\ let(trim)
        /\ Decide(trimmed, upstream, a, t) = "require_approval" <=>
             ~denied(trim) /\ (asked(trim) \/ (~let(trim) /\ t = Unknown /\ open(trim)))
    BY <1>6, <1>8
  <2> QED
    BY <1>4, <1>7, <2>1, <2>2
<1> QED
  BY <1>6, <1>9 DEF trimmed

-------------------------------------------------------------------------------
(* Prices. *)

Weighing == [on : SUBSET Actions, weight : Nat]
Prices(weights, a) == {1} \cup {w.weight : w \in {v \in Range(weights) : a \in v.on}}

LEMMA PricesAre ==
  ASSUME NEW weights \in Seq(Weighing), NEW a
  PROVE  /\ Prices(weights, a) \in SUBSET Nat /\ IsFiniteSet(Prices(weights, a))
         /\ ActionCost(weights, a) = Max(Prices(weights, a))
         /\ ActionCost(weights, a) \in Prices(weights, a)
         /\ \A n \in Prices(weights, a) : n <= ActionCost(weights, a)
<1> DEFINE matching == {v \in Range(weights) : a \in v.on}
           prices == {w.weight : w \in matching}
<1>1. IsFiniteSet(Range(weights)) /\ \A v \in Range(weights) : v \in Weighing
  BY RangeIs
<1>2. IsFiniteSet(matching)
  BY <1>1, FS_Subset
<1>3. IsFiniteSet(prices)
  <2> DEFINE f == [w \in matching |-> w.weight]
  <2>1. f \in Surjection(matching, prices)
    BY DEF Surjection
  <2> QED
    BY <1>2, <2>1, FS_Surjection DEF ExistsSurjection
<1>4. prices \subseteq Nat
  BY <1>1 DEF Weighing
<1>5. Prices(weights, a) = {1} \cup prices
  BY DEF Prices
<1> HIDE DEF prices
<1>6. IsFiniteSet({1} \cup prices)
  <2>1. IsFiniteSet({1})
    BY FS_Singleton
  <2> QED
    BY <1>3, <2>1, FS_Union
<1>7. Prices(weights, a) \in SUBSET Nat /\ IsFiniteSet(Prices(weights, a)) /\ Prices(weights, a) # {}
  BY <1>4, <1>5, <1>6
<1>8. ActionCost(weights, a) = Max(Prices(weights, a))
  BY DEF ActionCost, Prices
<1> QED
  BY <1>7, <1>8, GreatestNumber

\* Of the prices an action pays, the first of the highest is not dominated.
LEMMA DominatedPricesAreIdle ==
  ASSUME NEW policy, NEW limits, limits.weights \in Seq(Weighing),
         NEW p \in Enumerable, p[1] \in DOMAIN policy
  PROVE  ActionCost(Without(limits.weights, DominatedWeights(policy, limits)), p[2]) = ActionCost(limits.weights, p[2])
<1> DEFINE weights == limits.weights
           a == p[2]
           flagged == DominatedWeights(policy, limits)
           kept == Without(weights, flagged)
<1>1. kept \in Seq(Weighing)
  <2> HIDE DEF flagged
  <2> QED
    BY WithoutIs
<1>2. Range(kept) = {weights[i] : i \in DOMAIN weights \ flagged}
  <2> HIDE DEF flagged
  <2>1. Range(Without(weights, flagged)) = Unflagged(weights, flagged)
    BY WithoutIs
  <2> QED
    BY <2>1 DEF Unflagged
<1>3. weights \in Seq(Weighing) /\ DOMAIN weights = 1..Len(weights) /\ Len(weights) \in Nat
      /\ \A i \in DOMAIN weights : weights[i] \in Weighing /\ weights[i].weight \in Nat
  <2>1. \A v \in Weighing : v.weight \in Nat
    BY DEF Weighing
  <2>2. weights \in Seq(Weighing)
    OBVIOUS
  <2> HIDE DEF weights
  <2> QED
    BY <2>1, <2>2
<1>4. p \in Pairs /\ a \in Vocabulary[p[1]] /\ p = <<p[1], a>>
  BY DEF Enumerable, Pairs
<1> HIDE DEF weights, kept
<1>5. Prices(kept, a) \subseteq Prices(weights, a)
  BY <1>2 DEF Prices, Range
<1>6. ActionCost(weights, a) \in Prices(kept, a)
  <2> DEFINE top == ActionCost(weights, a)
             Paying == {i \in DOMAIN weights : weights[i].weight = top /\ a \in weights[i].on}
  <2>1. top \in Prices(weights, a) /\ top \in Nat /\ \A n \in Prices(weights, a) : n <= top
    BY <1>3, PricesAre
  <2> HIDE DEF top
  <2>2. CASE top = 1
    BY <2>2 DEF Prices, top
  <2>3. CASE top # 1
    <3>1. PICK v \in Range(weights) : a \in v.on /\ v.weight = top
      BY <2>1, <2>3 DEF Prices
    <3>2. Paying # {} /\ Paying \subseteq Nat
      BY <1>3, <3>1 DEF Range
    <3>3. PICK k \in Paying : \A m \in Paying : k <= m
      BY <3>2, LeastNumber
    <3>4. k \notin flagged
      <4> SUFFICES ASSUME k \in flagged PROVE FALSE
        OBVIOUS
      <4>1. PICK j \in DOMAIN weights \ {k} : Dominates(policy, weights, j, k)
        BY DEF DominatedWeights, weights
      <4>2. /\ weights[j].weight > weights[k].weight \/ (weights[j].weight = weights[k].weight /\ j < k)
            /\ Taxed(policy, weights[k]) \subseteq Taxed(policy, weights[j])
        BY <4>1 DEF Dominates
      <4>3. p \in Taxed(policy, weights[k])
        BY <1>4, <3>3 DEF Taxed, Pairs
      <4>4. a \in weights[j].on
        BY <4>2, <4>3 DEF Taxed
      <4>5. weights[j].weight \in Prices(weights, a)
        BY <4>1, <4>4 DEF Prices, Range
      <4>6. weights[j].weight <= top /\ weights[j].weight \in Nat /\ weights[k].weight = top
        BY <1>3, <2>1, <3>3, <4>1, <4>5
      <4>7. weights[j].weight = top /\ j < k
        BY <2>1, <4>2, <4>6
      <4>8. k <= j /\ j \in Nat /\ k \in Nat
        BY <1>3, <3>3, <4>1, <4>4, <4>7
      <4> QED
        BY <4>7, <4>8
    <3>5. weights[k] \in Range(kept)
      BY <1>2, <3>3, <3>4
    <3> QED
      BY <3>3, <3>5 DEF Prices, top
  <2> QED
    BY <2>2, <2>3
<1>7. /\ ActionCost(kept, a) \in Prices(kept, a) /\ \A n \in Prices(kept, a) : n <= ActionCost(kept, a)
      /\ \A n \in Prices(weights, a) : n <= ActionCost(weights, a)
      /\ Prices(weights, a) \in SUBSET Nat
  BY <1>1, <1>3, PricesAre
<1>8. /\ ActionCost(kept, a) <= ActionCost(weights, a) /\ ActionCost(weights, a) <= ActionCost(kept, a)
      /\ ActionCost(kept, a) \in Nat /\ ActionCost(weights, a) \in Nat
  BY <1>5, <1>6, <1>7
<1>9. ActionCost(kept, a) = ActionCost(weights, a)
  BY <1>8
<1> QED
  BY <1>9 DEF kept, weights

\* Where a price is out of reach, the one to pay there is at least as high.
LEMMA UnreachableIsOutOfReach ==
  ASSUME NEW policy, DOMAIN policy \subseteq Tools, NEW limits, limits.weights \in Seq(Weighing),
         limits.perHour \in Nat, "unnamed" \notin DOMAIN limits.perAgent,
         \A upstream \in DOMAIN limits.perUpstream : limits.perUpstream[upstream] \in Nat \ {0},
         NEW i \in UnreachableWeights(policy, limits)
  PROVE  \E upstream \in Tools :
           /\ \E p \in Taxed(policy, limits.weights[i]) : p[1] = upstream
           /\ \A p \in Taxed(policy, limits.weights[i]) :
                p[1] = upstream => ~MayForward(limits, "unnamed", upstream, 0, ActionCost(limits.weights, p[2]))
<1> DEFINE w == limits.weights[i]
           taxed == Taxed(policy, w)
<1>1. /\ i \in DOMAIN limits.weights /\ {p[1] : p \in taxed} # {}
      /\ \/ limits.perHour # 0 /\ w.weight > limits.perHour
         \/ \E upstream \in {p[1] : p \in taxed} \intersect DOMAIN limits.perUpstream : w.weight > limits.perUpstream[upstream]
  BY DEF UnreachableWeights
<1>2. w \in Range(limits.weights) /\ w.weight \in Nat
  <2>1. limits.weights[i] \in Range(limits.weights) /\ Range(limits.weights) \subseteq Weighing
    BY <1>1, RangeIs
  <2>2. \A v \in Weighing : v.weight \in Nat
    BY DEF Weighing
  <2> QED
    BY <2>1, <2>2
<1>3. ASSUME NEW p \in taxed
      PROVE  /\ p[1] \in Tools /\ ActionCost(limits.weights, p[2]) \in Nat
             /\ w.weight <= ActionCost(limits.weights, p[2])
  <2>1. p[1] \in Tools /\ p[2] \in w.on
    BY <1>3 DEF Taxed
  <2>2. w.weight \in Prices(limits.weights, p[2])
    BY <1>2, <2>1 DEF Prices
  <2> QED
    BY <2>1, <2>2, PricesAre
<1>4. AgentCeiling(limits, "unnamed") = limits.perHour
  BY DEF AgentCeiling
<1> HIDE DEF w, taxed
<1>5. CASE limits.perHour # 0 /\ w.weight > limits.perHour
  <2>1. PICK p \in taxed : TRUE
    BY <1>1
  <2>2. \A q \in taxed : ~WithinCeiling(limits.perHour, 0, ActionCost(limits.weights, q[2]))
    <3>1. ASSUME NEW q \in taxed PROVE ~WithinCeiling(limits.perHour, 0, ActionCost(limits.weights, q[2]))
      <4>1. PICK c \in Nat : c = ActionCost(limits.weights, q[2]) /\ w.weight <= c
        BY <1>3
      <4>2. ~(limits.perHour = 0 \/ 0 + c <= limits.perHour)
        BY <1>2, <1>5, <4>1
      <4> QED
        BY <4>1, <4>2 DEF WithinCeiling
    <3> QED
      BY <3>1
  <2>3. \A q \in taxed, upstream \in Tools : ~MayForward(limits, "unnamed", upstream, 0, ActionCost(limits.weights, q[2]))
    BY <1>4, <2>2 DEF MayForward
  <2> QED
    BY <1>3, <2>1, <2>3 DEF w, taxed
<1>6. CASE \E upstream \in {p[1] : p \in taxed} \intersect DOMAIN limits.perUpstream : w.weight > limits.perUpstream[upstream]
  <2>1. PICK p \in taxed : p[1] \in DOMAIN limits.perUpstream /\ w.weight > limits.perUpstream[p[1]]
    BY <1>6
  <2>2. limits.perUpstream[p[1]] \in Nat \ {0}
    BY <2>1
  <2>3. ASSUME NEW q \in taxed PROVE ~WithinCeiling(limits.perUpstream[p[1]], 0, ActionCost(limits.weights, q[2]))
    <3>1. PICK c \in Nat : c = ActionCost(limits.weights, q[2]) /\ w.weight <= c
      BY <1>3
    <3>2. PICK h \in Nat \ {0} : h = limits.perUpstream[p[1]]
      BY <2>2
    <3>3. ~(h = 0 \/ 0 + c <= h)
      BY <1>2, <2>1, <3>1, <3>2
    <3> QED
      BY <3>1, <3>2, <3>3 DEF WithinCeiling
  <2>4. \A q \in taxed : q[1] = p[1] => ~MayForward(limits, "unnamed", p[1], 0, ActionCost(limits.weights, q[2]))
    BY <2>1, <2>3 DEF MayForward
  <2> QED
    BY <1>3, <2>4 DEF w, taxed
<1> QED
  BY <1>1, <1>5, <1>6 DEF taxed

-------------------------------------------------------------------------------
(* Caps, flows, ceilings, decoys and wires. *)

LEMMA AllowedByAGrant ==
  ASSUME NEW policy, NEW upstream, NEW a, NEW t, Decide(policy, upstream, a, t) = "allow"
  PROVE  upstream \in DOMAIN policy /\ \E r \in Range(policy[upstream].allow) : a \in r.on /\ Matches(r, a, t, "allow")
<1>1. upstream \in DOMAIN policy
  BY UngrantedIs
<1>2. AnyMatch(policy[upstream].allow, a, t, "allow")
  BY <1>1, DecideIs
<1> QED
  BY <1>1, <1>2 DEF AnyMatch, Matches

LEMMA InertCapsAreIdle ==
  ASSUME NEW policy, NEW caps \in Seq(Capping), NEW a \in KnownActions(policy), NEW t
  PROVE  ResponseLimit(Without(caps, InertCaps(policy, caps)), a, t) = ResponseLimit(caps, a, t)
<1> DEFINE flagged == InertCaps(policy, caps)
           kept == Without(caps, flagged)
<1>1. Range(kept) = Unflagged(caps, flagged)
  <2> HIDE DEF flagged
  <2> QED
    BY WithoutIs
<1>2. ASSUME NEW i \in flagged PROVE i \in DOMAIN caps /\ a \notin caps[i].rule.on
  <2> DEFINE globs == [j \in DOMAIN caps |-> caps[j].rule.on]
  <2>1. i \in DOMAIN globs /\ globs[i] \intersect KnownActions(policy) = {}
    BY <1>2 DEF InertCaps, Inert
  <2> QED
    BY <2>1
<1>3. \A c \in Range(caps) : c \in Capping
  BY RangeIs
<1> HIDE DEF flagged, kept
<1>4. \A c \in Range(caps) : Matches(CaseInsensitive(<<c.rule>>)[1], a, t, "allow") => a \in c.rule.on
  BY <1>3, CapIs DEF Matches
<1>5. \A i \in DOMAIN caps : caps[i] \in Range(caps)
  BY DEF Range
<1>6. Capped(kept, a, t) = Capped(caps, a, t)
  <2>1. ASSUME NEW c \in Capped(caps, a, t) PROVE c \in Range(kept)
    <3>1. PICK i \in DOMAIN caps : c = caps[i]
      BY DEF Capped, Range
    <3>2. a \in c.rule.on
      BY <1>4 DEF Capped
    <3> QED
      BY <1>1, <1>2, <3>1, <3>2 DEF Unflagged
  <2>2. Range(kept) \subseteq Range(caps)
    BY <1>1, <1>5 DEF Unflagged
  <2> QED
    BY <2>1, <2>2 DEF Capped
<1> QED
  BY <1>6 DEF ResponseLimit, Capped, kept, flagged

LEMMA InertSidesAreIdle ==
  ASSUME NEW policy, NEW globs \in Seq(SUBSET Actions), NEW a \in KnownActions(policy)
  PROVE  a \in UNION Range(Without(globs, Inert(policy, globs))) <=> a \in UNION Range(globs)
<1> DEFINE flagged == Inert(policy, globs)
           kept == Without(globs, flagged)
<1>1. Range(kept) = Unflagged(globs, flagged)
  <2> HIDE DEF flagged
  <2> QED
    BY WithoutIs
<1>2. \A i \in flagged : a \notin globs[i]
  BY DEF Inert
<1> HIDE DEF flagged, kept
<1>3. a \in UNION Range(kept) <=> \E i \in DOMAIN globs \ flagged : a \in globs[i]
  BY <1>1 DEF Unflagged
<1>4. a \in UNION Range(globs) <=> \E i \in DOMAIN globs : a \in globs[i]
  BY DEF Range
<1> QED
  BY <1>2, <1>3, <1>4 DEF flagged, kept

LEMMA InertIsIdle ==
  ASSUME NEW policy, NEW limits, limits.caps \in Seq(Capping),
         limits.flows \in Seq([when : Seq(SUBSET Actions), then : Seq(SUBSET Actions)]), "perAgent" \in DOMAIN limits
  PROVE  InertIsHarmless(policy, limits, {p \in Enumerable : p[1] \in DOMAIN policy})
<1> DEFINE known == {p \in Enumerable : p[1] \in DOMAIN policy}
           caps == Without(limits.caps, InertCaps(policy, limits.caps))
           trim(flow) == [when |-> Without(flow.when, InertSides(policy, flow).when),
                          then |-> Without(flow.then, InertSides(policy, flow).then)]
           keys(registered) == DOMAIN limits.perAgent \ InertKeys(limits, registered)
           live(registered) == [limits EXCEPT !.perAgent = [a \in keys(registered) |-> @[a]]]
<1>1. \A p \in known : p[2] \in KnownActions(policy)
  BY DEF Enumerable, KnownActions
<1> HIDE DEF known
<1>2. \A p \in known, t \in Targets \cup {Somewhere} : ResponseLimit(caps, p[2], t) = ResponseLimit(limits.caps, p[2], t)
  BY <1>1, InertCapsAreIdle
<1>3. ASSUME NEW f \in Range(limits.flows), NEW p \in known, NEW q \in known
      PROVE  Engages(trim(f), p[2], q[2]) = Engages(f, p[2], q[2])
  <2>1. f.when \in Seq(SUBSET Actions) /\ f.then \in Seq(SUBSET Actions)
    <3>1. f \in [when : Seq(SUBSET Actions), then : Seq(SUBSET Actions)]
      BY RangeIs
    <3> QED
      BY <3>1
  <2>2. /\ p[2] \in UNION Range(Without(f.when, Inert(policy, f.when))) <=> p[2] \in UNION Range(f.when)
        /\ q[2] \in UNION Range(Without(f.then, Inert(policy, f.then))) <=> q[2] \in UNION Range(f.then)
    BY <1>1, <2>1, InertSidesAreIdle
  <2>3. trim(f).when = Without(f.when, Inert(policy, f.when)) /\ trim(f).then = Without(f.then, Inert(policy, f.then))
    BY DEF InertSides
  <2> HIDE DEF trim
  <2> QED
    BY <2>2, <2>3 DEF Engages
<1>4. ASSUME NEW registered \in SUBSET DOMAIN limits.perAgent, NEW whose \in registered
      PROVE  AgentCeiling(live(registered), whose) = AgentCeiling(limits, whose)
  <2>1. live(registered).perAgent = [a \in keys(registered) |-> limits.perAgent[a]]
    OBVIOUS
  <2>2. keys(registered) = registered /\ whose \in DOMAIN limits.perAgent
    BY DEF InertKeys
  <2> HIDE DEF live, keys
  <2>3. DOMAIN live(registered).perAgent = registered /\ live(registered).perAgent[whose] = limits.perAgent[whose]
    BY <2>1, <2>2
  <2> QED
    BY <2>2, <2>3 DEF AgentCeiling
<1>5. ASSUME NEW decoys \in SUBSET Tools, NEW upstream \in decoys, NEW a \in Actions, Decide(policy, upstream, a, Somewhere) # "deny"
      PROVE  upstream \in GrantedDecoys(policy, decoys)
  BY <1>5, UngrantedIs DEF GrantedDecoys
<1> QED
  BY <1>2, <1>3, <1>4, <1>5 DEF InertIsHarmless, known

LEMMA AllowedTrapsAreReported ==
  ASSUME NEW policy, NEW wires \in Seq(Rule), NEW p \in Enumerable, NEW i \in DOMAIN wires,
         Decide(policy, p[1], p[2], Somewhere) = "allow", Trips(<<wires[i]>>, p[2], Somewhere)
  PROVE  i \in SelfRevokingWires(policy, wires)
<1>1. p[2] \in Vocabulary[p[1]]
  BY DEF Enumerable
<1>2. p[1] \in DOMAIN policy /\ \E r \in Range(policy[p[1]].allow) : p[2] \in r.on
  BY AllowedByAGrant
<1>3. wires[i] \in Rule
  OBVIOUS
<1>4. <<wires[i]>> \in Seq(Rule) /\ Range(<<wires[i]>>) = {wires[i]}
  BY <1>3 DEF Range
<1>5. Range(CaseInsensitive(<<wires[i]>>)) = {Folding(wires[i])}
  <2>1. PICK list \in Seq(Rule) : list = <<wires[i]>> /\ Range(list) = {wires[i]}
    BY <1>4
  <2>2. Range(CaseInsensitive(list)) = {Folding(r) : r \in Range(list)}
    BY FoldedRules
  <2> QED
    BY <2>1, <2>2
<1>6. p[2] \in wires[i].on
  BY <1>3, <1>5, FoldingIs DEF Trips, Matches
<1> QED
  BY <1>1, <1>2, <1>6 DEF SelfRevokingWires

LEMMA LintMayBeFollowed ==
  ASSUME NEW text, Reviewable(text)
  PROVE  LintIsSafeToFollow(text)
<1> DEFINE policy == Compile(text.grants)
           limits == text.limits
           Trim(grant, known) ==
             [deny |-> Without(grant.deny, ShadowedPatterns(grant.deny, known)),
              approve |-> Without(grant.approve, ShadowedPatterns(grant.approve, known)),
              allow |-> Without(grant.allow, ShadowedPatterns(grant.allow, known))]
           trimmed == [upstream \in DOMAIN policy |-> Trim(policy[upstream], Vocabulary[upstream])]
           known == {p \in Enumerable : p[1] \in DOMAIN policy}
<1>1. /\ Policy(policy) /\ DOMAIN policy \subseteq Tools
      /\ limits.wires \in Seq(Rule) /\ limits.caps \in Seq(Capping) /\ limits.weights \in Seq(Weighing)
      /\ limits.flows \in Seq([when : Seq(SUBSET Actions), then : Seq(SUBSET Actions)]) /\ "perAgent" \in DOMAIN limits
      /\ limits.perHour \in Nat /\ "unnamed" \notin DOMAIN limits.perAgent
      /\ \A upstream \in DOMAIN limits.perUpstream : limits.perUpstream[upstream] \in Nat \ {0}
  BY WrittenPolicy DEF Reviewable, Capping, Weighing
<1>2. \A p \in known : p \in Enumerable /\ p[1] \in DOMAIN policy /\ p[2] \in Vocabulary[p[1]]
  BY DEF Enumerable
<1>3. trimmed = [u \in DOMAIN policy |-> Trimmed(policy[u], Vocabulary[u])]
  BY DEF Trimmed
<1> HIDE DEF policy, limits
<1>4. \A p \in known, t \in Targets \cup {Somewhere, Unknown} : Decide(trimmed, p[1], p[2], t) = Decide(policy, p[1], p[2], t)
  <2> HIDE DEF trimmed, known
  <2> QED
    BY <1>1, <1>2, <1>3, TrimmedDecidesTheSame
<1> HIDE DEF known
<1>5. \A p \in known :
        ActionCost(Without(limits.weights, DominatedWeights(policy, limits)), p[2]) = ActionCost(limits.weights, p[2])
  BY <1>1, <1>2, DominatedPricesAreIdle
<1>6. \A i \in UnreachableWeights(policy, limits) : \E upstream \in Tools :
        /\ \E p \in Taxed(policy, limits.weights[i]) : p[1] = upstream
        /\ \A p \in Taxed(policy, limits.weights[i]) :
             p[1] = upstream => ~MayForward(limits, "unnamed", upstream, 0, ActionCost(limits.weights, p[2]))
  BY <1>1, UnreachableIsOutOfReach
<1>7. \A p \in known, i \in DOMAIN limits.wires :
        Decide(policy, p[1], p[2], Somewhere) = "allow" /\ Trips(<<limits.wires[i]>>, p[2], Somewhere) =>
          i \in SelfRevokingWires(policy, limits.wires)
  BY <1>1, <1>2, AllowedTrapsAreReported
<1>8. InertIsHarmless(policy, limits, known)
  BY <1>1, InertIsIdle DEF known
<1> QED
  BY <1>4, <1>5, <1>6, <1>7, <1>8 DEF LintIsSafeToFollow, policy, limits, known

-------------------------------------------------------------------------------
(* The shell's grant. *)

LEMMA ExecLintMayBeFollowed ==
  ASSUME NEW grant \in Grant, NEW exec \in SUBSET Actions, NEW interpreters \in SUBSET exec,
         \A r \in Range(grant.allow) : r.on \intersect exec = {} \/ r.on \subseteq exec \/ r.on = Actions,
         \A a \in interpreters : Actions # {a}
  PROVE  ExecLintIsSound(grant, exec, interpreters)
<1> DEFINE policy == [upstream \in {"shell"} |-> grant]
           flagged == EvadableDenies(grant, exec)
           spared == [grant EXCEPT !.deny = Without(grant.deny, flagged)]
           without == [upstream \in {"shell"} |-> spared]
           allows(a) == {i \in DOMAIN grant.allow : a \in grant.allow[i].on /\ grant.allow[i].on # Actions}
<1>1. grant = [deny |-> grant.deny, approve |-> grant.approve, allow |-> grant.allow] /\ grant.deny \in Seq(Rule)
      /\ grant.allow \in Seq(Rule) /\ \A r \in Range(grant.deny) \cup Range(grant.allow) : r \in Rule
  BY RulesOf DEF Grant
<1>2. Range(Without(grant.deny, flagged)) = Unflagged(grant.deny, flagged)
  <2> HIDE DEF flagged
  <2> QED
    BY <1>1, WithoutIs
<1>3. spared.deny = Without(grant.deny, flagged) /\ spared.approve = grant.approve /\ spared.allow = grant.allow
  BY <1>1
<1>4. ASSUME NEW a PROVE AnyMatch(spared.deny, a, Unknown, "deny") <=> AnyMatch(grant.deny, a, Unknown, "deny")
  <2>1. \A i \in flagged : i \in DOMAIN grant.deny /\ grant.deny[i].at # AnyTarget
    BY DEF EvadableDenies
  <2> HIDE DEF spared, flagged
  <2>2. \A r \in Range(grant.deny) : Matches(r, a, Unknown, "deny") => r.at = AnyTarget
    BY <1>1, MatchesIs
  <2>3. \A r \in Range(grant.deny) : r.at = AnyTarget => r \in Range(spared.deny)
    BY <1>2, <1>3, <2>1 DEF Unflagged, Range
  <2>4. Range(spared.deny) \subseteq Range(grant.deny)
    BY <1>2, <1>3 DEF Unflagged, Range
  <2> QED
    BY <2>2, <2>3, <2>4 DEF AnyMatch
<1>5. ASSUME NEW a PROVE Evaluate(policy, "shell", a, Unknown) = Evaluate(without, "shell", a, Unknown)
  <2>1. /\ "shell" \in DOMAIN policy /\ "shell" \in DOMAIN without
        /\ policy["shell"] = grant /\ without["shell"] = spared
    OBVIOUS
  <2>2. AnyMatch(spared.deny, a, Unknown, "deny") \in BOOLEAN /\ AnyMatch(grant.deny, a, Unknown, "deny") \in BOOLEAN
    BY DEF AnyMatch
  <2>3. AnyMatch(spared.deny, a, Unknown, "deny") = AnyMatch(grant.deny, a, Unknown, "deny")
    BY <1>4, <2>2
  <2> HIDE DEF policy, without, spared
  <2> QED
    BY <1>3, <2>1, <2>3 DEF Evaluate
<1>6. ASSUME NEW a, NEW t, Decide(policy, "shell", a, t) = "allow"
      PROVE  \E i \in DOMAIN grant.allow : a \in grant.allow[i].on /\ Matches(grant.allow[i], a, t, "allow")
  <2>1. policy["shell"] = grant
    OBVIOUS
  <2>2. \E r \in Range(policy["shell"].allow) : a \in r.on /\ Matches(r, a, t, "allow")
    <3> HIDE DEF policy
    <3> QED
      BY <1>6, AllowedByAGrant
  <2> QED
    BY <2>1, <2>2 DEF Range
<1> HIDE DEF policy, without
<1>7. \A i \in DOMAIN grant.allow : grant.allow[i] \in Range(grant.allow)
  BY DEF Range
<1>8. ASSUME NEW a \in exec, Decide(policy, "shell", a, Unknown) = "allow", \A r \in Range(grant.allow) : r.on # Actions
      PROVE  allows(a) \intersect UnscopedAllows(grant, exec) # {}
  <2>1. PICK i \in DOMAIN grant.allow : a \in grant.allow[i].on /\ Matches(grant.allow[i], a, Unknown, "allow")
    BY <1>6, <1>8
  <2>2. grant.allow[i].at = AnyTarget /\ grant.allow[i].on # Actions /\ grant.allow[i].on \subseteq exec
    BY <1>1, <1>7, <1>8, <2>1, MatchesIs
  <2>3. i \in UnscopedAllows(grant, exec)
    BY <2>1, <2>2 DEF UnscopedAllows, NamesExec, Unscoped
  <2> QED
    BY <2>1, <2>2, <2>3
<1>9. ASSUME NEW a \in interpreters, NEW t \in Targets, Decide(policy, "shell", a, t) = "allow"
      PROVE  \/ allows(a) \intersect RunsAnything(grant, interpreters) # {}
             \/ \E r \in Range(grant.allow) : a \in r.on /\ r.on # {a}
  <2>1. PICK i \in DOMAIN grant.allow : a \in grant.allow[i].on
    BY <1>6, <1>9
  <2>2. CASE grant.allow[i].on = {a}
    <3>1. i \in RunsAnything(grant, interpreters)
      BY <2>2 DEF RunsAnything
    <3>2. grant.allow[i].on # Actions
      BY <2>2
    <3> QED
      BY <2>1, <3>1, <3>2
  <2>3. CASE grant.allow[i].on # {a}
    BY <1>7, <2>1, <2>3
  <2> QED
    BY <2>2, <2>3
<1> QED
  BY <1>5, <1>8, <1>9 DEF ExecLintIsSound, policy, without

\* What policy diff, the blast radius and policy lint say of a text, and whatever the
\* texts: the null target they ask about bounds every target, what lint flags may go
\* without any request deciding or costing otherwise, and of a shell's grant, whose
\* patterns each name binaries only, none, or everything, lint misses no binary that is
\* allowed whatever its arguments are (policy/lint.ts, diff.ts, blast-radius/analyze.ts).
THEOREM EveryAdviceIsSound ==
  ASSUME NEW text, Reviewable(text)
  PROVE  /\ ReachabilityIsHonest(text)
         /\ LintIsSafeToFollow(text)
         /\ \A upstream \in DOMAIN text.grants, exec \in SUBSET Actions, interpreters \in SUBSET Actions :
              LET grant == CompileGrant(text.grants[upstream])
              IN /\ interpreters \subseteq exec /\ \A a \in interpreters : Actions # {a}
                 /\ \A r \in Range(grant.allow) : r.on \intersect exec = {} \/ r.on \subseteq exec \/ r.on = Actions
                 => ExecLintIsSound(grant, exec, interpreters)
<1>1. ASSUME NEW upstream \in DOMAIN text.grants PROVE CompileGrant(text.grants[upstream]) \in Grant
  <2>1. \A u \in DOMAIN text.grants : text.grants[u] \in Grant
    BY DEF Reviewable, Written
  <2> QED
    BY <2>1, CompiledIs
<1> QED
  BY <1>1, NullTargetIsHonest, LintMayBeFollowed, ExecLintMayBeFollowed

-------------------------------------------------------------------------------
(* What decay keeps. *)

Keeps(rows, peers, p) == ClassOf(rows, peers, p) \in {"active", "no_evidence"}

LEMMA KeepsIs ==
  ASSUME NEW rows, NEW peers, NEW p
  PROVE  Keeps(rows, peers, p) <=> \/ ~Covered(rows) \/ \E own \in Uses(rows, p) : Fresh(own)
                                   \/ peers[p] # 0 /\ Fresh(peers[p])
<1> DEFINE evidenced == VetoedEvidence(rows, peers, p)
           fresh == \E at \in evidenced : Fresh(at)
<1>1. /\ fresh => Classify(evidenced, Covered(rows)) = "active"
      /\ ~fresh /\ ~Covered(rows) => Classify(evidenced, Covered(rows)) = "no_evidence"
      /\ ~fresh /\ Covered(rows) => Classify(evidenced, Covered(rows)) \in {"unused", "stale"}
  <2> HIDE DEF evidenced
  <2> QED
    BY DEF Classify
<1>2. Keeps(rows, peers, p) <=> fresh \/ ~Covered(rows)
  BY <1>1 DEF Keeps, ClassOf
<1>3. Uses(rows, p) \subseteq evidenced
  BY DEF VetoedEvidence
<1>4. fresh => (\E own \in Uses(rows, p) : Fresh(own)) \/ (peers[p] # 0 /\ Fresh(peers[p]))
  BY DEF VetoedEvidence
<1>5. peers[p] # 0 /\ Fresh(peers[p]) /\ Covered(rows) => fresh
  <2>1. CASE \E own \in Uses(rows, p) : Fresh(own)
    BY <1>3, <2>1
  <2>2. CASE \A own \in Uses(rows, p) : ~Fresh(own)
    BY <2>2 DEF VetoedEvidence
  <2> QED
    BY <2>1, <2>2
<1> QED
  BY <1>2, <1>3, <1>4, <1>5

LEMMA LiteralsAre ==
  ASSUME NEW r \in Rule, NEW A \in SUBSET r.on, IsFiniteSet(A)
  PROVE  /\ \A a \in A : Literal(a, r) \in Rule /\ Literal(a, r).on = {a} /\ Literal(a, r).at = r.at
         /\ Literals(A, r) \in Seq(Rule)
         /\ \A s \in Range(Literals(A, r)) : \E a \in A : s = Literal(a, r)
         /\ \A a \in A : Literal(a, r) \in Range(Literals(A, r))
<1> DEFINE all == {Literal(a, r) : a \in A}
<1>1. r.on \in SUBSET Actions /\ r.at \in (SUBSET Targets) \cup {AnyTarget}
  BY DEF Rule
<1>2. \A a \in A : Literal(a, r).on = {a} /\ Literal(a, r).at = r.at
  BY DEF Literal
<1>3. \A a \in A : Literal(a, r) \in Rule
  BY <1>1 DEF Rule, Literal
<1>4. IsFiniteSet(all)
  <2> DEFINE f == [a \in A |-> Literal(a, r)]
  <2>1. f \in Surjection(A, all)
    BY DEF Surjection
  <2> QED
    BY <2>1, FS_Surjection DEF ExistsSurjection
<1>5. SetToSeq(all) \in Seq(all) /\ Range(SetToSeq(all)) = all
  BY <1>4, SetInSequence
<1>6. Seq(all) \subseteq Seq(Rule)
  BY <1>3
<1> QED
  BY <1>2, <1>3, <1>5, <1>6 DEF Literals

LEMMA DecayRuleIs ==
  ASSUME NEW r \in Rule, NEW upstream \in Tools, NEW rows, NEW peers
  PROVE  LET d == DecayRule(r, upstream, rows, peers)
         IN /\ d.kept \in Seq(Rule) /\ d.decayed \in Seq(Rule)
            /\ \A s \in Range(d.kept) \cup Range(d.decayed) : s.at = r.at
            /\ \A a \in Vocabulary[upstream] :
                 /\ (\E s \in Range(d.kept) : a \in s.on) <=> a \in r.on /\ Keeps(rows, peers, <<upstream, a>>)
                 /\ (\E s \in Range(d.decayed) : a \in s.on) <=> a \in r.on /\ ~Keeps(rows, peers, <<upstream, a>>)
<1> DEFINE d == DecayRule(r, upstream, rows, peers)
           reachable == r.on \intersect Vocabulary[upstream]
           kept == {a \in reachable : Keeps(rows, peers, <<upstream, a>>)}
<1>1. d = CASE kept = reachable -> [kept |-> <<r>>, decayed |-> <<>>]
            [] kept # reachable /\ kept = {} -> [kept |-> <<>>, decayed |-> <<r>>]
            [] kept # reachable /\ kept # {} -> [kept |-> Literals(kept, r), decayed |-> Literals(reachable \ kept, r)]
  BY DEF DecayRule, Keeps
<1>2. IsFiniteSet(reachable) /\ IsFiniteSet(kept) /\ IsFiniteSet(reachable \ kept)
  <2>1. IsFiniteSet(Vocabulary[upstream])
    BY EvidenceAssumption
  <2> QED
    BY <2>1, FS_Subset
<1>3. <<r>> \in Seq(Rule) /\ Range(<<r>>) = {r} /\ <<>> \in Seq(Rule) /\ Range(<<>>) = {}
  BY DEF Range
<1>4. \A a \in Vocabulary[upstream] :
        /\ a \in kept <=> a \in r.on /\ Keeps(rows, peers, <<upstream, a>>)
        /\ a \in reachable \ kept <=> a \in r.on /\ ~Keeps(rows, peers, <<upstream, a>>)
  OBVIOUS
<1>5. kept \subseteq reachable /\ kept \in SUBSET r.on /\ reachable \ kept \in SUBSET r.on
  OBVIOUS
<1>6. \A a \in Vocabulary[upstream] : a \in reachable <=> a \in r.on
  OBVIOUS
<1> HIDE DEF d, kept, reachable
<1>7. CASE kept = reachable
  <2>1. d.kept = <<r>> /\ d.decayed = <<>>
    BY <1>1, <1>7
  <2> QED
    BY <1>3, <1>4, <1>6, <1>7, <2>1 DEF d
<1>8. CASE kept # reachable /\ kept = {}
  <2>1. d.kept = <<>> /\ d.decayed = <<r>>
    BY <1>1, <1>8
  <2> QED
    BY <1>3, <1>4, <1>6, <1>8, <2>1 DEF d
<1>9. CASE kept # reachable /\ kept # {}
  <2>1. d.kept = Literals(kept, r) /\ d.decayed = Literals(reachable \ kept, r)
    BY <1>1, <1>9
  <2>2. \A A \in {kept, reachable \ kept} :
          /\ \A a \in A : Literal(a, r).on = {a} /\ Literal(a, r).at = r.at
          /\ Literals(A, r) \in Seq(Rule)
          /\ \A s \in Range(Literals(A, r)) : \E a \in A : s = Literal(a, r)
          /\ \A a \in A : Literal(a, r) \in Range(Literals(A, r))
    BY <1>2, <1>5, LiteralsAre
  <2>3. \A A \in {kept, reachable \ kept} :
          /\ \A s \in Range(Literals(A, r)) : s.at = r.at
          /\ \A a : (\E s \in Range(Literals(A, r)) : a \in s.on) <=> a \in A
    <3> SUFFICES ASSUME NEW A \in {kept, reachable \ kept}
                 PROVE  /\ \A s \in Range(Literals(A, r)) : s.at = r.at
                        /\ \A a : (\E s \in Range(Literals(A, r)) : a \in s.on) <=> a \in A
      OBVIOUS
    <3>1. /\ \A a \in A : Literal(a, r).on = {a} /\ Literal(a, r).at = r.at
          /\ \A s \in Range(Literals(A, r)) : \E a \in A : s = Literal(a, r)
          /\ \A a \in A : Literal(a, r) \in Range(Literals(A, r))
      BY <2>2
    <3>2. ASSUME NEW a PROVE (\E s \in Range(Literals(A, r)) : a \in s.on) => a \in A
      BY <3>1
    <3>3. ASSUME NEW a \in A PROVE \E s \in Range(Literals(A, r)) : a \in s.on
      BY <3>1
    <3> QED
      BY <3>1, <3>2, <3>3
  <2> QED
    BY <1>4, <2>1, <2>2, <2>3 DEF d
<1> QED
  BY <1>7, <1>8, <1>9

\* What is added matches as all that is demoted, beside what the list holds already.
LEMMA AddedIs ==
  ASSUME NEW approve \in Seq(Rule), NEW demoted \in Seq(Rule)
  PROVE  /\ Added(approve, demoted) \in Seq(Rule) /\ Range(Added(approve, demoted)) \subseteq Range(demoted)
         /\ \A d \in Range(demoted) : \E r \in Range(approve) \cup Range(Added(approve, demoted)) : SameRule(r, d)
<1> DEFINE Novel == {k \in DOMAIN demoted :
             \A r \in Range(approve) \cup Range(SubSeq(demoted, 1, k - 1)) : ~SameRule(r, demoted[k])}
           added == {demoted[i] : i \in Novel}
<1>1. added \subseteq Range(demoted) /\ Range(demoted) \subseteq Rule /\ IsFiniteSet(Range(demoted))
  BY RangeIs DEF Range
<1>2. IsFiniteSet(added)
  BY <1>1, FS_Subset
<1>3. SetToSeq(added) \in Seq(added) /\ Range(SetToSeq(added)) = added
  BY <1>2, SetInSequence
<1>4. Seq(added) \subseteq Seq(Rule)
  BY <1>1
<1>5. Added(approve, demoted) = SetToSeq(added)
  BY DEF Added
<1>6. ASSUME NEW d \in Range(demoted) PROVE \E r \in Range(approve) \cup added : SameRule(r, d)
  <2> DEFINE Same == {i \in DOMAIN demoted : SameRule(demoted[i], d)}
  <2>1. Same \subseteq Nat /\ Same # {}
    BY DEF Range, SameRule
  <2>2. PICK k \in Same : \A m \in Same : k <= m
    BY <2>1, LeastNumber
  <2>3. CASE \E r \in Range(approve) : SameRule(r, demoted[k])
    BY <2>2, <2>3 DEF SameRule
  <2>4. CASE \A r \in Range(approve) : ~SameRule(r, demoted[k])
    <3>1. ASSUME NEW r \in Range(SubSeq(demoted, 1, k - 1)), SameRule(r, demoted[k]) PROVE FALSE
      <4>1. PICK m \in 1..(k - 1) : r = demoted[m] /\ m \in DOMAIN demoted
        <5>1. /\ k \in 1..Len(demoted) /\ k \in Nat /\ Len(demoted) \in Nat
              /\ DOMAIN SubSeq(demoted, 1, k - 1) = 1..(k - 1)
              /\ \A m \in 1..(k - 1) : SubSeq(demoted, 1, k - 1)[m] = demoted[m] /\ m \in DOMAIN demoted
          OBVIOUS
        <5> QED
          BY <3>1, <5>1 DEF Range
      <4>2. m \in Same
        BY <2>2, <3>1, <4>1 DEF SameRule
      <4>3. k <= m /\ k \in Nat
        BY <2>1, <2>2, <4>2
      <4> QED
        BY <4>1, <4>3
    <3>2. k \in Novel
      BY <2>2, <2>4, <3>1
    <3> QED
      BY <2>2, <3>2
  <2> QED
    BY <2>3, <2>4
<1> HIDE DEF added
<1> QED
  BY <1>1, <1>3, <1>4, <1>5, <1>6

Rewritten(grant, upstream, rows, peers) == [i \in DOMAIN grant.allow |-> DecayRule(grant.allow[i], upstream, rows, peers)]
KeptRules(grant, upstream, rows, peers) ==
  FlattenSeq([i \in DOMAIN Rewritten(grant, upstream, rows, peers) |-> Rewritten(grant, upstream, rows, peers)[i].kept])
DecayedRules(grant, upstream, rows, peers) ==
  FlattenSeq([i \in DOMAIN Rewritten(grant, upstream, rows, peers) |-> Rewritten(grant, upstream, rows, peers)[i].decayed])

\* Some rule of a list names the action and has these targets.
Holds(ruleset, a, at) == \E r \in Range(ruleset) : a \in r.on /\ r.at = at

LEMMA RewrittenAre ==
  ASSUME NEW grant \in Grant, NEW upstream \in Tools, NEW rows, NEW peers
  PROVE  LET kept == KeptRules(grant, upstream, rows, peers)
             decayed == DecayedRules(grant, upstream, rows, peers)
         IN /\ kept \in Seq(Rule) /\ decayed \in Seq(Rule)
            /\ \A a \in Vocabulary[upstream] : \A at :
                 /\ Holds(kept, a, at) <=> Keeps(rows, peers, <<upstream, a>>) /\ Holds(grant.allow, a, at)
                 /\ Holds(decayed, a, at) <=> ~Keeps(rows, peers, <<upstream, a>>) /\ Holds(grant.allow, a, at)
<1> DEFINE n == Len(grant.allow)
           d(i) == DecayRule(grant.allow[i], upstream, rows, peers)
           keptLists == [i \in 1..n |-> d(i).kept]
           decayedLists == [i \in 1..n |-> d(i).decayed]
           kept == KeptRules(grant, upstream, rows, peers)
           decayed == DecayedRules(grant, upstream, rows, peers)
<1>1. n \in Nat /\ DOMAIN grant.allow = 1..n /\ \A i \in 1..n : grant.allow[i] \in Rule
  <2>1. grant.allow \in Seq(Rule)
    BY DEF Grant
  <2> QED
    BY <2>1
<1>2. \A i \in 1..n :
        /\ d(i).kept \in Seq(Rule) /\ d(i).decayed \in Seq(Rule)
        /\ \A s \in Range(d(i).kept) \cup Range(d(i).decayed) : s.at = grant.allow[i].at
        /\ \A a \in Vocabulary[upstream] :
             /\ (\E s \in Range(d(i).kept) : a \in s.on) <=> a \in grant.allow[i].on /\ Keeps(rows, peers, <<upstream, a>>)
             /\ (\E s \in Range(d(i).decayed) : a \in s.on) <=> a \in grant.allow[i].on /\ ~Keeps(rows, peers, <<upstream, a>>)
  BY <1>1, DecayRuleIs
<1>3. Rewritten(grant, upstream, rows, peers) = [i \in 1..n |-> d(i)]
  BY <1>1 DEF Rewritten
<1>4. kept = FlattenSeq(keptLists) /\ decayed = FlattenSeq(decayedLists)
  BY <1>3 DEF KeptRules, DecayedRules
<1> HIDE DEF n, d, kept, decayed
<1>5. keptLists \in [1..n -> Seq(Rule)] /\ decayedLists \in [1..n -> Seq(Rule)]
  BY <1>2
<1>6. /\ DOMAIN keptLists = 1..n /\ \A i \in 1..n : keptLists[i] = d(i).kept
      /\ DOMAIN decayedLists = 1..n /\ \A i \in 1..n : decayedLists[i] = d(i).decayed
  OBVIOUS
<1> HIDE DEF keptLists, decayedLists
<1>7. keptLists \in Seq(Seq(Rule)) /\ decayedLists \in Seq(Seq(Rule))
  <2>1. PICK S : S = Seq(Rule)
    OBVIOUS
  <2>2. keptLists \in [1..n -> S] /\ decayedLists \in [1..n -> S]
    BY <1>5, <2>1
  <2>3. keptLists \in Seq(S) /\ decayedLists \in Seq(S)
    BY <1>1, <2>2
  <2> QED
    BY <2>1, <2>3
<1>8. /\ kept \in Seq(Rule) /\ Range(kept) = UNION {Range(keptLists[i]) : i \in 1..n}
      /\ decayed \in Seq(Rule) /\ Range(decayed) = UNION {Range(decayedLists[i]) : i \in 1..n}
  BY <1>4, <1>6, <1>7, Flattened
<1>9. /\ \A s : s \in Range(kept) <=> \E i \in 1..n : s \in Range(d(i).kept)
      /\ \A s : s \in Range(decayed) <=> \E i \in 1..n : s \in Range(d(i).decayed)
  BY <1>6, <1>8
<1>10. \A r : r \in Range(grant.allow) <=> \E i \in 1..n : r = grant.allow[i]
  BY <1>1 DEF Range
<1>11. ASSUME NEW a \in Vocabulary[upstream], NEW at
       PROVE  /\ Holds(kept, a, at) <=> Keeps(rows, peers, <<upstream, a>>) /\ Holds(grant.allow, a, at)
              /\ Holds(decayed, a, at) <=> ~Keeps(rows, peers, <<upstream, a>>) /\ Holds(grant.allow, a, at)
  <2>1. \A i \in 1..n :
          /\ (\E s \in Range(d(i).kept) : a \in s.on /\ s.at = at) <=>
               Keeps(rows, peers, <<upstream, a>>) /\ a \in grant.allow[i].on /\ grant.allow[i].at = at
          /\ (\E s \in Range(d(i).decayed) : a \in s.on /\ s.at = at) <=>
               ~Keeps(rows, peers, <<upstream, a>>) /\ a \in grant.allow[i].on /\ grant.allow[i].at = at
    BY <1>2
  <2> QED
    BY <1>9, <1>10, <2>1 DEF Holds
<1> QED
  BY <1>8, <1>11 DEF kept, decayed

LEMMA DecayGrantIs ==
  ASSUME NEW grant \in Grant, NEW upstream \in Tools, NEW rows, NEW peers, NEW mode
  PROVE  LET after == DecayGrant(grant, upstream, rows, peers, mode)
             demoted == DecayedRules(grant, upstream, rows, peers)
         IN /\ after \in Grant /\ after.deny = grant.deny /\ after.allow = KeptRules(grant, upstream, rows, peers)
            /\ after.approve = IF mode = "demote" THEN grant.approve \o Added(grant.approve, demoted) ELSE grant.approve
<1> DEFINE after == DecayGrant(grant, upstream, rows, peers, mode)
           kept == KeptRules(grant, upstream, rows, peers)
           demoted == DecayedRules(grant, upstream, rows, peers)
           approve == IF mode = "demote" THEN grant.approve \o Added(grant.approve, demoted) ELSE grant.approve
<1>1. /\ grant = [deny |-> grant.deny, approve |-> grant.approve, allow |-> grant.allow]
      /\ grant.deny \in Seq(Rule) /\ grant.approve \in Seq(Rule) /\ grant.allow \in Seq(Rule)
  BY DEF Grant
<1>2. kept \in Seq(Rule) /\ demoted \in Seq(Rule)
  BY RewrittenAre
<1> HIDE DEF kept, demoted
<1>3. approve \in Seq(Rule)
  <2>1. Added(grant.approve, demoted) \in Seq(Rule)
    BY <1>1, <1>2, AddedIs
  <2> QED
    BY <1>1, <2>1, ConcatRange
<1>4. after = [grant EXCEPT !.allow = kept, !.approve = approve]
  BY DEF DecayGrant, KeptRules, DecayedRules, Rewritten, kept, demoted
<1> HIDE DEF after, approve
<1>5. after.deny = grant.deny /\ after.approve = approve /\ after.allow = kept /\ DOMAIN after = {"deny", "approve", "allow"}
  BY <1>1, <1>4
<1>6. after = [deny |-> grant.deny, approve |-> approve, allow |-> kept]
  BY <1>1, <1>4
<1>7. after \in Grant
  BY <1>1, <1>2, <1>3, <1>6 DEF Grant
<1> QED
  BY <1>5, <1>7 DEF after, approve, kept, demoted

-------------------------------------------------------------------------------
(* What a text decides, before and after a decay. *)

Covers(r, a, t) == a \in r.on /\ (r.at = AnyTarget \/ t \in CaseVariants(r.at))
Denied(grant, a, t) == \E r \in Range(grant.deny) : Covers(r, a, t)
AskedFor(grant, a, t) == \E r \in Range(grant.approve) : Covers(r, a, t)
LetBy(grant, a, t) == \E r \in Range(grant.allow) : a \in r.on /\ (r.at = AnyTarget \/ t \in r.at)
Near(grant, a, t) == \E r \in Range(grant.allow) : Covers(r, a, t)

LEMMA FoldedMatch ==
  ASSUME NEW ruleset \in Seq(Rule), NEW a, NEW t \in Targets, NEW clause
  PROVE  AnyMatch(CaseInsensitive(ruleset), a, t, clause) <=> \E r \in Range(ruleset) : Covers(r, a, t)
<1>1. Range(CaseInsensitive(ruleset)) = {Folding(r) : r \in Range(ruleset)} /\ \A r \in Range(ruleset) : r \in Rule
  BY FoldedRules, RangeIs
<1>2. \A r \in Range(ruleset) : Matches(Folding(r), a, t, clause) <=> Covers(r, a, t)
  <2>1. ASSUME NEW r \in Rule PROVE Matches(Folding(r), a, t, clause) <=> Covers(r, a, t)
    <3>1. /\ Folding(r) \in Rule /\ Folding(r).on = r.on /\ (Folding(r).at = AnyTarget <=> r.at = AnyTarget)
          /\ r.at # AnyTarget => Folding(r).at = CaseVariants(r.at)
      BY FoldingIs
    <3>2. Matches(Folding(r), a, t, clause) <=> a \in Folding(r).on /\ (Folding(r).at = AnyTarget \/ t \in Folding(r).at)
      BY <3>1, MatchesIs
    <3> QED
      BY <3>1, <3>2 DEF Covers
  <2> QED
    BY <1>1, <2>1
<1> QED
  BY <1>1, <1>2 DEF AnyMatch

LEMMA DecisionIs ==
  ASSUME NEW text, Written(text), NEW upstream \in DOMAIN text.grants, NEW a, NEW t \in Targets
  PROVE  LET grant == text.grants[upstream]
             is == Decision(text, <<upstream, a>>, t)
         IN /\ is = "allow" <=> ~Denied(grant, a, t) /\ ~AskedFor(grant, a, t) /\ LetBy(grant, a, t)
            /\ is = "require_approval" <=> ~Denied(grant, a, t) /\ AskedFor(grant, a, t)
            /\ is \in {"allow", "require_approval", "deny"}
<1> DEFINE grant == text.grants[upstream]
           policy == Compile(text.grants)
<1>1. \A u \in DOMAIN text.grants : text.grants[u] \in Grant
  BY DEF Written
<1>2. /\ upstream \in DOMAIN policy /\ grant.deny \in Seq(Rule) /\ grant.approve \in Seq(Rule) /\ grant.allow \in Seq(Rule)
      /\ policy[upstream].allow = grant.allow
      /\ policy[upstream].deny = CaseInsensitive(grant.deny) /\ policy[upstream].approve = CaseInsensitive(grant.approve)
  BY <1>1, CompiledIs
<1> HIDE DEF grant, policy
<1>3. /\ AnyMatch(policy[upstream].deny, a, t, "deny") <=> Denied(grant, a, t)
      /\ AnyMatch(policy[upstream].approve, a, t, "require_approval") <=> AskedFor(grant, a, t)
  BY <1>2, FoldedMatch DEF Denied, AskedFor
<1>4. AnyMatch(policy[upstream].allow, a, t, "allow") <=> LetBy(grant, a, t)
  <2>1. \A r \in Range(grant.allow) : r \in Rule
    BY <1>2, RangeIs
  <2> QED
    BY <1>2, <2>1, MatchesIs DEF AnyMatch, LetBy
<1>5. t # Unknown
  BY EngineAssumption
<1>6. /\ Decide(policy, upstream, a, t) = "allow" <=>
           /\ ~AnyMatch(policy[upstream].deny, a, t, "deny") /\ ~AnyMatch(policy[upstream].approve, a, t, "require_approval")
           /\ AnyMatch(policy[upstream].allow, a, t, "allow")
      /\ Decide(policy, upstream, a, t) = "require_approval" <=>
           ~AnyMatch(policy[upstream].deny, a, t, "deny") /\ AnyMatch(policy[upstream].approve, a, t, "require_approval")
      /\ Decide(policy, upstream, a, t) \in {"allow", "require_approval", "deny"}
  BY <1>2, <1>5, DecideIs
<1>7. Decision(text, <<upstream, a>>, t) = Decide(policy, upstream, a, t)
  BY DEF Decision, policy
<1> QED
  BY <1>3, <1>4, <1>6, <1>7 DEF grant

LEMMA DecayedTextIs ==
  ASSUME NEW text, Written(text), NEW rows, NEW peers, NEW mode
  PROVE  LET after == DecayPolicy(text, rows, peers, mode)
         IN /\ Written(after) /\ DOMAIN after.grants = DOMAIN text.grants /\ after.limits = text.limits
            /\ \A upstream \in DOMAIN text.grants :
                 after.grants[upstream] = DecayGrant(text.grants[upstream], upstream, rows, peers, mode)
<1> DEFINE grants == [upstream \in DOMAIN text.grants |-> DecayGrant(text.grants[upstream], upstream, rows, peers, mode)]
<1>1. /\ text = [grants |-> text.grants, limits |-> text.limits]
      /\ \A upstream \in DOMAIN text.grants : upstream \in Tools /\ text.grants[upstream] \in Grant
  BY DEF Written
<1>2. DecayPolicy(text, rows, peers, mode) = [text EXCEPT !.grants = grants]
  BY DEF DecayPolicy
<1>3. \A upstream \in DOMAIN grants : upstream \in Tools /\ grants[upstream] \in Grant
  BY <1>1, DecayGrantIs
<1>4. /\ DOMAIN grants = DOMAIN text.grants /\ grants = [upstream \in DOMAIN grants |-> grants[upstream]]
      /\ \A upstream \in DOMAIN text.grants : grants[upstream] = DecayGrant(text.grants[upstream], upstream, rows, peers, mode)
  OBVIOUS
<1> HIDE DEF grants
<1>5. [text EXCEPT !.grants = grants] = [grants |-> grants, limits |-> text.limits]
  BY <1>1
<1> QED
  BY <1>2, <1>3, <1>4, <1>5 DEF Written

LEMMA DecayedMatches ==
  ASSUME NEW grant \in Grant, NEW upstream \in Tools, NEW rows, NEW peers, NEW mode,
         NEW a \in Vocabulary[upstream], NEW t \in Targets
  PROVE  LET after == DecayGrant(grant, upstream, rows, peers, mode)
             keeps == Keeps(rows, peers, <<upstream, a>>)
         IN /\ Denied(after, a, t) <=> Denied(grant, a, t)
            /\ LetBy(after, a, t) <=> keeps /\ LetBy(grant, a, t)
            /\ AskedFor(after, a, t) <=> AskedFor(grant, a, t) \/ (mode = "demote" /\ ~keeps /\ Near(grant, a, t))
<1> DEFINE after == DecayGrant(grant, upstream, rows, peers, mode)
           keeps == Keeps(rows, peers, <<upstream, a>>)
           kept == KeptRules(grant, upstream, rows, peers)
           decayed == DecayedRules(grant, upstream, rows, peers)
           added == Added(grant.approve, decayed)
<1>1. /\ after.deny = grant.deny /\ after.allow = kept
      /\ after.approve = IF mode = "demote" THEN grant.approve \o added ELSE grant.approve
  BY DecayGrantIs
<1>2. /\ kept \in Seq(Rule) /\ decayed \in Seq(Rule)
      /\ \A at : /\ Holds(kept, a, at) <=> keeps /\ Holds(grant.allow, a, at)
                 /\ Holds(decayed, a, at) <=> ~keeps /\ Holds(grant.allow, a, at)
  BY RewrittenAre
<1>3. grant.approve \in Seq(Rule)
  BY DEF Grant
<1>4. /\ added \in Seq(Rule) /\ Range(added) \subseteq Range(decayed)
      /\ \A d \in Range(decayed) : \E r \in Range(grant.approve) \cup Range(added) : SameRule(r, d)
  <2> HIDE DEF decayed
  <2> QED
    BY <1>2, <1>3, AddedIs
<1> HIDE DEF after, keeps, kept, decayed, added
<1>5. Range(grant.approve \o added) = Range(grant.approve) \cup Range(added)
  BY <1>3, <1>4, ConcatRange
<1>6. LetBy(after, a, t) <=> keeps /\ LetBy(grant, a, t)
  <2>1. LetBy(after, a, t) <=> \E s \in Range(kept) : a \in s.on /\ (s.at = AnyTarget \/ t \in s.at)
    BY <1>1 DEF LetBy
  <2> QED
    BY <1>2, <2>1 DEF LetBy, Holds
<1>7. (\E d \in Range(decayed) : Covers(d, a, t)) <=> ~keeps /\ Near(grant, a, t)
  BY <1>2 DEF Covers, Near, Holds
<1>8. (\E r \in Range(grant.approve \o added) : Covers(r, a, t)) <=>
        AskedFor(grant, a, t) \/ \E d \in Range(decayed) : Covers(d, a, t)
  <2>1. \A r, d : SameRule(r, d) => (Covers(r, a, t) <=> Covers(d, a, t))
    BY DEF SameRule, Covers
  <2> QED
    BY <1>4, <1>5, <2>1 DEF AskedFor
<1>9. AskedFor(after, a, t) <=> AskedFor(grant, a, t) \/ (mode = "demote" /\ ~keeps /\ Near(grant, a, t))
  <2>1. CASE mode = "demote"
    BY <1>1, <1>7, <1>8, <2>1 DEF AskedFor
  <2>2. CASE mode # "demote"
    BY <1>1, <2>2 DEF AskedFor
  <2> QED
    BY <2>1, <2>2
<1>10. Denied(after, a, t) <=> Denied(grant, a, t)
  BY <1>1 DEF Denied
<1> QED
  BY <1>6, <1>9, <1>10 DEF after, keeps

Decayed(text, rows, peers, mode) == DecayPolicy(text, rows, peers, mode)

LEMMA UngrantedStays ==
  ASSUME NEW text, Written(text), NEW rows, NEW peers, NEW mode, NEW upstream, upstream \notin DOMAIN text.grants, NEW a, NEW t
  PROVE  /\ Decision(Decayed(text, rows, peers, mode), <<upstream, a>>, t) = "deny"
         /\ Decision(text, <<upstream, a>>, t) = "deny"
<1> DEFINE after == DecayPolicy(text, rows, peers, mode)
<1>1. Written(after) /\ DOMAIN after.grants = DOMAIN text.grants
  BY DecayedTextIs
<1> HIDE DEF after
<1>2. upstream \notin DOMAIN Compile(text.grants) /\ upstream \notin DOMAIN Compile(after.grants)
  BY <1>1 DEF Compile
<1>3. /\ Decide(Compile(text.grants), upstream, a, t) = "deny" /\ Decide(Compile(after.grants), upstream, a, t) = "deny"
  BY <1>2, UngrantedIs
<1> QED
  BY <1>3 DEF Decision, Decayed, after

\* The three answers after a decay, from those of before and from what it keeps.
LEMMA AfterIs ==
  ASSUME NEW text, Written(text), NEW rows, NEW peers, NEW mode,
         NEW upstream \in DOMAIN text.grants, NEW a \in Vocabulary[upstream], NEW t \in Targets
  PROVE  LET grant == text.grants[upstream]
             keeps == Keeps(rows, peers, <<upstream, a>>)
             asked == AskedFor(grant, a, t) \/ (mode = "demote" /\ ~keeps /\ Near(grant, a, t))
             is == Decision(Decayed(text, rows, peers, mode), <<upstream, a>>, t)
         IN /\ is = "allow" <=> ~Denied(grant, a, t) /\ ~asked /\ keeps /\ LetBy(grant, a, t)
            /\ is = "require_approval" <=> ~Denied(grant, a, t) /\ asked
            /\ is \in {"allow", "require_approval", "deny"}
<1> DEFINE after == DecayPolicy(text, rows, peers, mode)
           grant == text.grants[upstream]
           keeps == Keeps(rows, peers, <<upstream, a>>)
<1>1. upstream \in Tools /\ grant \in Grant
  BY DEF Written
<1>2. Written(after) /\ upstream \in DOMAIN after.grants /\ after.grants[upstream] = DecayGrant(grant, upstream, rows, peers, mode)
  BY DecayedTextIs
<1> HIDE DEF after, grant
<1>3. /\ Denied(after.grants[upstream], a, t) <=> Denied(grant, a, t)
      /\ LetBy(after.grants[upstream], a, t) <=> keeps /\ LetBy(grant, a, t)
      /\ AskedFor(after.grants[upstream], a, t) <=> AskedFor(grant, a, t) \/ (mode = "demote" /\ ~keeps /\ Near(grant, a, t))
  <2> DEFINE next == DecayGrant(grant, upstream, rows, peers, mode)
  <2>1. /\ Denied(next, a, t) <=> Denied(grant, a, t)
        /\ LetBy(next, a, t) <=> keeps /\ LetBy(grant, a, t)
        /\ AskedFor(next, a, t) <=> AskedFor(grant, a, t) \/ (mode = "demote" /\ ~keeps /\ Near(grant, a, t))
    BY <1>1, DecayedMatches
  <2>2. after.grants[upstream] = next
    BY <1>2
  <2> HIDE DEF next, keeps
  <2> QED
    BY <2>1, <2>2
<1> HIDE DEF keeps
<1>4. /\ Decision(after, <<upstream, a>>, t) = "allow" <=>
           ~Denied(after.grants[upstream], a, t) /\ ~AskedFor(after.grants[upstream], a, t) /\ LetBy(after.grants[upstream], a, t)
      /\ Decision(after, <<upstream, a>>, t) = "require_approval" <=>
           ~Denied(after.grants[upstream], a, t) /\ AskedFor(after.grants[upstream], a, t)
      /\ Decision(after, <<upstream, a>>, t) \in {"allow", "require_approval", "deny"}
  BY <1>2, DecisionIs
<1>5. Decayed(text, rows, peers, mode) = after
  BY DEF Decayed, after
<1> QED
  BY <1>3, <1>4, <1>5 DEF grant, keeps

LEMMA LetIsNear ==
  ASSUME NEW grant \in Grant, NEW a, NEW t \in Targets, LetBy(grant, a, t)
  PROVE  Near(grant, a, t)
<1>1. PICK r \in Range(grant.allow) : a \in r.on /\ (r.at = AnyTarget \/ t \in r.at)
  BY DEF LetBy
<1>2. t \in r.at => t \in CaseVariants(r.at)
  BY DEF CaseVariants
<1> QED
  BY <1>1, <1>2 DEF Near, Covers

\* A target that only another spelling of it was allowed for.
LEMMA NearIsAllowed ==
  ASSUME NEW grant \in Grant, NEW a, NEW t \in Targets, Near(grant, a, t), ~LetBy(grant, a, t), ~Denied(grant, a, t)
  PROVE  \E u \in CaseVariants({t}) : LetBy(grant, a, u) /\ ~Denied(grant, a, u)
<1>1. PICK r \in Range(grant.allow) : a \in r.on /\ (r.at = AnyTarget \/ t \in CaseVariants(r.at))
  BY DEF Near, Covers
<1>2. r.at # AnyTarget
  BY <1>1 DEF LetBy
<1>3. PICK u \in r.at : Folded[t] = Folded[u]
  BY <1>1, <1>2 DEF CaseVariants
<1>4. r \in Rule
  BY RulesOf
<1>5. u \in Targets
  BY <1>2, <1>4, FoldingIs
<1>6. u \in CaseVariants({t})
  BY <1>3, <1>5 DEF CaseVariants
<1>7. \A S : u \in CaseVariants(S) => t \in CaseVariants(S)
  BY <1>3 DEF CaseVariants
<1>8. Denied(grant, a, u) => Denied(grant, a, t)
  BY <1>7 DEF Denied, Covers
<1> QED
  BY <1>1, <1>3, <1>6, <1>8 DEF LetBy

LEMMA DecayOfOne ==
  ASSUME NEW text, Written(text), NEW rows, NEW p \in Enumerable, NEW t \in Targets, NEW mode, NEW peers
  PROVE  LET was == Decision(text, p, t)
             is == Decision(Decayed(text, rows, peers, mode), p, t)
         IN /\ Keeps(rows, peers, p) => is = was
            /\ was = "require_approval" => is = was
            /\ mode = "demote" /\ was = "allow" => is # "deny"
            /\ mode = "demote" /\ was = "deny" =>
                 \/ is = was
                 \/ is = "require_approval" /\ \E u \in CaseVariants({t}) : Decision(text, p, u) # "deny"
            /\ was \in {"allow", "require_approval", "deny"} /\ is \in {"allow", "require_approval", "deny"}
<1> DEFINE was == Decision(text, p, t)
           is == Decision(Decayed(text, rows, peers, mode), p, t)
<1>1. PICK upstream, a : p = <<upstream, a>> /\ upstream \in Tools /\ a \in Vocabulary[upstream]
  BY DEF Enumerable, Pairs
<1>2. CASE upstream \notin DOMAIN text.grants
  <2>1. was = "deny" /\ is = "deny"
    BY <1>1, <1>2, UngrantedStays
  <2> QED
    BY <2>1
<1>3. CASE upstream \in DOMAIN text.grants
  <2> DEFINE grant == text.grants[upstream]
             denied == Denied(grant, a, t)
             asked == AskedFor(grant, a, t)
             let == LetBy(grant, a, t)
             near == Near(grant, a, t)
             keeps == Keeps(rows, peers, p)
  <2>0. grant \in Grant
    BY <1>3 DEF Written
  <2>1. /\ was = "allow" <=> ~denied /\ ~asked /\ let
        /\ was = "require_approval" <=> ~denied /\ asked
        /\ was \in {"allow", "require_approval", "deny"}
    BY <1>1, <1>3, DecisionIs
  <2>2. /\ is = "allow" <=> ~denied /\ ~(asked \/ (mode = "demote" /\ ~keeps /\ near)) /\ keeps /\ let
        /\ is = "require_approval" <=> ~denied /\ (asked \/ (mode = "demote" /\ ~keeps /\ near))
        /\ is \in {"allow", "require_approval", "deny"}
    <3> DEFINE it == Decision(Decayed(text, rows, peers, mode), <<upstream, a>>, t)
               kept == Keeps(rows, peers, <<upstream, a>>)
    <3>1. /\ it = "allow" <=> ~denied /\ ~(asked \/ (mode = "demote" /\ ~kept /\ near)) /\ kept /\ let
          /\ it = "require_approval" <=> ~denied /\ (asked \/ (mode = "demote" /\ ~kept /\ near))
          /\ it \in {"allow", "require_approval", "deny"}
      BY <1>1, <1>3, AfterIs
    <3>2. it = is /\ kept = keeps
      BY <1>1
    <3> HIDE DEF it, kept, is, keeps, denied, asked, let, near
    <3> QED
      BY <3>1, <3>2
  <2>3. let => near
    BY <2>0, LetIsNear
  <2>4. near /\ ~let /\ ~denied => \E u \in CaseVariants({t}) : Decision(text, p, u) # "deny"
    <3> SUFFICES ASSUME near, ~let, ~denied PROVE \E u \in CaseVariants({t}) : Decision(text, p, u) # "deny"
      OBVIOUS
    <3>1. PICK u \in CaseVariants({t}) : LetBy(grant, a, u) /\ ~Denied(grant, a, u)
      BY <2>0, NearIsAllowed
    <3>2. u \in Targets
      BY DEF CaseVariants
    <3>3. Decision(text, <<upstream, a>>, u) = "allow" \/ Decision(text, <<upstream, a>>, u) = "require_approval"
      <4>1. /\ Decision(text, <<upstream, a>>, u) = "allow" <=>
                 ~Denied(grant, a, u) /\ ~AskedFor(grant, a, u) /\ LetBy(grant, a, u)
            /\ Decision(text, <<upstream, a>>, u) = "require_approval" <=> ~Denied(grant, a, u) /\ AskedFor(grant, a, u)
        BY <1>3, <3>2, DecisionIs
      <4> QED
        BY <3>1, <4>1
    <3> QED
      BY <1>1, <3>3
  <2>5. /\ denied \in BOOLEAN /\ asked \in BOOLEAN /\ let \in BOOLEAN /\ near \in BOOLEAN /\ keeps \in BOOLEAN
    BY DEF Denied, AskedFor, LetBy, Near, Keeps
  <2> HIDE DEF grant, denied, asked, let, near, keeps, was, is
  <2>6. keeps => is = was
    BY <2>1, <2>2, <2>5
  <2>7. was = "require_approval" => is = was
    BY <2>1, <2>2, <2>5
  <2>8. mode = "demote" /\ was = "allow" => is # "deny"
    BY <2>1, <2>2, <2>3, <2>5
  <2>9. mode = "demote" /\ was = "deny" =>
          is = was \/ (is = "require_approval" /\ \E u \in CaseVariants({t}) : Decision(text, p, u) # "deny")
    <3>1. was = "deny" => denied \/ (~asked /\ ~let)
      BY <2>1, <2>5
    <3>2. was = "deny" => is = "deny" \/ (is = "require_approval" /\ near /\ ~let /\ ~denied)
      BY <2>2, <2>5, <3>1
    <3> QED
      BY <2>4, <3>2
  <2> QED
    BY <2>1, <2>2, <2>6, <2>7, <2>8, <2>9 DEF was, is, keeps
<1> QED
  BY <1>2, <1>3

LEMMA KeptDecidesTheSame ==
  ASSUME NEW text, Written(text), NEW rows, NEW p \in Enumerable, NEW t \in Targets, NEW mode, NEW peers,
         Keeps(rows, peers, p)
  PROVE  Decision(Decayed(text, rows, peers, mode), p, t) = Decision(text, p, t)
<1> DEFINE was == Decision(text, p, t)
           is == Decision(Decayed(text, rows, peers, mode), p, t)
<1>1. /\ Keeps(rows, peers, p) => is = was
      /\ was = "require_approval" => is = was
      /\ mode = "demote" /\ was = "allow" => is # "deny"
      /\ mode = "demote" /\ was = "deny" =>
           \/ is = was
           \/ is = "require_approval" /\ \E u \in CaseVariants({t}) : Decision(text, p, u) # "deny"
      /\ was \in {"allow", "require_approval", "deny"} /\ is \in {"allow", "require_approval", "deny"}
  BY DecayOfOne
<1> QED
  BY <1>1

LEMMA AskedStaysAsked ==
  ASSUME NEW text, Written(text), NEW rows, NEW p \in Enumerable, NEW t \in Targets, NEW mode, NEW peers
  PROVE  /\ Decision(text, p, t) = "require_approval" =>
              Decision(Decayed(text, rows, peers, mode), p, t) = Decision(text, p, t)
         /\ \A some \in {text, Decayed(text, rows, peers, mode)} :
              Decision(some, p, t) \in {"allow", "require_approval", "deny"}
<1> DEFINE was == Decision(text, p, t)
           is == Decision(Decayed(text, rows, peers, mode), p, t)
<1>1. /\ was = "require_approval" => is = was
      /\ was \in {"allow", "require_approval", "deny"} /\ is \in {"allow", "require_approval", "deny"}
  BY DecayOfOne
<1> QED
  BY <1>1

\* Of two bodies of evidence that keep the same, both decays decide the same.
LEMMA SameKeeping ==
  ASSUME NEW text, Written(text), NEW rows, NEW p \in Enumerable, NEW t \in Targets, NEW mode, NEW some, NEW others,
         Keeps(rows, some, p) <=> Keeps(rows, others, p)
  PROVE  Decision(Decayed(text, rows, some, mode), p, t) = Decision(Decayed(text, rows, others, mode), p, t)
<1>1. PICK upstream, a : p = <<upstream, a>> /\ upstream \in Tools /\ a \in Vocabulary[upstream]
  BY DEF Enumerable, Pairs
<1>2. CASE upstream \notin DOMAIN text.grants
  BY <1>1, <1>2, UngrantedStays
<1>3. CASE upstream \in DOMAIN text.grants
  <2> DEFINE grant == text.grants[upstream]
             denied == Denied(grant, a, t)
             asked(peers) == AskedFor(grant, a, t) \/ (mode = "demote" /\ ~Keeps(rows, peers, p) /\ Near(grant, a, t))
             let == LetBy(grant, a, t)
             is(peers) == Decision(Decayed(text, rows, peers, mode), p, t)
  <2>1. \A peers \in {some, others} :
          /\ is(peers) = "allow" <=> ~denied /\ ~asked(peers) /\ Keeps(rows, peers, p) /\ let
          /\ is(peers) = "require_approval" <=> ~denied /\ asked(peers)
          /\ is(peers) \in {"allow", "require_approval", "deny"}
    <3> TAKE peers \in {some, others}
    <3> DEFINE it == Decision(Decayed(text, rows, peers, mode), <<upstream, a>>, t)
               kept == Keeps(rows, peers, <<upstream, a>>)
               near == Near(grant, a, t)
               also == AskedFor(grant, a, t)
    <3>1. /\ it = "allow" <=> ~denied /\ ~(also \/ (mode = "demote" /\ ~kept /\ near)) /\ kept /\ let
          /\ it = "require_approval" <=> ~denied /\ (also \/ (mode = "demote" /\ ~kept /\ near))
          /\ it \in {"allow", "require_approval", "deny"}
      BY <1>1, <1>3, AfterIs
    <3>2. it = is(peers) /\ kept = Keeps(rows, peers, p)
      BY <1>1
    <3>3. asked(peers) <=> also \/ (mode = "demote" /\ ~Keeps(rows, peers, p) /\ near)
      OBVIOUS
    <3> HIDE DEF it, kept, is, denied, let, near, also, asked
    <3> QED
      BY <3>1, <3>2, <3>3
  <2>2. asked(some) <=> asked(others)
    OBVIOUS
  <2> HIDE DEF grant, denied, asked, let, is
  <2>3. /\ is(some) = "allow" <=> is(others) = "allow"
        /\ is(some) = "require_approval" <=> is(others) = "require_approval"
    BY <2>1, <2>2
  <2>4. is(some) = is(others)
    BY <2>1, <2>3
  <2> QED
    BY <2>4 DEF is
<1> QED
  BY <1>2, <1>3

-------------------------------------------------------------------------------
(* Snapshots. *)

\* Snapshots of texts, in some order.
KeptTexts(s) == \E S : s \in Seq(S) /\ \A e \in S : Written(e.text)

LEMMA Inserting ==
  ASSUME NEW S, NEW s \in Seq(S), NEW i \in 1..Len(s) + 1, NEW e
  PROVE  /\ InsertAt(s, i, e) \in Seq(S \cup {e}) /\ Len(InsertAt(s, i, e)) = Len(s) + 1
         /\ InsertAt(s, i, e)[i] = e
<1> DEFINE before == SubSeq(s, 1, i - 1)
           after == SubSeq(s, i, Len(s))
<1>1. before \in Seq(S \cup {e}) /\ Len(before) = i - 1 /\ after \in Seq(S \cup {e}) /\ Len(after) = Len(s) + 1 - i
  OBVIOUS
<1>2. <<e>> \in Seq(S \cup {e}) /\ Len(<<e>>) = 1 /\ <<e>>[1] = e
  OBVIOUS
<1>3. InsertAt(s, i, e) = (before \o <<e>>) \o after
  BY DEF InsertAt
<1> HIDE DEF before, after
<1>4. PICK T, front : T = S \cup {e} /\ front = before \o <<e>>
  OBVIOUS
<1>5. front \in Seq(T) /\ Len(front) = i /\ front[i] = e
  BY <1>1, <1>2, <1>4
<1>6. after \in Seq(T) /\ Len(after) = Len(s) + 1 - i /\ Len(s) \in Nat
  BY <1>1, <1>4
<1>7. front \o after \in Seq(T) /\ Len(front \o after) = Len(s) + 1 /\ (front \o after)[i] = e
  BY <1>5, <1>6
<1> QED
  BY <1>3, <1>4, <1>7

LEMMA PrunedIs ==
  ASSUME NEW S, NEW s \in Seq(S)
  PROVE  Pruned(s) \in Seq(S) /\ \A i \in 1..Len(s) : i <= MaxSnapshots => i \in DOMAIN Pruned(s) /\ Pruned(s)[i] = s[i]
<1>1. MaxSnapshots \in Nat \ {0}
  BY AuthoringAssumption
<1>2. CASE Len(s) > MaxSnapshots
  BY <1>1, <1>2 DEF Pruned
<1>3. CASE ~(Len(s) > MaxSnapshots)
  BY <1>1, <1>3 DEF Pruned
<1> QED
  BY <1>2, <1>3

LEMMA RecordedIs ==
  ASSUME NEW kept, KeptTexts(kept), NEW text, Written(text), NEW next \in Recorded(kept, text)
  PROVE  KeptTexts(next)
<1> DEFINE new == [stamp |-> tick, text |-> text]
<1>1. PICK S : kept \in Seq(S) /\ \A e \in S : Written(e.text)
  BY DEF KeptTexts
<1>2. CASE next = kept
  BY <1>2
<1>3. ASSUME NEW i \in 1..Len(kept) + 1, next = Pruned(InsertAt(kept, i, new)) PROVE KeptTexts(next)
  <2>1. \A e \in S \cup {new} : Written(e.text)
    BY <1>1
  <2> HIDE DEF new
  <2>2. InsertAt(kept, i, new) \in Seq(S \cup {new})
    BY <1>1, Inserting
  <2>3. next \in Seq(S \cup {new})
    BY <1>3, <2>2, PrunedIs
  <2> QED
    BY <2>1, <2>3 DEF KeptTexts
<1> QED
  BY <1>2, <1>3 DEF Recorded, Stored

\* While a tick records no more texts than are kept, the one the disk took is among those kept.
LEMMA StoredIsKept ==
  ASSUME KeptTexts(snapshots), Paced(1), NEW text, NEW next \in Stored(snapshots, text)
  PROVE  \E i \in DOMAIN next : next[i].text = text
<1> DEFINE new == [stamp |-> tick, text |-> text]
           Here == {i \in DOMAIN snapshots : snapshots[i].stamp = tick}
<1>1. PICK S : snapshots \in Seq(S)
  BY DEF KeptTexts
<1>2. /\ DOMAIN snapshots = 1..Len(snapshots) /\ Len(snapshots) \in Nat
      /\ MaxSnapshots \in Nat \ {0} /\ Cardinality(Here) + 1 <= MaxSnapshots
  BY <1>1, AuthoringAssumption DEF Paced
<1>3. CASE next = snapshots /\ new \in Range(snapshots)
  BY <1>3 DEF Range
<1>4. CASE next = snapshots /\ snapshots # <<>> /\ snapshots[1].text = text
  <2>1. 1 \in DOMAIN snapshots
    BY <1>1, <1>4
  <2> QED
    BY <1>4, <2>1
<1>5. ASSUME NEW i \in 1..Len(snapshots) + 1, \A j \in 1..(i - 1) : snapshots[j].stamp = tick,
             next = Pruned(InsertAt(snapshots, i, new))
      PROVE  \E k \in DOMAIN next : next[k].text = text
  <2>1. 1..(i - 1) \subseteq Here /\ i - 1 \in Nat
    BY <1>2, <1>5
  <2>2. IsFiniteSet(Here)
    <3>1. IsFiniteSet(DOMAIN snapshots)
      BY <1>2, FS_Interval
    <3> QED
      BY <3>1, FS_Subset
  <2>3. Cardinality(1..(i - 1)) = i - 1
    <3>1. PICK n \in Nat : n = i - 1
      BY <2>1
    <3>2. Cardinality(1..n) = n
      BY FS_Interval
    <3> QED
      BY <3>1, <3>2
  <2>4. i - 1 <= Cardinality(Here) /\ Cardinality(Here) \in Nat
    BY <2>1, <2>2, <2>3, FS_Subset, FS_CardinalityType
  <2> HIDE DEF Here, new
  <2>5. i <= MaxSnapshots
    BY <1>2, <2>4
  <2>6. /\ InsertAt(snapshots, i, new) \in Seq(S \cup {new}) /\ i \in 1..Len(InsertAt(snapshots, i, new))
        /\ InsertAt(snapshots, i, new)[i] = new
    BY <1>1, <1>2, Inserting
  <2>7. i \in DOMAIN next /\ next[i] = new
    BY <1>5, <2>5, <2>6, PrunedIs
  <2> QED
    BY <2>7 DEF new
<1> QED
  BY <1>3, <1>4, <1>5 DEF Stored


-------------------------------------------------------------------------------
(* The invariant. *)

\* An action performed lately is in the log, unless all of the log is younger.
Seen(p) ==
  performed[p] # 0 =>
    \/ \E r \in log : r.reason # "refused" /\ <<r.tool, r.action>> = p /\ r.at = performed[p]
    \/ performed[p] < tick /\ \A r \in log : r.at > performed[p]

PolicyInv ==
  /\ Written(file) /\ Written(active) /\ KeptTexts(snapshots)
  /\ tick \in Nat \ {0}
  /\ IsFiniteSet(log) /\ \A r \in log : r.at \in 1..tick /\ <<r.tool, r.action>> \in Pairs
  /\ IsFiniteSet(evidence) /\ \A f \in evidence : f.ours \in BOOLEAN /\ f.last \in [Pairs -> Nat]
  /\ DOMAIN performed = Enumerable /\ \A p \in Enumerable : performed[p] \in 0..tick /\ Seen(p)

LEMMA UsesAre ==
  ASSUME PolicyInv, NEW p
  PROVE  Uses(log, p) \in SUBSET (1..tick) /\ IsFiniteSet(Uses(log, p))
<1> DEFINE used == {q \in log : q.reason # "refused" /\ <<q.tool, q.action>> = p}
           f == [r \in used |-> r.at]
<1>1. IsFiniteSet(used)
  BY FS_Subset DEF PolicyInv
<1>2. f \in Surjection(used, Uses(log, p))
  BY DEF Surjection, Uses
<1>3. IsFiniteSet(Uses(log, p))
  <2> HIDE DEF used, f
  <2> QED
    BY <1>1, <1>2, FS_Surjection DEF ExistsSurjection
<1> QED
  BY <1>3 DEF Uses, PolicyInv

LEMMA ExportedIs ==
  ASSUME PolicyInv
  PROVE  LET f == EvidenceFile(TRUE, log) IN f.ours \in BOOLEAN /\ f.last \in [Pairs -> Nat]
<1>1. ASSUME NEW p \in Pairs PROVE Max(Uses(log, p) \cup {0}) \in Nat
  <2>1. Uses(log, p) \cup {0} \in SUBSET Nat
    BY UsesAre DEF PolicyInv
  <2>2. IsFiniteSet(Uses(log, p) \cup {0})
    <3>1. IsFiniteSet({0})
      BY FS_Singleton
    <3> QED
      BY <3>1, UsesAre, FS_Union
  <2> QED
    BY <2>1, <2>2, GreatestNumber
<1> QED
  BY <1>1 DEF EvidenceFile

LEMMA ShrinkwrapIsWritten ==
  ASSUME PolicyInv PROVE Written(ShrinkwrapPolicy(file, log))
<1> DEFINE grants == [upstream \in DOMAIN file.grants |->
             [file.grants[upstream] EXCEPT !.allow = SetToSeq({Bare({a}) : a \in UsedActions(log, upstream)})]]
<1>1. /\ file = [grants |-> file.grants, limits |-> file.limits]
      /\ \A upstream \in DOMAIN file.grants : upstream \in Tools /\ file.grants[upstream] \in Grant
  BY DEF PolicyInv, Written
<1>2. ShrinkwrapPolicy(file, log) = [file EXCEPT !.grants = grants]
  BY DEF ShrinkwrapPolicy
<1>3. ASSUME NEW upstream \in DOMAIN file.grants PROVE grants[upstream] \in Grant
  <2> DEFINE used == {r \in log : r.tool = upstream /\ r.reason = "explicit_allow"}
             bare == {Bare({a}) : a \in UsedActions(log, upstream)}
             f == [r \in used |-> Bare({r.action})]
  <2>1. IsFiniteSet(used)
    BY FS_Subset DEF PolicyInv
  <2>2. f \in Surjection(used, bare)
    BY DEF Surjection, UsedActions
  <2>3. bare \subseteq Rule
    <3>1. ASSUME NEW r \in used PROVE r.action \in Actions
      BY DEF PolicyInv, Pairs
    <3>2. \A a \in Actions : Bare({a}) \in Rule
      BY DEF Bare, Rule
    <3> QED
      BY <3>1, <3>2 DEF UsedActions
  <2> HIDE DEF used, bare, f
  <2>4. IsFiniteSet(bare)
    BY <2>1, <2>2, FS_Surjection DEF ExistsSurjection
  <2>5. SetToSeq(bare) \in Seq(Rule)
    <3>1. SetToSeq(bare) \in Seq(bare) /\ Seq(bare) \subseteq Seq(Rule)
      BY <2>3, <2>4, SetInSequence
    <3> QED
      BY <3>1
  <2>6. PICK g : g = file.grants[upstream] /\ g \in Grant
    BY <1>1
  <2>7. [g EXCEPT !.allow = SetToSeq(bare)] \in Grant
    BY <2>5, <2>6 DEF Grant
  <2>8. grants[upstream] = [g EXCEPT !.allow = SetToSeq(bare)]
    BY <2>6 DEF bare
  <2> QED
    BY <2>7, <2>8
<1>4. DOMAIN grants = DOMAIN file.grants /\ grants = [upstream \in DOMAIN grants |-> grants[upstream]]
  OBVIOUS
<1> HIDE DEF grants
<1>5. [file EXCEPT !.grants = grants] = [grants |-> grants, limits |-> file.limits]
  BY <1>1
<1> QED
  BY <1>1, <1>2, <1>3, <1>4, <1>5 DEF Written

LEMMA InitInv == Init => PolicyInv
<1> SUFFICES ASSUME Init PROVE PolicyInv
  OBVIOUS
<1>1. Written(file) /\ active = file
  BY TextsAssumption DEF Init
<1>2. KeptTexts(<<>>)
  <2>1. PICK S : S = {[stamp |-> 1, text |-> file]}
    OBVIOUS
  <2>2. <<>> \in Seq(S) /\ \A e \in S : Written(e.text)
    BY <1>1, <2>1
  <2> QED
    BY <2>2 DEF KeptTexts
<1>3. KeptTexts(snapshots)
  BY <1>1, <1>2, RecordedIs DEF Init
<1>4. IsFiniteSet(log) /\ log = {} /\ tick = 1
  BY FS_EmptySet DEF Init
<1>5. IsFiniteSet(evidence) /\ \A f \in evidence : f.ours \in BOOLEAN /\ f.last \in [Pairs -> Nat]
  BY EvidenceAssumption DEF Init, Pairs
<1>6. DOMAIN performed = Enumerable /\ \A p \in Enumerable : performed[p] = 0
  BY DEF Init
<1> QED
  BY <1>1, <1>3, <1>4, <1>5, <1>6 DEF PolicyInv, Seen

\* A new row is of this tick: what was seen stays seen.
LEMMA LoggingKeepsInv ==
  ASSUME PolicyInv, NEW upstream \in Tools, NEW action \in Actions, NEW reason,
         log' = log \cup {Row(upstream, action, reason)},
         \/ performed' = performed
         \/ performed' = [p \in Enumerable |-> IF p = <<upstream, action>> /\ reason # "refused" THEN tick ELSE performed[p]],
         UNCHANGED <<file, active, tick, snapshots, evidence>>
  PROVE  PolicyInv'
<1> DEFINE new == Row(upstream, action, reason)
<1>1. new.at = tick /\ new.tool = upstream /\ new.action = action /\ new.reason = reason
  BY DEF Row
<1> HIDE DEF new
<1>2. IsFiniteSet(log')
  <2>1. IsFiniteSet({new})
    BY FS_Singleton
  <2> QED
    BY <2>1, FS_Union DEF PolicyInv, new
<1>3. \A r \in log' : r.at \in 1..tick' /\ <<r.tool, r.action>> \in Pairs
  <2>1. <<upstream, action>> \in Pairs /\ tick \in 1..tick
    BY DEF Pairs, PolicyInv
  <2> QED
    BY <1>1, <2>1 DEF PolicyInv, new
<1>4. ASSUME NEW p \in Enumerable PROVE performed'[p] \in 0..tick' /\ Seen(p)'
  <2>1. performed[p] \in 0..tick /\ Seen(p) /\ tick \in Nat \ {0}
    BY DEF PolicyInv
  <2>2. CASE performed'[p] = performed[p]
    <3>1. CASE \E r \in log : r.reason # "refused" /\ <<r.tool, r.action>> = p /\ r.at = performed[p]
      BY <2>1, <2>2, <3>1 DEF Seen
    <3>2. CASE performed[p] < tick /\ \A r \in log : r.at > performed[p]
      BY <1>1, <2>1, <2>2, <3>2 DEF Seen, new
    <3> QED
      BY <2>1, <2>2, <3>1, <3>2 DEF Seen
  <2>3. CASE p = <<upstream, action>> /\ reason # "refused" /\ performed'[p] = tick
    BY <1>1, <2>1, <2>3 DEF Seen, new
  <2> QED
    BY <2>2, <2>3
<1>5. DOMAIN performed' = Enumerable
  BY DEF PolicyInv
<1> QED
  BY <1>2, <1>3, <1>4, <1>5 DEF PolicyInv

LEMMA TextsKeepInv ==
  ASSUME PolicyInv, Written(file'), Written(active'), KeptTexts(snapshots'), UNCHANGED <<log, tick, evidence, performed>>
  PROVE  PolicyInv'
BY DEF PolicyInv, Seen, Enumerable

LEMMA TruncateKeepsInv ==
  ASSUME PolicyInv, NEW before \in 2..tick, Truncate(before)
  PROVE  PolicyInv'
<1>1. log' = {r \in log : r.at >= before} /\ UNCHANGED <<file, active, tick, snapshots, evidence, performed>>
  BY DEF Truncate
<1>2. IsFiniteSet(log')
  BY <1>1, FS_Subset DEF PolicyInv
<1>3. ASSUME NEW p \in Enumerable PROVE Seen(p)'
  <2>1. performed[p] \in 0..tick /\ Seen(p) /\ tick \in Nat /\ \A r \in log : r.at \in 1..tick
    BY DEF PolicyInv
  <2>2. CASE performed[p] >= before
    BY <1>1, <2>1, <2>2 DEF Seen
  <2>3. CASE performed[p] < before
    BY <1>1, <2>1, <2>3 DEF Seen
  <2> QED
    BY <2>1, <2>2, <2>3
<1> QED
  BY <1>1, <1>2, <1>3 DEF PolicyInv

LEMMA NextInv == PolicyInv /\ [Next]_vars => PolicyInv'
<1> SUFFICES ASSUME PolicyInv, [Next]_vars PROVE PolicyInv'
  OBVIOUS
<1>0. Written(file) /\ Written(active) /\ KeptTexts(snapshots)
  BY DEF PolicyInv
<1>1. ASSUME NEW upstream \in Tools, NEW a \in Actions, NEW t \in Targets, NEW reason, Request(upstream, a, t, reason) PROVE PolicyInv'
  BY <1>1, LoggingKeepsInv DEF Request
<1>2. ASSUME NEW upstream \in Tools, NEW actions \in SUBSET Actions, RequestBatch(upstream, actions) PROVE PolicyInv'
  BY <1>2, LoggingKeepsInv, AuthoringAssumption DEF RequestBatch
<1>3. ASSUME NEW before \in 2..tick, Truncate(before) PROVE PolicyInv'
  BY <1>3, TruncateKeepsInv
<1>4. CASE Tick
  <2>1. tick' = tick + 1 /\ UNCHANGED <<file, active, log, snapshots, evidence, performed>> /\ tick \in Nat \ {0}
    BY <1>4 DEF Tick, PolicyInv
  <2>2. ASSUME NEW p \in Enumerable PROVE performed'[p] \in 0..tick' /\ Seen(p)'
    BY <2>1 DEF PolicyInv, Seen
  <2> QED
    BY <2>1, <2>2 DEF PolicyInv
<1>5. ASSUME NEW text \in HandTexts, EditByHand(text) PROVE PolicyInv'
  BY <1>0, <1>5, TextsKeepInv, TextsAssumption DEF EditByHand
<1>6. ASSUME NEW text \in HandTexts, EditFromConsole(text.grants) PROVE PolicyInv'
  <2> DEFINE candidate == [file EXCEPT !.grants = text.grants]
  <2>1. Written(candidate)
    <3>1. Written(text) /\ file = [grants |-> file.grants, limits |-> file.limits]
      BY <1>0, TextsAssumption DEF Written
    <3>2. candidate = [grants |-> text.grants, limits |-> file.limits]
      BY <3>1
    <3> QED
      BY <3>1, <3>2 DEF Written
  <2>2. /\ file' = candidate /\ active' = candidate /\ UNCHANGED <<log, tick, evidence, performed>>
        /\ \E kept \in Recorded(snapshots, file) : snapshots' \in Recorded(kept, candidate)
    BY <1>6 DEF EditFromConsole
  <2> HIDE DEF candidate
  <2>3. KeptTexts(snapshots')
    <3>1. PICK kept \in Recorded(snapshots, file) : snapshots' \in Recorded(kept, candidate)
      BY <2>2
    <3>2. KeptTexts(kept)
      BY <1>0, RecordedIs
    <3> QED
      BY <2>1, <3>1, <3>2, RecordedIs
  <2> QED
    BY <2>1, <2>2, <2>3, TextsKeepInv
<1>7. CASE Watch
  BY <1>0, <1>7, RecordedIs, TextsKeepInv DEF Watch
<1>8. ASSUME NEW n, NEW refused \in BOOLEAN, Rollback(n, refused) PROVE PolicyInv'
  <2>1. Written(snapshots[n].text)
    <3>1. PICK S : snapshots \in Seq(S) /\ \A e \in S : Written(e.text)
      BY <1>0 DEF KeptTexts
    <3>2. n \in DOMAIN snapshots
      BY <1>8 DEF Rollback
    <3>3. snapshots[n] \in S
      BY <3>1, <3>2
    <3> QED
      BY <3>1, <3>3
  <2>2. snapshots' \in Recorded(snapshots, file) /\ file' = snapshots[n].text
    BY <1>8 DEF Rollback, Recorded
  <2>3. UNCHANGED <<active, log, tick, evidence, performed>>
    BY <1>8 DEF Rollback
  <2> QED
    BY <1>0, <2>1, <2>2, <2>3, RecordedIs, TextsKeepInv
<1>9. CASE Export
  <2>1. /\ evidence' = evidence \cup {EvidenceFile(TRUE, log)}
        /\ UNCHANGED <<file, active, log, tick, snapshots, performed>>
    BY <1>9 DEF Export
  <2>2. PICK f : f = EvidenceFile(TRUE, log) /\ f.ours \in BOOLEAN /\ f.last \in [Pairs -> Nat]
    BY ExportedIs
  <2>3. IsFiniteSet(evidence')
    <3>1. IsFiniteSet({f})
      BY FS_Singleton
    <3> QED
      BY <2>1, <2>2, <3>1, FS_Union DEF PolicyInv
  <2>4. \A g \in evidence' : g.ours \in BOOLEAN /\ g.last \in [Pairs -> Nat]
    BY <2>1, <2>2 DEF PolicyInv
  <2> QED
    BY <2>1, <2>3, <2>4 DEF PolicyInv, Seen
<1>10. ASSUME NEW mode, NEW peers, Decay(mode, peers) PROVE PolicyInv'
  <2>1. file' = DecayPolicy(file, log, peers, mode) /\ UNCHANGED <<active, log, tick, snapshots, evidence, performed>>
    BY <1>10 DEF Decay
  <2>2. Written(DecayPolicy(file, log, peers, mode))
    BY <1>0, DecayedTextIs
  <2> QED
    BY <1>0, <2>1, <2>2, TextsKeepInv
<1>11. CASE Shrinkwrap
  <2>1. file' = ShrinkwrapPolicy(file, log) /\ UNCHANGED <<active, log, tick, snapshots, evidence, performed>>
    BY <1>11 DEF Shrinkwrap
  <2> QED
    BY <1>0, <2>1, ShrinkwrapIsWritten, TextsKeepInv
<1>12. CASE UNCHANGED vars
  BY <1>0, <1>12, TextsKeepInv DEF vars
<1> QED
  BY <1>1, <1>2, <1>3, <1>4, <1>5, <1>6, <1>7, <1>8, <1>9, <1>10, <1>11, <1>12 DEF Next

LEMMA PolicyInvHolds == Spec => []PolicyInv
BY InitInv, NextInv, PTL DEF Spec

-------------------------------------------------------------------------------
(* Decay is safe. *)

LEMMA MergedIs ==
  ASSUME PolicyInv, NEW p \in Pairs
  PROVE  /\ Merged(evidence)[p] \in Nat
         /\ \A f \in evidence : f.ours => f.last[p] \in Nat /\ f.last[p] <= Merged(evidence)[p]
         /\ Merged(evidence)[p] = 0 \/ \E f \in evidence : f.ours /\ f.last[p] = Merged(evidence)[p]
<1> DEFINE ours == {g \in evidence : g.ours}
           lasts == {f.last[p] : f \in ours}
           last == [f \in ours |-> f.last[p]]
<1>1. IsFiniteSet(ours) /\ \A f \in ours : f.last[p] \in Nat
  <2>1. IsFiniteSet(evidence) /\ \A f \in evidence : f.last \in [Pairs -> Nat]
    BY DEF PolicyInv
  <2>2. IsFiniteSet(ours)
    BY <2>1, FS_Subset
  <2> QED
    BY <2>1, <2>2
<1>2. last \in Surjection(ours, lasts)
  BY DEF Surjection
<1>3. lasts \cup {0} \in SUBSET Nat /\ Merged(evidence)[p] = Max(lasts \cup {0})
  BY <1>1 DEF Merged
<1>4. \A f \in evidence : f.ours => f.last[p] \in lasts
  OBVIOUS
<1>5. \A n \in lasts : \E f \in evidence : f.ours /\ f.last[p] = n
  OBVIOUS
<1> HIDE DEF ours, lasts, last
<1>6. IsFiniteSet(lasts \cup {0})
  <2>1. IsFiniteSet(lasts) /\ IsFiniteSet({0})
    BY <1>1, <1>2, FS_Surjection, FS_Singleton DEF ExistsSurjection
  <2> QED
    BY <2>1, FS_Union
<1>7. Max(lasts \cup {0}) \in lasts \cup {0} /\ \A n \in lasts \cup {0} : n <= Max(lasts \cup {0})
  BY <1>3, <1>6, GreatestNumber
<1> QED
  BY <1>3, <1>4, <1>5, <1>7

\* Whatever was performed lately, here or on a peer, keeps its grant.
LEMMA LatelyUsedIsKept ==
  ASSUME PolicyInv, NEW p \in Enumerable, NEW peers,
         NEW at \in {performed[p], peers[p]} \ {0}, Fresh(at)
  PROVE  Keeps(log, peers, p)
<1>1. CASE at = peers[p]
  BY <1>1, KeepsIs
<1>2. CASE at = performed[p] /\ \E r \in log : r.reason # "refused" /\ <<r.tool, r.action>> = p /\ r.at = performed[p]
  <2>1. at \in Uses(log, p)
    BY <1>2 DEF Uses
  <2> QED
    BY <2>1, KeepsIs
<1>3. CASE at = performed[p] /\ \A r \in log : r.at > performed[p]
  <2>1. ~Covered(log)
    <3> SUFFICES ASSUME Covered(log) PROVE FALSE
      OBVIOUS
    <3> DEFINE times == {r.at : r \in log}
    <3>0. \A r \in log : r.at \in Nat
      <4>1. tick \in Nat /\ \A r \in log : r.at \in 1..tick
        BY DEF PolicyInv
      <4> QED
        BY <4>1
    <3>1. times # {} /\ times \subseteq Nat /\ Min(times) + StaleAfter <= tick
      BY <3>0 DEF Covered
    <3>2. Min(times) \in times
      BY <3>1, LeastOf
    <3>3. Min(times) \in Nat /\ Min(times) > performed[p] /\ performed[p] \in Nat /\ StaleAfter \in Nat /\ tick \in Nat
      BY <1>3, <3>1, <3>2, AuthoringAssumption DEF PolicyInv
    <3> HIDE DEF times
    <3>4. performed[p] + StaleAfter >= tick
      BY <1>3 DEF Fresh
    <3> QED
      BY <3>1, <3>3, <3>4
  <2> QED
    BY <2>1, KeepsIs
<1>4. Seen(p)
  BY DEF PolicyInv
<1> QED
  BY <1>1, <1>2, <1>3, <1>4 DEF Seen

LEMMA UseIsKept == PolicyInv => UseIsNotDecayed
<1> SUFFICES ASSUME PolicyInv, NEW mode \in {"demote", "drop"}, NEW peers \in {NoPeer, Merged(evidence)},
                    NEW p \in Enumerable, NEW t \in Targets, NEW at \in {performed[p], peers[p]} \ {0}, Fresh(at)
             PROVE  Decision(Decayed(file, log, peers, mode), p, t) = Decision(file, p, t)
  BY DEF UseIsNotDecayed, Decays, Decayed
<1>1. Written(file)
  BY DEF PolicyInv
<1>2. Keeps(log, peers, p)
  BY LatelyUsedIsKept
<1> QED
  BY <1>1, <1>2, KeptDecidesTheSame

LEMMA DemotionAsks == PolicyInv => DemotionOnlyAsks
<1> SUFFICES ASSUME PolicyInv, NEW peers \in {NoPeer, Merged(evidence)}, NEW p \in Enumerable, NEW t \in Targets
             PROVE  LET was == Decision(file, p, t) is == Decision(Decayed(file, log, peers, "demote"), p, t) IN
                    /\ was = "require_approval" => is = was
                    /\ was = "allow" => is # "deny"
                    /\ was = "deny" => \/ is = was
                                       \/ is = "require_approval"
                                          /\ \E u \in CaseVariants({t}) : Decision(file, p, u) # "deny"
  BY DEF DemotionOnlyAsks, Decays, Decayed
<1>1. Written(file)
  BY DEF PolicyInv
<1> QED
  BY <1>1, DecayOfOne

LEMMA ExportsCount ==
  ASSUME PolicyInv, NEW f \in evidence, f.ours, NEW p \in Enumerable, f.last[p] # 0, Fresh(f.last[p])
  PROVE  Keeps(log, Merged(evidence), p)
<1>1. p \in Pairs
  BY DEF Enumerable
<1>2. /\ Merged(evidence)[p] \in Nat /\ f.last[p] \in Nat /\ f.last[p] <= Merged(evidence)[p]
      /\ StaleAfter \in Nat /\ tick \in Nat
  BY <1>1, MergedIs, AuthoringAssumption DEF PolicyInv
<1>3. Merged(evidence)[p] # 0 /\ Fresh(Merged(evidence)[p])
  BY <1>2 DEF Fresh
<1> QED
  BY <1>3, KeepsIs

LEMMA ExportsAreKept == PolicyInv => ExportedIsKept
<1> SUFFICES ASSUME PolicyInv, NEW mode \in {"demote", "drop"}, NEW f \in evidence, NEW p \in Enumerable, NEW t \in Targets,
                    f.ours /\ f.last[p] # 0 /\ Fresh(f.last[p])
             PROVE  Decision(Decayed(file, log, Merged(evidence), mode), p, t) = Decision(file, p, t)
  BY DEF ExportedIsKept, Decays, Decayed
<1>1. Written(file)
  BY DEF PolicyInv
<1>2. Keeps(log, Merged(evidence), p)
  BY ExportsCount
<1> QED
  BY <1>1, <1>2, KeptDecidesTheSame

LEMMA FleetVetoes == PolicyInv => FleetOnlyVetoes
<1> SUFFICES ASSUME PolicyInv, NEW mode \in {"demote", "drop"}, NEW p \in Enumerable, NEW t \in Targets
             PROVE  LET alone == Decision(Decayed(file, log, NoPeer, mode), p, t)
                        merged == Decision(Decayed(file, log, Merged(evidence), mode), p, t)
                    IN /\ Decision(file, p, t) # "deny" => Rank(alone) <= Rank(merged)
                       /\ (\A f \in evidence : f.ours => f.last[p] = 0 \/ ~Fresh(f.last[p])) => alone = merged
  BY DEF FleetOnlyVetoes, Decays, Decayed
<1> DEFINE was == Decision(file, p, t)
           alone == Decision(Decayed(file, log, NoPeer, mode), p, t)
           merged == Decision(Decayed(file, log, Merged(evidence), mode), p, t)
           keptAlone == Keeps(log, NoPeer, p)
           keptMerged == Keeps(log, Merged(evidence), p)
<1>0. Written(file)
  BY DEF PolicyInv
<1>1. /\ keptAlone => alone = was
      /\ was = "require_approval" => alone = was
      /\ was \in {"allow", "require_approval", "deny"} /\ alone \in {"allow", "require_approval", "deny"}
      /\ keptMerged => merged = was
  BY <1>0, KeptDecidesTheSame, AskedStaysAsked
<1>2. (keptAlone <=> keptMerged) => alone = merged
  BY SameKeeping DEF PolicyInv
<1>3. p \in Pairs /\ NoPeer[p] = 0
  BY DEF Enumerable, NoPeer
<1>4. keptAlone => keptMerged
  BY <1>3, KeepsIs
<1>5. (\A f \in evidence : f.ours => f.last[p] = 0 \/ ~Fresh(f.last[p])) => (keptMerged => keptAlone)
  BY <1>3, KeepsIs, MergedIs
<1> HIDE DEF was, alone, merged, keptAlone, keptMerged
<1>6. was # "deny" => Rank(alone) <= Rank(merged)
  <2>1. CASE keptAlone <=> keptMerged
    BY <1>1, <1>2, <2>1 DEF Rank
  <2>2. CASE ~keptAlone /\ keptMerged
    BY <1>1, <2>2 DEF Rank
  <2> QED
    BY <1>4, <2>1, <2>2
<1>7. (\A f \in evidence : f.ours => f.last[p] = 0 \/ ~Fresh(f.last[p])) => alone = merged
  BY <1>2, <1>4, <1>5
<1> QED
  BY <1>6, <1>7 DEF was, alone, merged

\* A decay takes no grant of an action that was performed within the window, here or, as
\* far as the merged evidence knows, on a peer; a demotion only turns allow into a question;
\* evidence of peers only keeps grants, and an action exported in time is kept - for any
\* logs, whatever they have lost, any texts, vocabularies, evidence and windows
\* (policy/decay.ts, decay-evidence.ts, cli/policy.ts).
THEOREM DecayStaysSafe == Spec => []DecayIsSafe
<1>1. PolicyInv => DecayIsSafe
  BY UseIsKept, DemotionAsks, FleetVetoes, ExportsAreKept DEF DecayIsSafe
<1> QED
  BY <1>1, PolicyInvHolds, PTL

\* The text that a rollback replaces stays among the snapshots if the disk took its own,
\* however the snapshots of one second are ordered and whatever was refused before, while a
\* second records no more texts than are kept (cli/policy.ts, policy/history-store.ts).
THEOREM RollbacksStayReversible == Spec => RollbackIsReversible
<1>1. PolicyInv /\ [Next]_vars =>
        [\A n \in 1..MaxSnapshots : Rollback(n, FALSE) => ReplacedIsKept]_vars
  <2> SUFFICES ASSUME PolicyInv, NEW n \in 1..MaxSnapshots, Rollback(n, FALSE)
               PROVE  ReplacedIsKept
    OBVIOUS
  <2> QED
    BY StoredIsKept DEF Rollback, PolicyInv, ReplacedIsKept
<1> QED
  BY <1>1, PolicyInvHolds, PTL DEF Spec, RollbackIsReversible
===============================================================================
