----------------------------- MODULE SessionFacts -----------------------------
(***************************************************************************)
(* What a session remembers of itself: the taint-flow facts (flow/*.ts)    *)
(* and the pin facts (pin/*.ts), read by the two last gates of dispatch()  *)
(* and written when an answer has come back.  Several requests of several  *)
(* sessions are in flight at once, and a reload may replace the rules.     *)
(*                                                                         *)
(* A glob is the set of actions it matches; the unit that the key of a pin *)
(* rule captures is a field of the member, NoUnit if it captures nothing.  *)
(***************************************************************************)
EXTENDS Naturals, Sequences, FiniteSets, SequencesExt

CONSTANTS
  Sessions,     \* agents and delegated sub-tokens
  Above,        \* [Sessions -> the ids of its delegation chain and its root agent]
  Batches,      \* requests: sequences of [action, unit]
  NoUnit,
  Rulebooks,    \* policies: [flows : sequence of rules, pins : sequence of rules]
  MaxPerKey,    \* DEFAULT_MAX_PER_KEY, facts a session keeps of each kind
  MaxRequests, MaxInFlight, MaxClock  \* bounds on the run

Verbs == UNION {{b[i].action : i \in DOMAIN b} : b \in Batches}

VARIABLES
  now,
  rules,      \* the rulebook in force
  flowFacts,  \* [Sessions -> sequence of [action, ts]]
  pinFacts,   \* [Sessions -> sequence of [rule, unit, ts]]
  flight,     \* requests in flight, in the order of their arrival
  sent,       \* requests so far
  answered,   \* history: [session, batch, ts, rules] of every request answered in full
  given       \* history: how many facts of each kind every session has been given

factVars == <<now, rules, flowFacts, pinFacts, flight, sent, answered, given>>

FlowRule == [when : (SUBSET Verbs) \ {{}}, then : (SUBSET Verbs) \ {{}},
             effect : {"deny", "require_approval"}, within : Nat]

\* A key that captures nothing is refused: a rule has a unit for some members.
PinRule == [on : (SUBSET Verbs) \ {{}}, effect : {"deny", "require_approval"}, within : Nat]

ASSUME RulebooksAssumption == Rulebooks \subseteq [flows : Seq(FlowRule), pins : Seq(PinRule)]

\* A request has members, one after the other; the chain of a session is one of sessions.
ASSUME SessionsAssumption ==
  /\ \A b \in Batches : b \in Seq(Range(b)) /\ \A i \in DOMAIN b : b[i] = [action |-> b[i].action, unit |-> b[i].unit]
  /\ Above \in [Sessions -> SUBSET Sessions]
  /\ MaxPerKey \in Nat

Strongest(effects) ==
  IF "deny" \in effects THEN "deny" ELSE IF effects = {} THEN "quiet" ELSE "require_approval"

-----------------------------------------------------------------------------
\* FlowFactStore.record and PinStore.record: the oldest fact makes room.
Record(facts, new) ==
  LET all == facts \o new
  IN IF Len(all) > MaxPerKey THEN SubSeq(all, Len(all) - MaxPerKey + 1, Len(all)) ELSE all

IsSource(book, action) == \E f \in Range(book.flows) : action \in f.when

\* evaluateFlows(): the rules this action completes.
FlowHits(book, facts, action, ts) ==
  {f \in Range(book.flows) :
     /\ action \in f.then
     /\ \E fact \in facts : fact.action \in f.when /\ fact.ts + f.within >= ts}

\* evaluateFlowsBatch(), with every member measured against the stored facts alone.
FlowEffectUnfolded(book, facts, batch, ts) ==
  Strongest({f.effect : f \in UNION {FlowHits(book, facts, batch[i].action, ts) : i \in DOMAIN batch}})

\* evaluateFlowsBatch(): the sources among the earlier members count.
FlowEffect(book, facts, batch, ts) ==
  LET seen(i) == facts \union
        {[action |-> batch[j].action, ts |-> ts] :
           j \in {k \in 1..(i - 1) : IsSource(book, batch[k].action)}}
  IN Strongest({f.effect : f \in UNION {FlowHits(book, seen(i), batch[i].action, ts) : i \in DOMAIN batch}})

\* pinUnitsFor().
PinUnits(book, member) ==
  {r \in DOMAIN book.pins : member.action \in book.pins[r].on /\ member.unit # NoUnit}

\* evaluatePin(): the rules under which this member leaves every pinned unit.
PinHits(book, facts, member, ts) ==
  {r \in PinUnits(book, member) :
     LET pinned == {f.unit : f \in {g \in facts : g.rule = r /\ g.ts + book.pins[r].within >= ts}}
     IN pinned # {} /\ member.unit \notin pinned}

\* evaluatePinBatch(): the units of the earlier members count.
PinEffect(book, facts, batch, ts) ==
  LET seen(i) == facts \union
        UNION {{[rule |-> r, unit |-> batch[j].unit, ts |-> ts] : r \in PinUnits(book, batch[j])} : j \in 1..(i - 1)}
  IN Strongest({book.pins[r].effect : r \in UNION {PinHits(book, seen(i), batch[i], ts) : i \in DOMAIN batch}})

\* A sub-token that starts with no pins of its own.
PinScopeOwn(s) == {s}

\* pinScope: a sub-token is bound by its own pins and those of every ancestor.
PinScope(s) == Above[s] \union {s}

-----------------------------------------------------------------------------
\* What a fact gate must know: every answer that has been delivered.

Answers(S) == {a \in answered : a.session \in S}

\* A source of the session, answered in full within the rule's window, or earlier in the request.
Tainted(s, batch, ts) ==
  \E f \in Range(rules.flows), i \in DOMAIN batch :
    /\ batch[i].action \in f.then
    /\ \/ \E a \in Answers({s}) : \E m \in DOMAIN a.batch :
            /\ a.batch[m].action \in f.when /\ IsSource(a.rules, a.batch[m].action)
            /\ a.ts + f.within >= ts
       \/ \E j \in 1..(i - 1) : batch[j].action \in f.when

\* This leaves the units that the chain has touched under a rule for a new one.
Pivots(s, batch, ts) ==
  \E r \in DOMAIN rules.pins, i \in DOMAIN batch :
    LET rule == rules.pins[r]
        lately == {a \in Answers(Above[s] \union {s}) : a.ts + rule.within >= ts}
        units(b) == {b[k].unit : k \in {n \in DOMAIN b : b[n].action \in rule.on}} \ {NoUnit}
        pinned == (UNION {units(a.batch) : a \in lately}) \union units(SubSeq(batch, 1, i - 1))
    IN /\ batch[i].action \in rule.on /\ batch[i].unit # NoUnit
       /\ pinned # {} /\ batch[i].unit \notin pinned

-----------------------------------------------------------------------------

FactsInit ==
  /\ now = 0
  /\ rules \in Rulebooks
  /\ flowFacts = [s \in Sessions |-> <<>>]
  /\ pinFacts = [s \in Sessions |-> <<>>]
  /\ flight = <<>> /\ sent = 0 /\ answered = {}
  /\ given = [s \in Sessions |-> [sources |-> 0, units |-> 0]]

\* dispatch() reads the clock, then awaits the principal and the body.
Arrive(s, batch) ==
  /\ sent < MaxRequests /\ sent' = sent + 1
  /\ Len(flight) < MaxInFlight
  /\ flight' = Append(flight, [session |-> s, batch |-> batch, ts |-> now, at |-> "reading",
                               rules |-> rules, flow |-> "quiet", pin |-> "quiet",
                               tainted |-> FALSE, pivots |-> FALSE, reloaded |-> FALSE])
  /\ UNCHANGED <<now, rules, flowFacts, pinFacts, answered, given>>

\* The policy is selected and both gates speak: one stretch of code.
Judge(r) ==
  LET q == flight[r]
      pins == UNION {Range(pinFacts[k]) : k \in PinScope(q.session)}
      flow == FlowEffect(rules, Range(flowFacts[q.session]), q.batch, q.ts)
      pin == PinEffect(rules, pins, q.batch, q.ts)
  IN /\ q.at = "reading"
     /\ flight' = [flight EXCEPT ![r] =
          [session |-> q.session, batch |-> q.batch, ts |-> q.ts, rules |-> rules,
           flow |-> flow, pin |-> IF flow = "deny" THEN "quiet" ELSE pin,
           at |-> CASE Strongest({flow, pin} \ {"quiet"}) = "deny" -> "denied"
                    [] Strongest({flow, pin} \ {"quiet"}) = "quiet" -> "forwarded"
                    [] OTHER -> "held",
           tainted |-> Tainted(q.session, q.batch, q.ts) /\ given[q.session].sources <= MaxPerKey,
           pivots |-> /\ Pivots(q.session, q.batch, q.ts)
                      /\ \A k \in Above[q.session] \union {q.session} : given[k].units <= MaxPerKey,
           reloaded |-> \E a \in answered : a.rules.pins # rules.pins]]
     /\ UNCHANGED <<now, rules, flowFacts, pinFacts, sent, answered, given>>

\* A request leaves the proxy: denied, refused by a human, or not answered in
\* full - the agent has read nothing of it.
Leave(r) ==
  /\ flight[r].at \in {"denied", "held", "forwarded"}
  /\ flight' = RemoveAt(flight, r)
  /\ UNCHANGED <<now, rules, flowFacts, pinFacts, sent, answered, given>>

Approve(r) ==
  /\ flight[r].at = "held"
  /\ flight' = [flight EXCEPT ![r].at = "forwarded"]
  /\ UNCHANGED <<now, rules, flowFacts, pinFacts, sent, answered, given>>

\* The sources among the members of a request, and its units: member and rule.
SourcesOf(q) == {i \in DOMAIN q.batch : IsSource(q.rules, q.batch[i].action)}
UnitsOf(q) == {p \in (DOMAIN q.batch) \X (DOMAIN q.rules.pins) : p[2] \in PinUnits(q.rules, q.batch[p[1]])}

Earlier(p, q) == p[1] < q[1] \/ (p[1] = q[1] /\ p[2] < q[2])

\* A set as a sequence, without repetition.
Listings(S) == {f \in [1..Cardinality(S) -> S] : Range(f) = S}

\* The upstream's answer reaches the agent, and the facts are written: each member's own,
\* in the order of the members, at the time the request arrived.
Seed(q) ==
  \E from \in Listings(SourcesOf(q)), to \in Listings(UnitsOf(q)) :
    /\ \A m, n \in DOMAIN from : m < n => from[m] < from[n]
    /\ \A m, n \in DOMAIN to : m < n => Earlier(to[m], to[n])
    /\ flowFacts' = [flowFacts EXCEPT ![q.session] =
         Record(@, [n \in DOMAIN from |-> [action |-> q.batch[from[n]].action, ts |-> q.ts]])]
    /\ pinFacts' = [pinFacts EXCEPT ![q.session] =
         Record(@, [n \in DOMAIN to |-> [rule |-> to[n][2], unit |-> q.batch[to[n][1]].unit, ts |-> q.ts]])]

Deliver(r) ==
  /\ flight[r].at = "forwarded"
  /\ Seed(flight[r])
  /\ flight' = RemoveAt(flight, r)
  /\ answered' = answered \union {[session |-> flight[r].session, batch |-> flight[r].batch,
                                   ts |-> flight[r].ts, rules |-> flight[r].rules]}
  /\ given' = [given EXCEPT ![flight[r].session] =
       [sources |-> @.sources + Cardinality(SourcesOf(flight[r])), units |-> @.units + Cardinality(UnitsOf(flight[r]))]]
  /\ UNCHANGED <<now, rules, sent>>

\* A reload (cli/run.ts): the facts are observations and stay.
Reload(book) ==
  /\ rules # book
  /\ rules' = book
  /\ UNCHANGED <<now, flowFacts, pinFacts, flight, sent, answered, given>>

Wait ==
  /\ now < MaxClock
  /\ now' = now + 1
  /\ UNCHANGED <<rules, flowFacts, pinFacts, flight, sent, answered, given>>

FactsNext ==
  \/ Wait
  \/ \E s \in Sessions, b \in Batches : Arrive(s, b)
  \/ \E book \in Rulebooks : Reload(book)
  \/ \E r \in DOMAIN flight :
       Judge(r) \/ Approve(r) \/ Deliver(r) \/ Leave(r)

(* What an agent has read is held against it: once the answer to a source  *)
(* has reached the agent, every sink of its session within the window is   *)
(* stopped or put before a human - in whatever order requests overlap, and *)
(* when both halves ride in one request - as long as the session has not   *)
(* had more source answers than the store keeps.                           *)
SeenIsGated == \A r \in DOMAIN flight : flight[r].tainted => flight[r].flow # "quiet"

(* No way out of a pin: a session that leaves every unit it has touched    *)
(* under a pin rule is stopped or put before a human, and so is a          *)
(* sub-token that leaves its ancestors' units, at any depth.               *)
PivotIsSeen ==
  \A r \in DOMAIN flight :
    flight[r].pivots /\ ~flight[r].reloaded /\ flight[r].flow # "deny" => flight[r].pin # "quiet"

\* What a document or a comment says and the code does not do: README.md, section 4.

(* cli/run.ts:510: pins are observations and are not cleared by a reload - *)
(* but a fact names its rule by position.                                  *)
PinsSurviveReload ==
  \A r \in DOMAIN flight : flight[r].pivots /\ flight[r].flow # "deny" => flight[r].pin # "quiet"
=============================================================================
