-------------------------------- MODULE Observers --------------------------------
(* What watches the requests of a running proxy and decides nothing: the stats an  *)
(* operator opted into (telemetry/stats.ts), the candidate policy that is tried on *)
(* live traffic (canary/store.ts), and the risk check (risk/score.ts).  The first  *)
(* and the last are timers over the request log, whose rows are written when a     *)
(* request ends and carry the time at which it arrived.                            *)
EXTENDS Naturals, Sequences, FiniteSets, FiniteSetsExt

CONSTANTS
  Agents, Keys,        \* a key stands for a (tool, action)
  Verdicts,            \* pairs of what the live and the candidate policy may decide
  MaxKeys,             \* DEFAULT_MAX_KEYS of CanaryStore
  RiskWindow,          \* RISK_WINDOW_MS
  PerDenial, DenialCap, RateFrom, RateBonus, DistinctFrom, PerDistinct,
  ElevatedAt, HighAt,  \* the weights and thresholds of scoreRisk()
  LastTick, MaxRequests  \* bounds on the run

ObserverAssumption ==
  /\ MaxKeys \in Nat \ {0} /\ RiskWindow \in Nat
  /\ {PerDenial, DenialCap, RateFrom, RateBonus, DistinctFrom, PerDistinct} \subseteq Nat
  /\ 0 < ElevatedAt /\ ElevatedAt <= HighAt

VARIABLES
  tick,
  open,      \* requests that have not been logged yet
  log,       \* rows [id, agent, key, decision, ts]
  through,   \* StatsWindow.reportedThrough
  canary,    \* [requests, divergences, cells]
  levels,    \* riskLevels
  sent,      \* history: in how many reports the row of each request was counted
  flushes,   \* history: when reports were made
  crossed,   \* history: requests in flight when a later report was made, or the proxy restarted
  observed,  \* history: [key, live, candidate] of each request since the start, in order
  told       \* history: what was emitted about an agent since it was last found harmless

vars == <<tick, open, log, through, canary, levels, sent, flushes, crossed, observed, told>>

RequestIds == 1..Len(sent)

Silent == [requests |-> 0, divergences |-> 0, cells |-> {}]

Init ==
  /\ tick = 1 /\ open = {} /\ log = {}
  /\ through = tick
  /\ canary = Silent /\ observed = <<>>
  /\ levels = [a \in Agents |-> "low"] /\ told = [a \in Agents |-> <<>>]
  /\ sent = <<>> /\ flushes = {} /\ crossed = {}

-----------------------------------------------------------------------------
(* CanaryStore *)

Restrictive(decision) == CASE decision = "allow" -> 0 [] decision = "require_approval" -> 1 [] decision = "deny" -> 2

SameCell(c, key, live, candidate) == c.key = key /\ c.live = live /\ c.candidate = candidate

\* Faulty variant: with no room for a key its divergence is not counted at all.
ObserveWithinCap(store, key, live, candidate) ==
  LET known == {c \in store.cells : SameCell(c, key, live, candidate)} IN
  [requests |-> store.requests + 1,
   divergences |-> store.divergences +
     (IF live # candidate /\ (known # {} \/ Cardinality(store.cells) < MaxKeys) THEN 1 ELSE 0),
   cells |->
     IF live = candidate THEN store.cells
     ELSE IF known # {} THEN {IF c \in known THEN [c EXCEPT !.count = @ + 1] ELSE c : c \in store.cells}
     ELSE IF Cardinality(store.cells) >= MaxKeys THEN store.cells
     ELSE store.cells \cup {[key |-> key, live |-> live, candidate |-> candidate, count |-> 1]}]

\* A key past the cap is not held, but its divergence is counted.
Observe(store, key, live, candidate) ==
  LET known == {c \in store.cells : SameCell(c, key, live, candidate)} IN
  [requests |-> store.requests + 1,
   divergences |-> store.divergences + (IF live = candidate THEN 0 ELSE 1),
   cells |->
     IF live = candidate THEN store.cells
     ELSE IF known # {} THEN {IF c \in known THEN [c EXCEPT !.count = @ + 1] ELSE c : c \in store.cells}
     ELSE IF Cardinality(store.cells) >= MaxKeys THEN store.cells
     ELSE store.cells \cup {[key |-> key, live |-> live, candidate |-> candidate, count |-> 1]}]

\* snapshot() and renderCanary(): a clean bill, or what would newly be blocked and allowed.
Report(store) ==
  [clean |-> store.divergences = 0 \/ store.cells = {},
   blocks |-> {c \in store.cells : Restrictive(c.candidate) > Restrictive(c.live)},
   widens |-> {c \in store.cells : Restrictive(c.candidate) <= Restrictive(c.live)}]

-----------------------------------------------------------------------------
(* scoreRisk() over RequestLog.agentActivity() *)

Activity(rows, agent, since) ==
  LET mine == {r \in rows : r.agent = agent /\ r.ts >= since}
      denied == {r \in mine : r.decision = "deny"}
  IN [total |-> Cardinality(mine), deny |-> Cardinality(denied),
      distinctDenied |-> Cardinality({r.key : r \in denied})]

Score(a) ==
  LET denials == IF a.deny * PerDenial < DenialCap THEN a.deny * PerDenial ELSE DenialCap
      rate == IF a.total >= RateFrom /\ a.deny * 10 >= a.total * 4 THEN RateBonus ELSE 0
      breadth == IF a.distinctDenied >= DistinctFrom THEN a.distinctDenied * PerDistinct ELSE 0
      sum == denials + rate + breadth
  IN IF sum < 100 THEN sum ELSE 100

Level(a) == IF Score(a) >= HighAt THEN "high" ELSE IF Score(a) >= ElevatedAt THEN "elevated" ELSE "low"

Since(window) == IF tick > window THEN tick - window ELSE 0

-----------------------------------------------------------------------------
(* The requests, the timers, a restart. *)

Arrive(agent, key, verdict) ==
  /\ Len(sent) < MaxRequests
  /\ open' = open \cup {[id |-> Len(sent) + 1, agent |-> agent, key |-> key, decision |-> verdict[1], ts |-> tick]}
  /\ sent' = Append(sent, 0)
  /\ canary' = Observe(canary, key, verdict[1], verdict[2])
  /\ observed' = Append(observed, [key |-> key, live |-> verdict[1], candidate |-> verdict[2]])
  /\ UNCHANGED <<tick, log, through, levels, flushes, crossed, told>>

\* A later gate may refuse what the policy allowed; the row has the time of arrival.
Log(request, decision) ==
  /\ request \in open
  /\ open' = open \ {request}
  /\ log' = log \cup {[request EXCEPT !.decision = decision]}
  /\ UNCHANGED <<tick, through, canary, levels, sent, flushes, crossed, observed, told>>

Counted(since) == {r.id : r \in {q \in log : q.ts >= since}}

\* Faulty variant: a fixed lookback, however late the timer is.
FlushLookingBack ==
  /\ tick \notin flushes
  /\ sent' = [i \in RequestIds |-> IF i \in Counted(Since(1)) THEN sent[i] + 1 ELSE sent[i]]
  /\ through' = tick
  /\ flushes' = flushes \cup {tick}
  /\ crossed' = crossed \cup {r.id : r \in {q \in open : q.ts < tick}}
  /\ UNCHANGED <<tick, open, log, canary, levels, observed, told>>

\* A report goes out, or fails unnoticed, or has nothing to say: the window closes.  A tick
\* is a millisecond and timers are seconds apart.
Flush ==
  /\ tick \notin flushes
  /\ sent' = [i \in RequestIds |-> IF i \in Counted(through) THEN sent[i] + 1 ELSE sent[i]]
  /\ through' = tick
  /\ flushes' = flushes \cup {tick}
  /\ crossed' = crossed \cup {r.id : r \in {q \in open : q.ts < tick}}
  /\ UNCHANGED <<tick, open, log, canary, levels, observed, told>>

\* A level is emitted when it is not the one found last.
CheckRisk ==
  LET found == [a \in Agents |-> Level(Activity(log, a, Since(RiskWindow)))] IN
  /\ levels' = found
  /\ told' = [a \in Agents |->
       IF found[a] = "low" THEN <<>> ELSE IF found[a] # levels[a] THEN Append(told[a], found[a]) ELSE told[a]]
  /\ levels' # levels
  /\ UNCHANGED <<tick, open, log, through, canary, sent, flushes, crossed, observed>>

\* A restart clears what is in memory: requests in flight are gone, what was not reported
\* stays unreported.
Restart ==
  /\ open' = {} /\ through' = tick
  /\ crossed' = RequestIds
  /\ canary' = Silent /\ observed' = <<>>
  /\ levels' = [a \in Agents |-> "low"] /\ told' = [a \in Agents |-> <<>>]
  /\ UNCHANGED <<tick, log, sent, flushes>>

Tick ==
  /\ tick < LastTick
  /\ tick' = tick + 1
  /\ UNCHANGED <<open, log, through, canary, levels, sent, flushes, crossed, observed, told>>

Next ==
  \/ \E a \in Agents, k \in Keys, v \in Verdicts : Arrive(a, k, v)
  \/ \E request \in open : Log(request, request.decision) \/ Log(request, "deny")
  \/ Flush \/ CheckRisk \/ Restart \/ Tick

Spec == Init /\ [][Next]_vars

-----------------------------------------------------------------------------
(* Properties. *)

\* stats.ts:66-76: a late report leaves no gap and none counts a row that another one
\* counted, unless the row was logged in the very instant of a report; only a request in
\* flight across a report or a restart is counted nowhere.
CountedOnce ==
  \A r \in log :
    /\ r.ts < through /\ r.id \notin crossed => sent[r.id] >= 1
    /\ sent[r.id] > 1 => sent[r.id] = 2 /\ r.ts \in flushes

\* store.ts:1-11, cli/policy.ts:739-742: a candidate is given a clean bill only if it decided
\* every request since the start as the live policy did; what is shown of a key is exact,
\* and what is not shown is still in the total, whatever room there was for keys.
CanaryIsHonest ==
  LET seen == {i \in DOMAIN observed : observed[i].live # observed[i].candidate}
      of(c) == {i \in seen : SameCell(observed[i], c.key, c.live, c.candidate)}
      report == Report(canary)
  IN /\ report.clean = (seen = {})
     /\ canary.requests = Len(observed) /\ canary.divergences = Cardinality(seen)
     /\ \A c \in canary.cells : c.count = Cardinality(of(c))
     /\ Cardinality(canary.cells) < MaxKeys => UNION {of(c) : c \in canary.cells} = seen
     /\ \A c \in report.widens : Restrictive(c.candidate) < Restrictive(c.live)

\* run.ts:818-836: an agent that was found dangerous has been announced at that level, and
\* no level is announced twice running; another denial never makes an agent look safer.
DangerIsTold ==
  \A a \in Agents :
    /\ levels[a] = (IF told[a] = <<>> THEN "low" ELSE told[a][Len(told[a])])
    /\ \A i \in 2..Len(told[a]) : told[a][i] # told[a][i - 1]
    /\ \A k \in Keys :
         LET row == [id |-> 0, agent |-> a, key |-> k, decision |-> "deny", ts |-> tick] IN
         Score(Activity(log \cup {row}, a, 0)) >= Score(Activity(log, a, 0))

WatchersAreHonest == CountedOnce /\ CanaryIsHonest /\ DangerIsTold

\* What a document or a comment says and the code does not do: README.md, section 4.

\* stats.ts:79, "every report covers [end of the last report, now)".
WindowsAreHalfOpen == \A i \in RequestIds : sent[i] <= 1

\* stats.ts:75, "a late tick leaves a gap that is never sent" of the window it replaces: a
\* request that is answered after a report has the time of its arrival.
NoGapIsLeft == \A r \in log : r.ts < through /\ flushes # {} => sent[r.id] >= 1
===============================================================================
