------------------------------ MODULE HostProofs ------------------------------
(* The machine a proxy runs on, for any number of processes, any pace of the   *)
(* clock and any bound. A course is of one component and leaves the others     *)
(* alone, so each property needs the inductive invariant of its own component  *)
(* only: SocketInv, VaultInv, StreamInv, KillInv, FlowInv, ConfigInv, and of   *)
(* what watches the log LogInv, CanaryInv and ToldInv.                         *)
EXTENDS MCHost, Integers, Sequences, FiniteSets, FiniteSetTheorems, TLAPS

-------------------------------------------------------------------------------
(* The mutex of socket mode, by itself. link(2) alone makes it hold when nothing is ever *)
(* left behind; one start at a time makes it hold whatever is left behind. With neither, *)
(* the run SocketRace breaks it.                                                         *)

\* The two circumstances under which the path is safe.
Orderly == ~Overlap \/ ~Deaths

\* Whoever has published, and not ended, still owns the name.
Owned == \A p \in Proxies : st[p] \in {"port", "serving"} => path = p

\* Who is about to unlink is about to unlink nobody's socket.
StaleSeen == \A p \in Proxies : st[p] = "unlink" => path \notin Proxies

\* One at a time.
Alone ==
  ~Overlap => \A p, q \in Proxies : st[p] \in Busy /\ st[q] \in Busy => p = q

\* Nothing is left behind, so nothing is ever found dead.
NobodyDied ==
  ~Deaths => /\ path # Dead
             /\ \A p \in Proxies : st[p] = "probe" => path \in Proxies
             /\ \A p \in Proxies : st[p] # "unlink"

SocketInv == TypeOK /\ Owned /\ StaleSeen /\ Alone /\ NobodyDied

LEMMA InitSocketInv == Init => SocketInv
  BY PathAssumption, SwitchAssumption
  DEF Init, SocketInv, TypeOK, Owned, StaleSeen, Alone, NobodyDied, Busy

LEMMA StepSocketInv ==
  ASSUME Orderly, SocketInv, [Next]_vars
  PROVE  SocketInv'
<1> USE PathAssumption, SwitchAssumption
        DEF Orderly, SocketInv, TypeOK, Owned, StaleSeen, Alone, NobodyDied, Busy, Goto
<1>1. CASE UNCHANGED vars
  BY <1>1 DEF vars
<1>2. ASSUME NEW p \in Proxies, Run(p) PROVE SocketInv'
  BY <1>2 DEF Run
<1>3. ASSUME NEW p \in Proxies, Inspect(p) PROVE SocketInv'
  BY <1>3 DEF Inspect
<1>4. ASSUME NEW p \in Proxies, Probe(p) PROVE SocketInv'
  BY <1>4 DEF Probe
<1>5. ASSUME NEW p \in Proxies, Unlink(p) PROVE SocketInv'
  BY <1>5 DEF Unlink
<1>6. ASSUME NEW p \in Proxies, Stage(p) PROVE SocketInv'
  BY <1>6 DEF Stage
<1>7. ASSUME NEW p \in Proxies, Link(p) PROVE SocketInv'
  BY <1>7 DEF Link
<1>8. ASSUME NEW p \in Proxies, TakePort(p) PROVE SocketInv'
  BY <1>8 DEF TakePort, Gone
<1>9. ASSUME NEW p \in Proxies, Die(p) PROVE SocketInv'
  BY <1>9 DEF Die, Gone
<1> QED BY <1>1, <1>2, <1>3, <1>4, <1>5, <1>6, <1>7, <1>8, <1>9 DEF Next, Step

\* bindWithRecovery and runRun, for any set of processes: if starts never overlap,
\* or if no socket is ever left behind, the process that holds the admin port is
\* the one behind the agents' socket, so a revoke reaches the server of the agents.
THEOREM AdminAndAgentsAgree == ASSUME Orderly PROVE Spec => []AdminReachesServer
<1>1. SocketInv => AdminReachesServer
  BY DEF SocketInv, Owned, AdminReachesServer
<1>2. Init => SocketInv
  BY InitSocketInv
<1>3. SocketInv /\ [Next]_vars => SocketInv'
  BY StepSocketInv
<1> QED BY <1>1, <1>2, <1>3, PTL DEF Spec

-------------------------------------------------------------------------------
(* A credential read from a vault elsewhere. *)

VaultTyped ==
  /\ now \in Nat /\ secret \in V!Held /\ last \in [V!Held -> Nat]
  /\ \A k \in cache : k.value \in Values /\ k.time \in Nat
  /\ \A f \in flight : f.began \in Nat /\ f.answer \subseteq V!Held
  /\ DOMAIN caller = Callers
  /\ \A c \in Callers : caller[c].at = "answered" =>
       caller[c].value \in V!Held \cup {Failed} /\ caller[c].time \in Nat

\* What the backend holds now it was never surer of than now.
Clocked == last[secret] = now /\ \A v \in V!Held : last[v] <= now

\* A value that is kept was the backend's at most one fetch before it was put there.
CachedRecently == \A k \in cache : k.time <= now /\ k.time <= last[k.value] + Timeout

\* What a fetch brings the backend looked up after it began.
InTime ==
  \A f \in flight :
    /\ f.began <= now /\ now <= f.began + Timeout
    /\ \A v \in f.answer : f.began <= last[v]

VaultInv == VaultTyped /\ Clocked /\ CachedRecently /\ InTime /\ V!AnswersAreRecent

\* Only what the backend holds grows later: an answer that was recent stays so.
LEMMA LaterIsRecent ==
  ASSUME V!VaultAssumption, VaultInv, UNCHANGED <<caller, cache>>, VaultTyped',
         \A v \in V!Held : last[v] <= last'[v], now <= now'
  PROVE  CachedRecently' /\ V!AnswersAreRecent'
<1>1. CachedRecently'
  BY DEF VaultInv, VaultTyped, CachedRecently, V!VaultAssumption, V!Held
<1>2. ASSUME NEW c \in Callers, caller[c].at = "answered", caller[c].value # Failed
      PROVE  caller[c].time <= last'[caller[c].value] + Timeout
                                 + (IF caller[c].value = Absent \/ Ttl = 0 THEN 0 ELSE Ttl - 1)
  <2> DEFINE v == caller[c].value
             slack == IF v = Absent \/ Ttl = 0 THEN 0 ELSE Ttl - 1
  <2>1. v \in V!Held /\ caller[c].time \in Nat
    BY <1>2 DEF VaultInv, VaultTyped
  <2>2. caller[c].time <= last[v] + Timeout + slack
    BY <1>2 DEF VaultInv, V!AnswersAreRecent
  <2>3. last[v] \in Nat /\ last'[v] \in Nat /\ last[v] <= last'[v] /\ slack \in Nat
    BY <2>1 DEF VaultInv, VaultTyped, V!VaultAssumption
  <2> QED
    BY <2>1, <2>2, <2>3 DEF V!VaultAssumption
<1> QED
  BY <1>1, <1>2 DEF V!AnswersAreRecent

LEMMA VaultStarts == V!VaultAssumption /\ V!Init => VaultInv
  BY DEF V!VaultAssumption, V!Init, V!Held, V!Idle, VaultInv, VaultTyped, Clocked, CachedRecently, InTime,
         V!AnswersAreRecent

LEMMA GetKeeps ==
  ASSUME V!VaultAssumption, VaultInv, NEW c \in Callers, V!Get(c)
  PROVE  VaultInv'
<1> USE DEF V!VaultAssumption, V!Held, V!Waiting, V!Answer
<1>1. UNCHANGED <<secret, last, cache, now>>
  BY DEF V!Get
<1>2. CASE \E k \in V!Fresh : caller' = [caller EXCEPT ![c] = V!Answer(k.value)] /\ UNCHANGED flight
  <2>1. PICK k \in V!Fresh : caller' = [caller EXCEPT ![c] = V!Answer(k.value)]
    BY <1>2
  <2>2. k \in cache /\ now - k.time < Ttl
    BY DEF V!Fresh
  <2>3. k.value \in Values /\ k.time \in Nat /\ k.time <= now /\ k.time <= last[k.value] + Timeout
    BY <2>2 DEF VaultInv, VaultTyped, CachedRecently
  <2>4. last[k.value] \in Nat /\ now \in Nat
    BY <2>3 DEF VaultInv, VaultTyped
  <2>5. Ttl # 0 /\ now <= last[k.value] + Timeout + (Ttl - 1)
    BY <2>2, <2>3, <2>4
  <2>6. VaultTyped'
    BY <1>1, <1>2, <2>1, <2>3 DEF VaultInv, VaultTyped
  <2>7. V!AnswersAreRecent'
    BY <1>1, <2>1, <2>3, <2>5 DEF VaultInv, VaultTyped, V!AnswersAreRecent
  <2> QED
    BY <1>1, <1>2, <2>6, <2>7 DEF VaultInv, Clocked, CachedRecently, InTime
<1>3. CASE /\ caller' = [caller EXCEPT ![c] = V!Waiting]
           /\ flight' = IF flight = {} THEN {[began |-> now, answer |-> {}]} ELSE flight
  <2>1. VaultTyped'
    BY <1>1, <1>3 DEF VaultInv, VaultTyped
  <2>2. InTime'
    BY <1>1, <1>3 DEF VaultInv, VaultTyped, InTime
  <2>3. V!AnswersAreRecent'
    BY <1>1, <1>3 DEF VaultInv, VaultTyped, V!AnswersAreRecent
  <2> QED
    BY <1>1, <2>1, <2>2, <2>3 DEF VaultInv, Clocked, CachedRecently
<1> QED
  BY <1>2, <1>3 DEF V!Get

LEMMA LookupKeeps ==
  ASSUME V!VaultAssumption, VaultInv, V!Lookup
  PROVE  VaultInv'
<1>1. UNCHANGED <<secret, last, cache, caller, now>>
  BY DEF V!Lookup
<1>2. PICK f \in flight : flight' = {[f EXCEPT !.answer = {secret}]}
  BY DEF V!Lookup
<1>3. f.began \in Nat /\ f.began <= now /\ now <= f.began + Timeout
  BY DEF VaultInv, VaultTyped, InTime
<1>4. PICK g : g = [f EXCEPT !.answer = {secret}]
  OBVIOUS
<1>5. g.began = f.began /\ g.answer \subseteq {secret}
  BY <1>4
<1>6. VaultTyped' /\ InTime'
  BY <1>1, <1>2, <1>3, <1>4, <1>5 DEF VaultInv, VaultTyped, Clocked, InTime
<1> QED
  BY <1>1, <1>6 DEF VaultInv, Clocked, CachedRecently, V!AnswersAreRecent

LEMMA ArriveKeeps ==
  ASSUME V!VaultAssumption, VaultInv, V!Arrive
  PROVE  VaultInv'
<1> USE DEF V!VaultAssumption, V!Held, V!Waiting, V!Answer
<1>1. flight' = {} /\ UNCHANGED <<secret, last, now>>
  BY DEF V!Arrive
<1> PICK f \in flight : \E v \in f.answer \cup {Failed} :
        /\ cache' = IF V!Keeps(v) THEN {[value |-> v, time |-> now]} ELSE cache
        /\ caller' = [c \in Callers |-> IF caller[c] = V!Waiting THEN V!Answer(v) ELSE caller[c]]
  BY DEF V!Arrive
<1>2. PICK v \in f.answer \cup {Failed} :
        /\ cache' = IF V!Keeps(v) THEN {[value |-> v, time |-> now]} ELSE cache
        /\ caller' = [c \in Callers |-> IF caller[c] = V!Waiting THEN V!Answer(v) ELSE caller[c]]
  OBVIOUS
<1>3. v \in V!Held \cup {Failed}
  BY <1>2 DEF VaultInv, VaultTyped
<1>4. v # Failed => now <= last[v] + Timeout
  <2>1. ASSUME v \in f.answer PROVE now <= last[v] + Timeout
    <3>1. f.began \in Nat /\ f.began <= last[v] /\ now <= f.began + Timeout /\ v \in V!Held
      BY <2>1 DEF VaultInv, VaultTyped, InTime
    <3> QED
      BY <3>1 DEF VaultInv, VaultTyped
  <2> QED
    BY <1>2, <2>1
<1>5. VaultTyped'
  BY <1>1, <1>2, <1>3 DEF VaultInv, VaultTyped, V!Keeps
<1>6. CachedRecently'
  BY <1>1, <1>2, <1>4 DEF VaultInv, VaultTyped, CachedRecently, V!Keeps
<1>7. V!AnswersAreRecent'
  <2> SUFFICES ASSUME NEW c \in Callers, caller'[c].at = "answered", caller'[c].value # Failed
               PROVE  caller'[c].time <= last[caller'[c].value] + Timeout
                        + (IF caller'[c].value = Absent \/ Ttl = 0 THEN 0 ELSE Ttl - 1)
    BY <1>1 DEF V!AnswersAreRecent
  <2>1. CASE caller[c] = V!Waiting
    <3>1. caller'[c].value = v /\ caller'[c].time = now
      BY <1>2, <2>1
    <3>2. v \in V!Held /\ last[v] \in Nat /\ now \in Nat
      BY <1>3, <3>1 DEF VaultInv, VaultTyped
    <3> QED
      BY <1>4, <3>1, <3>2
  <2>2. CASE caller[c] # V!Waiting
    BY <1>2, <2>2 DEF VaultInv, V!AnswersAreRecent
  <2> QED
    BY <2>1, <2>2
<1> QED
  BY <1>1, <1>5, <1>6, <1>7 DEF VaultInv, Clocked, InTime

LEMMA RotateKeeps ==
  ASSUME V!VaultAssumption, VaultInv, V!Rotate
  PROVE  VaultInv'
<1>1. UNCHANGED <<cache, flight, caller, now>>
  BY DEF V!Rotate
<1>2. PICK v \in V!Held : secret' = v /\ last' = [last EXCEPT ![v] = now]
  BY DEF V!Rotate
<1>3. VaultTyped' /\ Clocked' /\ (\A w \in V!Held : last[w] <= last'[w])
  BY <1>1, <1>2 DEF VaultInv, VaultTyped, Clocked
<1>4. InTime'
  BY <1>1, <1>2, <1>3 DEF VaultInv, VaultTyped, InTime
<1>5. now <= now'
  BY <1>1 DEF VaultInv, VaultTyped
<1> QED
  BY <1>1, <1>3, <1>4, <1>5, LaterIsRecent DEF VaultInv

LEMMA VaultTickKeeps ==
  ASSUME V!VaultAssumption, VaultInv, V!Tick
  PROVE  VaultInv'
<1>1. UNCHANGED <<secret, cache, flight, caller>>
  BY DEF V!Tick
<1>2. now' = now + 1 /\ last' = [last EXCEPT ![secret] = now + 1] /\ \A f \in flight : now < f.began + Timeout
  BY DEF V!Tick
<1>3. VaultTyped' /\ Clocked' /\ (\A w \in V!Held : last[w] <= last'[w]) /\ now <= now'
  BY <1>1, <1>2 DEF VaultInv, VaultTyped, Clocked
<1>4. InTime'
  <2> SUFFICES ASSUME NEW f \in flight, NEW v \in f.answer
               PROVE  f.began <= now + 1 /\ now + 1 <= f.began + Timeout /\ f.began <= last'[v]
    BY <1>1, <1>2 DEF InTime, VaultInv, VaultTyped, V!VaultAssumption
  <2>1. f.began \in Nat /\ f.began <= now /\ now < f.began + Timeout /\ f.began <= last[v] /\ v \in V!Held
    BY <1>2 DEF VaultInv, VaultTyped, InTime
  <2> QED
    BY <1>3, <2>1 DEF VaultInv, VaultTyped, V!VaultAssumption
<1> QED
  BY <1>1, <1>3, <1>4, LaterIsRecent DEF VaultInv

LEMMA VaultInvariance ==
  ASSUME V!VaultAssumption, VaultInv, V!Next \/ UNCHANGED vaultVars
  PROVE  VaultInv'
<1>1. CASE UNCHANGED vaultVars
  BY <1>1 DEF vaultVars, VaultInv, VaultTyped, Clocked, CachedRecently, InTime, V!AnswersAreRecent
<1> QED
  BY <1>1, GetKeeps, LookupKeeps, ArriveKeeps, RotateKeeps, VaultTickKeeps DEF V!Next

-------------------------------------------------------------------------------
(* An answer on its way to the agent. *)

StreamTyped ==
  /\ limit.bytes \in Nat \ {0} /\ produced \in Nat /\ sentBytes \in Nat
  /\ head.declared \subseteq Nat
  /\ flagged \in BOOLEAN
  /\ answer \in {"waiting", "streaming", "whole", "cut", "failed", "refused", "left"}

NoneYet == answer \in {"waiting", "refused"} => produced = 0 /\ sentBytes = 0

\* What was announced is whether the declared length exceeds the cap.
Announced == answer \notin {"waiting", "refused"} => flagged = A!Exceeds(head)

\* A plain body is no longer than it was declared.
WithinDeclared == ~head.encoded => \A d \in head.declared : produced <= d

CutAtCap == answer = "cut" => limit.bytes <= produced

StreamInv == StreamTyped /\ NoneYet /\ Announced /\ WithinDeclared /\ CutAtCap /\ A!CapHolds

LEMMA MinOfTwo ==
  ASSUME NEW a \in Nat, NEW b \in Nat
  PROVE  A!Min({a, b}) = IF a <= b THEN a ELSE b
<1> DEFINE m == IF a <= b THEN a ELSE b
<1>1. m \in {a, b} /\ \A y \in {a, b} : m <= y
  OBVIOUS
<1>2. \A x \in {a, b} : (\A y \in {a, b} : x <= y) => x = m
  OBVIOUS
<1> QED
  BY <1>1, <1>2 DEF A!Min

LEMMA StreamStarts == A!StreamAssumption /\ A!Init => StreamInv
<1> SUFFICES ASSUME A!StreamAssumption, A!Init PROVE StreamInv
  OBVIOUS
<1>1. StreamTyped
  <2>1. limit.bytes \in MaxBytes \cup {MaxBody + 1}
    BY DEF A!Init, A!Uncapped
  <2>2. MaxBytes \subseteq Nat \ {0} /\ MaxBody + 1 \in Nat \ {0}
    BY DEF A!StreamAssumption
  <2>3. limit.bytes \in Nat \ {0}
    BY <2>1, <2>2
  <2> QED
    BY <2>3 DEF A!Init, A!NoHead, StreamTyped
<1>2. sentBytes = A!Min({produced, limit.bytes})
  BY <1>1, MinOfTwo DEF A!Init, StreamTyped
<1> QED
  BY <1>1, <1>2 DEF A!Init, A!NoHead, StreamInv, NoneYet, Announced, WithinDeclared, CutAtCap, A!CapHolds

LEMMA AnsweredKeeps ==
  ASSUME StreamInv, NEW h, h.declared \subseteq Nat, A!Answered(h)
  PROVE  StreamInv'
<1>1. answer = "waiting" /\ head' = h /\ UNCHANGED <<limit, produced, sentBytes>> /\ produced = 0 /\ sentBytes = 0
  BY DEF A!Answered, StreamInv, NoneYet
<1>2. limit.bytes \in Nat \ {0} /\ sentBytes = A!Min({produced, limit.bytes})
  BY DEF StreamInv, StreamTyped, A!CapHolds
<1>3. CASE limit.exceed = "deny" /\ A!Exceeds(h)
  <2>1. answer' = "refused" /\ UNCHANGED flagged
    BY <1>3 DEF A!Answered
  <2> QED
    BY <1>1, <1>2, <1>3, <2>1
    DEF StreamInv, StreamTyped, NoneYet, Announced, WithinDeclared, CutAtCap, A!CapHolds
<1>4. CASE ~(limit.exceed = "deny" /\ A!Exceeds(h))
  <2>1. answer' = "streaming" /\ flagged' = A!Exceeds(h)
    BY <1>4 DEF A!Answered, A!Flags
  <2>2. A!Exceeds(h) \in BOOLEAN /\ A!Exceeds(head)' = A!Exceeds(h)
    BY <1>1 DEF A!Exceeds
  <2> QED
    BY <1>1, <1>2, <2>1, <2>2
    DEF StreamInv, StreamTyped, NoneYet, Announced, WithinDeclared, CutAtCap, A!CapHolds
<1> QED
  BY <1>3, <1>4

\* What was passed on is what was produced until the cap is reached, and the cap after it.
LEMMA ChunkKeeps ==
  ASSUME A!StreamAssumption, StreamInv, NEW n \in ChunkSizes, A!Chunk(n)
  PROVE  StreamInv'
<1>1. /\ answer = "streaming" /\ produced' = produced + n
      /\ sentBytes' = A!Min({sentBytes + n, limit.bytes})
      /\ answer' = IF sentBytes + n >= limit.bytes THEN "cut" ELSE "streaming"
      /\ UNCHANGED <<limit, head, flagged>>
  BY DEF A!Chunk, A!Cuts
<1>2. n \in Nat \ {0} /\ limit.bytes \in Nat \ {0} /\ produced \in Nat /\ sentBytes \in Nat
  BY DEF A!StreamAssumption, StreamInv, StreamTyped
<1>3. sentBytes = produced /\ sentBytes < limit.bytes
  BY <1>1, <1>2, MinOfTwo DEF StreamInv, A!CapHolds
<1>4. sentBytes' = A!Min({produced', limit'.bytes}) /\ sentBytes' \in Nat
  BY <1>1, <1>2, <1>3, MinOfTwo
<1>5. answer' = "streaming" => sentBytes' < limit'.bytes
  BY <1>1, <1>2, MinOfTwo
<1>6. WithinDeclared'
  BY <1>1 DEF WithinDeclared, A!Chunk
<1>7. StreamTyped' /\ NoneYet' /\ CutAtCap'
  BY <1>1, <1>2, <1>3, <1>4 DEF StreamInv, StreamTyped, NoneYet, CutAtCap
<1>8. Announced'
  BY <1>1 DEF StreamInv, Announced, A!Exceeds
<1>9. ASSUME answer' = "cut", ~head'.encoded
      PROVE  (~flagged' => \A d \in head'.declared : sentBytes' = d)
  <2>1. flagged' = \E d \in head'.declared : d > limit'.bytes
    BY <1>1, <1>8, <1>9 DEF Announced, A!Exceeds
  <2>2. sentBytes' = limit.bytes /\ limit.bytes <= produced'
    BY <1>1, <1>2, <1>3, <1>9, MinOfTwo
  <2>3. SUFFICES ASSUME ~flagged', NEW d \in head'.declared PROVE sentBytes' = d
    OBVIOUS
  <2>4. d \in Nat /\ d <= limit.bytes /\ produced' <= d
    BY <1>1, <1>2, <1>6, <1>7, <1>9, <2>1, <2>3 DEF WithinDeclared, StreamTyped
  <2> QED
    BY <1>1, <1>2, <2>2, <2>4
<1>10. A!CapHolds'
  BY <1>1, <1>4, <1>5, <1>9 DEF A!CapHolds
<1> QED
  BY <1>6, <1>7, <1>8, <1>10 DEF StreamInv

\* A body that is over before the cap is reached was produced and passed on whole.
LEMMA EndKeeps ==
  ASSUME StreamInv, A!End
  PROVE  StreamInv'
<1>1. answer = "streaming" /\ answer' = "whole" /\ UNCHANGED <<limit, head, flagged, produced, sentBytes>>
  BY DEF A!End
<1>2. limit.bytes \in Nat \ {0} /\ produced \in Nat /\ sentBytes \in Nat
  BY DEF StreamInv, StreamTyped
<1>3. sentBytes = produced /\ sentBytes < limit.bytes
  BY <1>1, <1>2, MinOfTwo DEF StreamInv, A!CapHolds
<1>4. ~head.encoded => head.declared \subseteq {sentBytes} /\ ~flagged
  BY <1>1, <1>2, <1>3 DEF A!End, StreamInv, Announced, A!Exceeds
<1> QED
  BY <1>1, <1>3, <1>4
  DEF StreamInv, StreamTyped, NoneYet, Announced, A!Exceeds, WithinDeclared, CutAtCap, A!CapHolds

LEMMA FailKeeps ==
  ASSUME StreamInv, NEW outcome \in {"failed", "left"}, A!Fail(outcome)
  PROVE  StreamInv'
  BY DEF A!Fail, StreamInv, StreamTyped, NoneYet, Announced, A!Exceeds, WithinDeclared, CutAtCap, A!CapHolds

LEMMA StreamInvariance ==
  ASSUME A!StreamAssumption, StreamInv, A!Next \/ UNCHANGED streamVars
  PROVE  StreamInv'
<1>1. CASE UNCHANGED streamVars
  BY <1>1 DEF streamVars, StreamInv, StreamTyped, NoneYet, Announced, A!Exceeds, WithinDeclared, CutAtCap, A!CapHolds
<1>2. ASSUME NEW d \in {{}} \cup {{n} : n \in 0..MaxBody}, NEW e \in BOOLEAN,
             A!Answered([declared |-> d, encoded |-> e])
      PROVE  StreamInv'
  <2>1. d \subseteq Nat
    BY DEF A!StreamAssumption
  <2>2. PICK h : h = [declared |-> d, encoded |-> e]
    OBVIOUS
  <2>3. h.declared \subseteq Nat /\ A!Answered(h)
    BY <1>2, <2>1, <2>2
  <2> QED
    BY <2>3, AnsweredKeeps
<1> QED
  BY <1>1, <1>2, ChunkKeeps, EndKeeps, FailKeeps DEF A!Next

-------------------------------------------------------------------------------
(* The list of cut-off agents, with one command at a time: what each process holds in   *)
(* memory, what it writes and what is on the disk agree, so whoever dies the last whole *)
(* list stands.  With Overlap a second writer breaks every part of this.                *)
Jobs ==
  [at : {"open", "write", "rename"}, ino : KillInodes \cup {None}, set : SUBSET Agents,
   op : K!Ops, agent : Agents, asker : K!Procs]

Orders == [step : {"waiting", "offline", "writing"}, op : K!Ops, agent : Agents]

Underway(c) == cmd[c] # K!Free
Working(p) == job[p] # K!NoJob

KillTyped ==
  /\ file \in KillInodes \cup {None} /\ ktmp \in KillInodes \cup {None}
  /\ data \in [KillInodes -> (SUBSET Agents) \cup {Torn}]
  /\ phase \in {"down", "loaded", "up"}
  /\ listed \subseteq Agents /\ promised \subseteq Agents /\ cleared \subseteq Agents
  /\ cmd \in [Commands -> Orders \cup {K!Free}]
  /\ job \in [K!Procs -> Jobs \cup {K!NoJob}]

OneAtATime ==
  /\ \A c, d \in Commands : Underway(c) /\ Underway(d) => c = d
  /\ \A p, q \in K!Procs : Working(p) /\ Working(q) => p = q

\* Where a command is, the proxy is too.
CommandsFollow ==
  \A c \in Commands : Underway(c) =>
    /\ phase # "loaded"
    /\ cmd[c].step = "waiting" => phase = "up" /\ Working(Proxy) /\ job[Proxy].asker = c
    /\ cmd[c].step = "offline" => phase = "down" /\ \A p \in K!Procs : ~Working(p)
    /\ cmd[c].step = "writing" => phase = "down" /\ Working(c)

JobsFollow ==
  /\ \A c \in Commands : Working(c) => Underway(c) /\ cmd[c].step = "writing" /\ job[c].asker = c
  /\ Working(Proxy) => phase = "up"
  /\ Working(Proxy) /\ job[Proxy].asker = Proxy => \A c \in Commands : ~Underway(c)
  /\ Working(Proxy) /\ job[Proxy].asker # Proxy =>
       Underway(job[Proxy].asker) /\ cmd[job[Proxy].asker].step = "waiting"

\* The list is whole, and what is renamed over it will be.
Whole ==
  /\ K!Readable /\ (file # None => ktmp # file)
  /\ \A p \in K!Procs : Working(p) =>
       /\ job[p].at # "open" => ktmp # None /\ job[p].ino = ktmp
       /\ job[p].at = "write" => data[ktmp] = Torn
       /\ job[p].at = "rename" => data[ktmp] = job[p].set

InMemory ==
  /\ phase = "loaded" \/ (phase = "up" /\ ~Working(Proxy)) => listed = K!Listed
  /\ Working(Proxy) => job[Proxy].set = listed

\* A list that breaks nobody's word.
Honours(set) == promised \subseteq set /\ cleared \cap set = {}

Reaches(p) == IF job[p].op = "revoke" THEN job[p].agent \in job[p].set ELSE job[p].agent \notin job[p].set

WordKept ==
  /\ Honours(K!Listed)
  /\ \A p \in K!Procs : Working(p) => Honours(job[p].set) /\ Reaches(p)
  /\ \A c \in Commands : Underway(c) =>
       cmd[c].agent \notin (IF cmd[c].op = "revoke" THEN cleared ELSE promised)

KillInv ==
  KillTyped /\ OneAtATime /\ CommandsFollow /\ JobsFollow /\ Whole /\ InMemory /\ WordKept

LEMMA KillStarts == K!Init => KillInv
<1> SUFFICES ASSUME K!Init PROVE KillInv
  OBVIOUS
<1>1. (\A c \in Commands : ~Underway(c)) /\ (\A p \in K!Procs : ~Working(p))
  BY DEF K!Init, Underway, Working
<1>2. KillTyped
  BY DEF K!Init, KillTyped
<1>3. K!Readable /\ K!Listed = {}
  BY DEF K!Init, K!Readable, K!Listed
<1>4. ~Working(Proxy)
  BY <1>1 DEF K!Procs
<1> QED
  BY <1>1, <1>2, <1>3, <1>4
  DEF K!Init, KillInv, OneAtATime, CommandsFollow, JobsFollow, Whole, InMemory, WordKept, Honours, K!Procs

LEMMA JobsWork == \A j \in Jobs : j # K!NoJob /\ j.at # "idle"
  BY DEF Jobs, K!NoJob

LEMMA OrdersRun == \A o \in Orders : o # K!Free
  BY DEF Orders, K!Free

\* What there is to know of a process that writes.
LEMMA WorkerIsKnown ==
  ASSUME KillInv, NEW p \in K!Procs, job[p].at # "idle"
  PROVE  /\ job[p] \in Jobs /\ Working(p)
         /\ \A q \in K!Procs : q # p => job[q] = K!NoJob
<1>1. Working(p)
  BY DEF Working, K!NoJob
<1> QED
  BY <1>1 DEF KillInv, KillTyped, OneAtATime, Working

\* A temporary file beside the list.
LEMMA TemporaryIsApart ==
  ASSUME KillInv, NEW p \in K!Procs, job[p].at = "open"
  PROVE  LET i == IF ktmp = None THEN K!Fresh ELSE ktmp IN i \in KillInodes /\ i # None /\ (file # None => i # file)
<1>1. \A q \in K!Procs : job[q].at \notin {"write", "rename"}
  BY WorkerIsKnown DEF K!NoJob
<1>2. K!Held = {}
  BY <1>1 DEF K!Held
<1>3. PICK k \in KillInodes : k # file
  BY KillSwitchIsSound DEF K!FileAssumption, KillInv, KillTyped
<1>4. None \notin KillInodes
  BY KillSwitchIsSound DEF K!FileAssumption
<1>5. CASE ktmp = None
  <2>1. k \notin K!Held \cup {file, ktmp}
    BY <1>2, <1>3, <1>4, <1>5
  <2>2. K!Fresh \in KillInodes /\ K!Fresh \notin K!Held \cup {file, ktmp}
    BY <2>1 DEF K!Fresh
  <2> QED
    BY <1>4, <1>5, <2>2
<1>6. CASE ktmp # None
  BY <1>4, <1>6 DEF KillInv, KillTyped, Whole
<1> QED
  BY <1>5, <1>6

\* A rewrite that goes on, for the one who asked for it.
LEMMA SameWorkers ==
  ASSUME KillInv, UNCHANGED <<phase, cmd>>,
         NEW p \in K!Procs, Working(p), job'[p].asker = job[p].asker,
         \A q \in K!Procs : Working(q)' = Working(q) /\ (q # p => job'[q] = job[q])
  PROVE  OneAtATime' /\ CommandsFollow' /\ JobsFollow'
<1>1. \A q \in K!Procs : Working(q) => q = p
  BY DEF KillInv, OneAtATime
<1>2. \A q \in K!Procs : Working(q) => job'[q].asker = job[q].asker
  BY <1>1
<1>3. \A c \in Commands : Underway(c)' = Underway(c)
  BY DEF Underway
<1>4. Proxy \in K!Procs /\ Commands \subseteq K!Procs
  BY DEF K!Procs
<1>5. OneAtATime'
  BY <1>3 DEF KillInv, OneAtATime
<1>6. CommandsFollow'
  BY <1>2, <1>3, <1>4 DEF KillInv, CommandsFollow
<1>7. ASSUME NEW c \in Commands, Working(c)'
      PROVE  Underway(c)' /\ cmd'[c].step = "writing" /\ job'[c].asker = c
  BY <1>2, <1>3, <1>4, <1>7 DEF KillInv, JobsFollow
<1>8. ASSUME Working(Proxy)'
      PROVE  /\ phase' = "up"
             /\ job'[Proxy].asker = Proxy => \A c \in Commands : ~Underway(c)'
             /\ job'[Proxy].asker # Proxy =>
                  cmd'[job'[Proxy].asker] # K!Free /\ cmd'[job'[Proxy].asker].step = "waiting"
  BY <1>2, <1>3, <1>4, <1>8 DEF KillInv, JobsFollow, Underway
<1> QED
  BY <1>5, <1>6, <1>7, <1>8 DEF JobsFollow, Underway

LEMMA OpenKeeps ==
  ASSUME KillInv, NEW p \in K!Procs, K!Open(p)
  PROVE  KillInv'
<1> DEFINE i == IF ktmp = None THEN K!Fresh ELSE ktmp
<1>1. /\ job[p].at = "open"
      /\ data' = [data EXCEPT ![i] = Torn] /\ ktmp' = i
      /\ job' = [job EXCEPT ![p].at = "write", ![p].ino = i]
      /\ UNCHANGED <<file, phase, listed, cmd, promised, cleared>>
  BY DEF K!Open
<1>2. i \in KillInodes /\ i # None /\ (file # None => i # file)
  BY <1>1, TemporaryIsApart
<1> HIDE DEF i
<1>3. job[p] \in Jobs /\ Working(p) /\ \A q \in K!Procs : q # p => job[q] = K!NoJob
  BY <1>1, WorkerIsKnown
<1>4. PICK j : j = [job[p] EXCEPT !.at = "write", !.ino = i]
  OBVIOUS
<1>5. /\ j \in Jobs /\ j.at = "write" /\ j.ino = i /\ j.set = job[p].set
      /\ j.op = job[p].op /\ j.agent = job[p].agent /\ j.asker = job[p].asker
  BY <1>2, <1>3, <1>4 DEF Jobs
<1>6. job' = [job EXCEPT ![p] = j]
  BY <1>1, <1>4
<1>7. KillTyped'
  BY <1>1, <1>2, <1>5, <1>6 DEF KillInv, KillTyped
<1>8. \A q \in K!Procs : Working(q)' = Working(q) /\ (q # p => job'[q] = job[q])
  BY <1>3, <1>5, <1>6, JobsWork DEF KillInv, KillTyped, Working
<1>9. job'[p] = j
  BY <1>6 DEF KillInv, KillTyped
<1>10. OneAtATime' /\ CommandsFollow' /\ JobsFollow'
  BY <1>1, <1>3, <1>5, <1>8, <1>9, SameWorkers
<1>11. K!Listed' = K!Listed /\ K!Readable'
  BY <1>1, <1>2 DEF KillInv, KillTyped, Whole, K!Listed, K!Readable
<1>12. Whole'
  BY <1>1, <1>2, <1>3, <1>5, <1>8, <1>9, <1>11 DEF KillInv, KillTyped, Whole, Working
<1>13. InMemory'
  BY <1>1, <1>5, <1>8, <1>9, <1>11 DEF KillInv, InMemory, K!Procs
<1>14. WordKept'
  <2>1. Honours(K!Listed)'
    BY <1>1, <1>11 DEF KillInv, WordKept, Honours
  <2>2. ASSUME NEW q \in K!Procs, Working(q)' PROVE Honours(job[q].set)' /\ Reaches(q)'
    <3>1. Honours(job[q].set) /\ Reaches(q)
      BY <1>8, <2>2 DEF KillInv, WordKept
    <3>2. job'[q].set = job[q].set /\ job'[q].op = job[q].op /\ job'[q].agent = job[q].agent
      BY <1>5, <1>8, <1>9
    <3> QED
      BY <1>1, <3>1, <3>2 DEF Honours, Reaches
  <2>3. ASSUME NEW c \in Commands, Underway(c)'
        PROVE  cmd'[c].agent \notin (IF cmd'[c].op = "revoke" THEN cleared' ELSE promised')
    BY <1>1, <2>3 DEF KillInv, WordKept, Underway
  <2> QED
    BY <2>1, <2>2, <2>3 DEF WordKept
<1> QED
  BY <1>7, <1>10, <1>12, <1>13, <1>14 DEF KillInv

LEMMA WriteKeeps ==
  ASSUME KillInv, NEW p \in K!Procs, K!Write(p)
  PROVE  KillInv'
<1>1. /\ job[p].at = "write"
      /\ job' = [job EXCEPT ![p].at = "rename"]
      /\ UNCHANGED <<file, ktmp, phase, listed, cmd, promised, cleared>>
  BY DEF K!Write
<1>2. job[p] \in Jobs /\ Working(p) /\ \A q \in K!Procs : q # p => job[q] = K!NoJob
  BY <1>1, WorkerIsKnown
<1>3. ktmp \in KillInodes /\ ktmp # None /\ job[p].ino = ktmp /\ data[ktmp] = Torn
  BY <1>1, <1>2 DEF KillInv, KillTyped, Whole
<1>4. data' = [data EXCEPT ![ktmp] = job[p].set]
  BY <1>3 DEF K!Write
<1>5. PICK j : j = [job[p] EXCEPT !.at = "rename"]
  OBVIOUS
<1>6. /\ j \in Jobs /\ j.at = "rename" /\ j.ino = ktmp /\ j.set = job[p].set
      /\ j.op = job[p].op /\ j.agent = job[p].agent /\ j.asker = job[p].asker
  BY <1>2, <1>3, <1>5 DEF Jobs
<1>7. job' = [job EXCEPT ![p] = j]
  BY <1>1, <1>5
<1>8. job[p].set \subseteq Agents
  BY <1>2 DEF Jobs
<1>9. KillTyped'
  BY <1>1, <1>3, <1>4, <1>6, <1>7, <1>8 DEF KillInv, KillTyped
<1>10. \A q \in K!Procs : Working(q)' = Working(q) /\ (q # p => job'[q] = job[q])
  BY <1>2, <1>6, <1>7, JobsWork DEF KillInv, KillTyped, Working
<1>11. job'[p] = j
  BY <1>7 DEF KillInv, KillTyped
<1>12. OneAtATime' /\ CommandsFollow' /\ JobsFollow'
  BY <1>1, <1>2, <1>6, <1>10, <1>11, SameWorkers
<1>13. K!Listed' = K!Listed /\ K!Readable'
  BY <1>1, <1>3, <1>4 DEF KillInv, KillTyped, Whole, K!Listed, K!Readable
<1>14. Whole'
  BY <1>1, <1>2, <1>3, <1>4, <1>6, <1>10, <1>11, <1>13 DEF KillInv, KillTyped, Whole, Working
<1>15. InMemory' /\ WordKept'
  BY <1>1, <1>6, <1>10, <1>11, <1>13 DEF KillInv, InMemory, WordKept, Honours, Reaches, Underway, K!Procs
<1> QED
  BY <1>9, <1>12, <1>14, <1>15 DEF KillInv

LEMMA NobodyWorks ==
  ASSUME \A c \in Commands : ~Underway(c)', \A p \in K!Procs : ~Working(p)'
  PROVE  OneAtATime' /\ CommandsFollow' /\ JobsFollow'
  BY DEF OneAtATime, CommandsFollow, JobsFollow, K!Procs

\* Who alone works is not in anybody's way; and nobody is left once a rewrite is over.
LEMMA RenameKeeps ==
  ASSUME KillInv, NEW p \in K!Procs, K!Rename(p)
  PROVE  KillInv'
<1>1. job[p].at = "rename" /\ job' = [job EXCEPT ![p] = K!NoJob] /\ UNCHANGED <<phase, listed>>
  BY DEF K!Rename
<1>2. job[p] \in Jobs /\ Working(p) /\ \A q \in K!Procs : q # p => job[q] = K!NoJob
  BY <1>1, WorkerIsKnown
<1>3. ktmp \in KillInodes /\ ktmp # None /\ data[ktmp] = job[p].set
  BY <1>1, <1>2 DEF KillInv, KillTyped, Whole
<1>4. file' = ktmp /\ ktmp' = None /\ UNCHANGED data /\ K!Told(job[p]) /\ cmd' = K!Settled(job[p].asker)
  BY <1>3 DEF K!Rename
<1>5. /\ promised' \in {promised, promised \cup {job[p].agent}} /\ cleared' \in {cleared, cleared \cup {job[p].agent}}
      /\ job[p].op = "revoke" => cleared' = cleared
      /\ job[p].op # "revoke" => promised' = promised
  BY <1>4 DEF K!Told
<1>6. job[p].set \subseteq Agents /\ job[p].agent \in Agents /\ Honours(job[p].set) /\ Reaches(p)
  BY <1>2 DEF KillInv, WordKept, Jobs
<1>7. \A q \in K!Procs : ~Working(q)'
  BY <1>1, <1>2 DEF KillInv, KillTyped, Working
<1>8. KillTyped' /\ \A c \in Commands : ~Underway(c)'
  <2>1. promised' \subseteq Agents /\ cleared' \subseteq Agents
    BY <1>5, <1>6 DEF KillInv, KillTyped
  <2>2. cmd' \in [Commands -> Orders \cup {K!Free}]
    BY <1>4 DEF K!Settled, KillInv, KillTyped
  <2>3. KillTyped'
    BY <1>1, <1>3, <1>4, <2>1, <2>2 DEF KillInv, KillTyped
  <2>4. ASSUME NEW c \in Commands PROVE ~Underway(c)'
    <3>1. CASE p = Proxy /\ job[p].asker = Proxy
      BY <1>2, <1>4, <3>1 DEF KillInv, JobsFollow, K!Settled, Underway
    <3>2. CASE p = Proxy /\ job[p].asker # Proxy
      <4>1. Underway(job[p].asker) /\ job[p].asker \in Commands
        BY <1>2, <3>2 DEF KillInv, JobsFollow, Jobs, K!Procs
      <4>2. Underway(c) => c = job[p].asker
        BY <4>1 DEF KillInv, OneAtATime
      <4> QED
        BY <1>4, <3>2, <4>1, <4>2 DEF KillInv, KillTyped, K!Settled, Underway
    <3>3. CASE p \in Commands
      <4>1. Underway(p) /\ job[p].asker = p /\ p # Proxy
        BY <1>2, <3>3, KillSwitchIsSound DEF KillInv, JobsFollow, K!ProxyAssumption
      <4>2. Underway(c) => c = p
        BY <3>3, <4>1 DEF KillInv, OneAtATime
      <4> QED
        BY <1>4, <3>3, <4>1, <4>2 DEF KillInv, KillTyped, K!Settled, Underway
    <3> QED
      BY <3>1, <3>2, <3>3 DEF K!Procs
  <2> QED
    BY <2>3, <2>4
<1>9. K!Listed' = job[p].set /\ K!Readable' /\ Whole'
  <2>1. Torn \notin SUBSET Agents
    BY KillSwitchIsSound DEF K!FileAssumption
  <2> QED
    BY <1>3, <1>4, <1>6, <1>7, <2>1 DEF K!Listed, K!Readable, Whole
<1>10. InMemory'
  <2>1. ~Working(Proxy)'
    BY <1>7 DEF K!Procs
  <2>2. phase = "loaded" \/ phase = "up" => p = Proxy
    BY <1>2 DEF KillInv, CommandsFollow, JobsFollow, K!Procs
  <2>3. p = Proxy => job[p].set = listed
    BY <1>2 DEF KillInv, InMemory
  <2> QED
    BY <1>1, <1>9, <2>1, <2>2, <2>3 DEF InMemory
<1>11. WordKept'
  BY <1>5, <1>6, <1>7, <1>8, <1>9 DEF WordKept, Honours, Reaches
<1> QED
  BY <1>7, <1>8, <1>9, <1>10, <1>11, NobodyWorks DEF KillInv

LEMMA MayMeansAlone ==
  ASSUME ~Overlap, K!May
  PROVE  (\A c \in Commands : ~Underway(c)) /\ (\A p \in K!Procs : ~Working(p)) /\ phase # "loaded"
  BY DEF K!May, K!Quiet, Underway, Working

\* Called, the proxy takes the command's word as the operator's new one.
LEMMA CallKeeps ==
  ASSUME ~Overlap, KillInv, NEW c \in Commands, K!Call(c)
  PROVE  KillInv'
<1>1. /\ \A d \in Commands : ~Underway(d)
      /\ \A p \in K!Procs : ~Working(p)
      /\ phase # "loaded"
  BY MayMeansAlone DEF K!Call
<1>2. PICK op \in K!Ops, a \in Agents :
        /\ K!Withdraw(op, a)
        /\ IF phase # "up"
           THEN /\ cmd' = [cmd EXCEPT ![c] = [step |-> "offline", op |-> op, agent |-> a]]
                /\ UNCHANGED <<listed, job>>
           ELSE /\ listed' = K!Apply(op, a, listed)
                /\ IF K!Writes(op, a, listed)
                   THEN /\ K!Rewrite(Proxy, op, a, K!Apply(op, a, listed), c)
                        /\ cmd' = [cmd EXCEPT ![c] = [step |-> "waiting", op |-> op, agent |-> a]]
                   ELSE UNCHANGED <<job, cmd>>
  BY DEF K!Call
<1>3. UNCHANGED <<file, ktmp, data, phase>>
  BY DEF K!Call, K!disk
<1>4. /\ promised' \subseteq promised /\ cleared' \subseteq cleared
      /\ op = "revoke" => a \notin cleared'
      /\ op # "revoke" => a \notin promised'
  BY <1>2 DEF K!Withdraw
<1>5. K!Listed' = K!Listed /\ K!Readable' = K!Readable
  BY <1>3 DEF K!Listed, K!Readable
<1>6. Honours(K!Listed)'
  BY <1>4, <1>5 DEF KillInv, WordKept, Honours
<1>7. Proxy \in K!Procs /\ ~Working(Proxy) /\ Commands \subseteq K!Procs
  BY <1>1 DEF K!Procs
<1>8. CASE phase # "up"
  <2>1. PICK o : o = [step |-> "offline", op |-> op, agent |-> a]
    OBVIOUS
  <2>2. o \in Orders /\ o.step = "offline" /\ o.op = op /\ o.agent = a /\ o # K!Free
    BY <2>1, OrdersRun DEF Orders
  <2>3. cmd' = [cmd EXCEPT ![c] = o] /\ UNCHANGED <<listed, job>>
    BY <1>2, <1>8, <2>1
  <2>4. KillTyped'
    BY <1>3, <1>4, <2>2, <2>3 DEF KillInv, KillTyped
  <2>5. cmd'[c] = o /\ (\A p \in K!Procs : ~Working(p)') /\ (\A d \in Commands : Underway(d)' => d = c)
    BY <1>1, <2>3 DEF KillInv, KillTyped, Underway, Working
  <2>6. OneAtATime' /\ JobsFollow'
    BY <1>7, <2>5 DEF OneAtATime, JobsFollow
  <2>7. CommandsFollow' /\ InMemory'
    BY <1>1, <1>3, <1>7, <1>8, <2>2, <2>5 DEF CommandsFollow, InMemory, KillInv, KillTyped
  <2>8. Whole'
    BY <1>3, <1>5, <2>5 DEF KillInv, Whole
  <2>9. WordKept'
    BY <1>4, <1>6, <2>2, <2>5 DEF WordKept
  <2> QED
    BY <2>4, <2>6, <2>7, <2>8, <2>9 DEF KillInv
<1>9. CASE phase = "up" /\ ~K!Writes(op, a, listed)
  <2>1. UNCHANGED <<job, cmd>> /\ listed' = listed
    BY <1>2, <1>9 DEF K!Writes, K!Apply
  <2>2. (\A d \in Commands : ~Underway(d)') /\ (\A p \in K!Procs : ~Working(p)')
    BY <1>1, <2>1 DEF Underway, Working
  <2>3. KillTyped' /\ Whole' /\ InMemory'
    BY <1>3, <1>4, <1>5, <1>7, <2>1, <2>2 DEF KillInv, KillTyped, Whole, InMemory, Working
  <2>4. WordKept'
    BY <1>6, <2>2 DEF WordKept
  <2> QED
    BY <2>2, <2>3, <2>4, NobodyWorks DEF KillInv
<1>10. CASE phase = "up" /\ K!Writes(op, a, listed)
  <2>1. listed = K!Listed /\ listed \in SUBSET Agents
    BY <1>7, <1>10 DEF KillInv, InMemory, KillTyped
  <2>2. PICK set : set = K!Apply(op, a, listed)
    OBVIOUS
  <2>3. /\ set \in SUBSET Agents /\ promised' \subseteq set /\ cleared' \cap set = {}
        /\ (IF op = "revoke" THEN a \in set ELSE a \notin set)
    BY <1>4, <1>6, <1>5, <2>1, <2>2 DEF K!Apply, Honours
  <2>4. PICK j : j = [at |-> "open", ino |-> None, set |-> set, op |-> op, agent |-> a, asker |-> c]
    OBVIOUS
  <2>5. /\ j \in Jobs /\ j.at = "open" /\ j.set = set /\ j.op = op /\ j.agent = a /\ j.asker = c /\ j # K!NoJob
    BY <1>7, <2>3, <2>4, JobsWork DEF Jobs
  <2>6. PICK o : o = [step |-> "waiting", op |-> op, agent |-> a]
    OBVIOUS
  <2>7. o \in Orders /\ o.step = "waiting" /\ o.op = op /\ o.agent = a /\ o # K!Free
    BY <2>6, OrdersRun DEF Orders
  <2>8. cmd' = [cmd EXCEPT ![c] = o] /\ job' = [job EXCEPT ![Proxy] = j] /\ listed' = set
    BY <1>2, <1>10, <2>2, <2>4, <2>6 DEF K!Rewrite
  <2>9. KillTyped'
    BY <1>3, <1>4, <1>7, <2>3, <2>5, <2>7, <2>8 DEF KillInv, KillTyped
  <2>10. /\ cmd'[c] = o /\ job'[Proxy] = j
         /\ \A p \in K!Procs : Working(p)' => p = Proxy
         /\ \A d \in Commands : Underway(d)' => d = c
         /\ Underway(c)' /\ Working(Proxy)'
    BY <1>1, <1>7, <2>5, <2>7, <2>8 DEF KillInv, KillTyped, Underway, Working
  <2>11. c # Proxy /\ Proxy \notin Commands
    BY KillSwitchIsSound DEF K!ProxyAssumption
  <2>12. OneAtATime' /\ JobsFollow'
    BY <1>3, <1>7, <1>10, <2>5, <2>7, <2>10, <2>11 DEF OneAtATime, JobsFollow
  <2>13. CommandsFollow' /\ InMemory'
    BY <1>3, <1>7, <1>10, <2>5, <2>7, <2>8, <2>10 DEF CommandsFollow, InMemory
  <2>14. Whole'
    BY <1>3, <1>5, <2>5, <2>10 DEF KillInv, Whole
  <2>15. WordKept'
    BY <1>4, <1>6, <2>3, <2>5, <2>7, <2>10 DEF WordKept, Honours, Reaches
  <2> QED
    BY <2>9, <2>12, <2>13, <2>14, <2>15 DEF KillInv
<1> QED
  BY <1>8, <1>9, <1>10

\* With nobody to ask, the command rewrites the list it finds.
LEMMA OpenStoreKeeps ==
  ASSUME KillInv, NEW c \in Commands, K!OpenStore(c)
  PROVE  KillInv'
<1>1. /\ Underway(c) /\ cmd[c].step = "offline" /\ cmd[c] \in Orders
      /\ UNCHANGED <<file, ktmp, data, phase, listed, promised, cleared>>
  BY DEF K!OpenStore, K!disk, Underway, KillInv, KillTyped
<1>2. phase = "down" /\ (\A p \in K!Procs : ~Working(p)) /\ (\A d \in Commands : Underway(d) => d = c)
  BY <1>1 DEF KillInv, CommandsFollow, OneAtATime
<1>3. K!Listed' = K!Listed /\ K!Readable' = K!Readable
  BY <1>1 DEF K!Listed, K!Readable
<1>4. c \in K!Procs /\ Proxy \in K!Procs /\ c # Proxy /\ ~Working(Proxy)
  BY <1>2, KillSwitchIsSound DEF K!ProxyAssumption, K!Procs
<1>5. CASE cmd' = [cmd EXCEPT ![c] = K!Free] /\ UNCHANGED job
  <2>1. (\A d \in Commands : ~Underway(d)') /\ (\A p \in K!Procs : ~Working(p)')
    BY <1>2, <1>5 DEF KillInv, KillTyped, Underway, Working
  <2>2. KillTyped'
    BY <1>1, <1>5 DEF KillInv, KillTyped
  <2>3. Whole' /\ InMemory' /\ WordKept'
    BY <1>1, <1>2, <1>3, <1>4, <2>1 DEF KillInv, Whole, InMemory, WordKept, Honours
  <2> QED
    BY <2>1, <2>2, <2>3, NobodyWorks DEF KillInv
<1>6. CASE /\ K!Readable
           /\ K!Rewrite(c, cmd[c].op, cmd[c].agent, K!Apply(cmd[c].op, cmd[c].agent, K!Listed), c)
           /\ cmd' = [cmd EXCEPT ![c].step = "writing"]
  <2>1. PICK set : set = K!Apply(cmd[c].op, cmd[c].agent, K!Listed)
    OBVIOUS
  <2>2. K!Listed \subseteq Agents
    BY <1>6 DEF KillInv, KillTyped, K!Listed, K!Readable
  <2>3. cmd[c].op \in K!Ops /\ cmd[c].agent \in Agents
    BY <1>1 DEF Orders
  <2>4. /\ set \in SUBSET Agents /\ Honours(set)
        /\ IF cmd[c].op = "revoke" THEN cmd[c].agent \in set ELSE cmd[c].agent \notin set
    BY <1>1, <2>1, <2>2, <2>3 DEF KillInv, WordKept, Honours, K!Apply
  <2>5. PICK j : j = [at |-> "open", ino |-> None, set |-> set, op |-> cmd[c].op, agent |-> cmd[c].agent, asker |-> c]
    OBVIOUS
  <2>6. /\ j \in Jobs /\ j.at = "open" /\ j.set = set /\ j.op = cmd[c].op /\ j.agent = cmd[c].agent
        /\ j.asker = c /\ j # K!NoJob
    BY <1>4, <2>3, <2>4, <2>5, JobsWork DEF Jobs
  <2>7. PICK o : o = [cmd[c] EXCEPT !.step = "writing"]
    OBVIOUS
  <2>8. o \in Orders /\ o.step = "writing" /\ o.op = cmd[c].op /\ o.agent = cmd[c].agent /\ o # K!Free
    BY <1>1, <2>7, OrdersRun DEF Orders
  <2>9. job' = [job EXCEPT ![c] = j] /\ cmd' = [cmd EXCEPT ![c] = o]
    BY <1>6, <2>1, <2>5, <2>7 DEF K!Rewrite
  <2>10. KillTyped'
    BY <1>1, <1>4, <2>6, <2>8, <2>9 DEF KillInv, KillTyped
  <2>11. /\ cmd'[c] = o /\ job'[c] = j
         /\ \A p \in K!Procs : Working(p)' => p = c
         /\ \A d \in Commands : Underway(d)' => d = c
         /\ Underway(c)' /\ Working(c)' /\ ~Working(Proxy)'
    BY <1>2, <1>4, <2>6, <2>8, <2>9 DEF KillInv, KillTyped, Underway, Working
  <2>12. OneAtATime' /\ JobsFollow' /\ CommandsFollow' /\ InMemory'
    BY <1>1, <1>2, <1>4, <2>6, <2>8, <2>11
    DEF OneAtATime, JobsFollow, CommandsFollow, InMemory, K!Procs
  <2>13. Whole'
    BY <1>1, <1>3, <2>6, <2>11 DEF KillInv, Whole
  <2>14. WordKept'
    BY <1>1, <1>3, <2>4, <2>6, <2>8, <2>11 DEF KillInv, WordKept, Honours, Reaches
  <2> QED
    BY <2>10, <2>12, <2>13, <2>14 DEF KillInv
<1> QED
  BY <1>5, <1>6 DEF K!OpenStore

\* The proxy cuts an agent off of itself only while no command waits for it.
LEMMA TripKeeps ==
  ASSUME KillInv, K!Trip
  PROVE  KillInv'
<1>1. PICK a \in Agents \ listed :
        /\ listed' = listed \cup {a}
        /\ K!Rewrite(Proxy, "revoke", a, listed \cup {a}, Proxy)
        /\ K!Withdraw("revoke", a)
  BY DEF K!Trip
<1>2. phase = "up" /\ ~Working(Proxy) /\ UNCHANGED <<file, ktmp, data, phase, cmd>>
  BY DEF K!Trip, K!disk, Working
<1>3. Proxy \in K!Procs /\ Proxy \notin Commands
  BY KillSwitchIsSound DEF K!Procs, K!ProxyAssumption
<1>4. (\A c \in Commands : ~Underway(c)) /\ (\A p \in K!Procs : ~Working(p))
  <2>1. ASSUME NEW c \in Commands PROVE ~Underway(c)
    <3>1. Underway(c) => cmd[c] \in Orders
      BY DEF KillInv, KillTyped, Underway
    <3>2. Underway(c) => cmd[c].step \in {"waiting", "offline", "writing"}
      BY <3>1 DEF Orders
    <3> QED
      BY <1>2, <3>2 DEF KillInv, CommandsFollow
  <2> QED
    BY <1>2, <2>1 DEF KillInv, JobsFollow, K!Procs
<1>5. listed = K!Listed /\ K!Listed' = K!Listed /\ K!Readable' = K!Readable
  BY <1>2 DEF KillInv, InMemory, K!Listed, K!Readable
<1>6. promised' = promised /\ cleared' = cleared \ {a}
  BY <1>1 DEF K!Withdraw
<1>7. PICK j : j = [at |-> "open", ino |-> None, set |-> listed \cup {a}, op |-> "revoke", agent |-> a, asker |-> Proxy]
  OBVIOUS
<1>8. /\ j \in Jobs /\ j.at = "open" /\ j.set = listed \cup {a} /\ j.op = "revoke" /\ j.agent = a
      /\ j.asker = Proxy /\ j # K!NoJob
  <2>1. listed \cup {a} \in SUBSET Agents /\ "revoke" \in K!Ops
    BY DEF KillInv, KillTyped, K!Ops
  <2> QED
    BY <1>3, <1>7, <2>1, JobsWork DEF Jobs
<1>9. job' = [job EXCEPT ![Proxy] = j]
  BY <1>1, <1>7 DEF K!Rewrite
<1>10. KillTyped'
  BY <1>1, <1>2, <1>3, <1>6, <1>8, <1>9 DEF KillInv, KillTyped
<1>11. /\ job'[Proxy] = j /\ Working(Proxy)' /\ \A p \in K!Procs : Working(p)' => p = Proxy
       /\ \A c \in Commands : ~Underway(c)'
  BY <1>2, <1>3, <1>4, <1>8, <1>9 DEF KillInv, KillTyped, Underway, Working
<1>12. OneAtATime' /\ CommandsFollow' /\ JobsFollow' /\ InMemory'
  BY <1>1, <1>2, <1>3, <1>8, <1>11 DEF OneAtATime, CommandsFollow, JobsFollow, InMemory, K!Procs
<1>13. Whole'
  BY <1>2, <1>5, <1>8, <1>11 DEF KillInv, Whole
<1>14. WordKept'
  BY <1>5, <1>6, <1>8, <1>11 DEF KillInv, WordKept, Honours, Reaches
<1> QED
  BY <1>10, <1>12, <1>13, <1>14 DEF KillInv

LEMMA StartKeeps ==
  ASSUME ~Overlap, KillInv, K!Start
  PROVE  KillInv'
<1>1. (\A c \in Commands : ~Underway(c)) /\ (\A p \in K!Procs : ~Working(p))
  BY MayMeansAlone DEF K!Start
<1>2. K!Readable /\ phase' = "loaded" /\ listed' = K!Listed /\ UNCHANGED <<file, ktmp, data, cmd, job, promised, cleared>>
  BY DEF K!Start, K!disk
<1>3. (\A c \in Commands : ~Underway(c)') /\ (\A p \in K!Procs : ~Working(p)')
  BY <1>1, <1>2 DEF Underway, Working
<1>4. K!Listed' = K!Listed /\ K!Readable' /\ K!Listed \subseteq Agents
  BY <1>2 DEF KillInv, KillTyped, K!Listed, K!Readable
<1>5. KillTyped'
  BY <1>2, <1>4 DEF KillInv, KillTyped
<1>6. Whole' /\ InMemory' /\ WordKept'
  BY <1>2, <1>3, <1>4 DEF KillInv, Whole, InMemory, WordKept, Honours, K!Procs
<1> QED
  BY <1>3, <1>5, <1>6, NobodyWorks DEF KillInv

LEMMA ListenKeeps ==
  ASSUME KillInv, K!Listen
  PROVE  KillInv'
<1>1. phase = "loaded" /\ phase' = "up" /\ UNCHANGED <<file, ktmp, data, listed, cmd, job, promised, cleared>>
  BY DEF K!Listen, K!disk
<1>2. (\A c \in Commands : ~Underway(c)) /\ (\A p \in K!Procs : ~Working(p))
  BY <1>1 DEF KillInv, CommandsFollow, JobsFollow, K!Procs
<1>3. (\A c \in Commands : ~Underway(c)') /\ (\A p \in K!Procs : ~Working(p)')
  BY <1>1, <1>2 DEF Underway, Working
<1>4. K!Listed' = K!Listed /\ K!Readable' = K!Readable
  BY <1>1 DEF K!Listed, K!Readable
<1>5. KillTyped'
  BY <1>1 DEF KillInv, KillTyped
<1>6. Whole' /\ InMemory' /\ WordKept'
  BY <1>1, <1>3, <1>4 DEF KillInv, Whole, InMemory, WordKept, Honours, K!Procs
<1> QED
  BY <1>3, <1>5, <1>6, NobodyWorks DEF KillInv

\* A command whose proxy died works on, alone, from the list on the disk.
LEMMA ProxyDiesKeeps ==
  ASSUME KillInv, K!ProxyDies
  PROVE  KillInv'
<1>1. /\ phase # "down" /\ phase' = "down" /\ listed' = {} /\ job' = [job EXCEPT ![Proxy] = K!NoJob]
      /\ cmd' = [c \in Commands |-> IF cmd[c] # K!Free /\ cmd[c].step = "waiting"
                                    THEN [cmd[c] EXCEPT !.step = "offline"] ELSE cmd[c]]
      /\ UNCHANGED <<file, ktmp, data, promised, cleared>>
  BY DEF K!ProxyDies, K!disk
<1>2. Proxy \in K!Procs
  BY DEF K!Procs
<1>3. \A p \in K!Procs : ~Working(p)'
  <2>1. \A c \in Commands : ~Working(c)
    BY <1>1 DEF KillInv, JobsFollow, CommandsFollow
  <2> QED
    BY <1>1, <2>1 DEF KillInv, KillTyped, Working, K!Procs
<1>4. ASSUME NEW c \in Commands, Underway(c)
      PROVE  /\ cmd'[c] \in Orders /\ cmd'[c].step = "offline"
             /\ cmd'[c].op = cmd[c].op /\ cmd'[c].agent = cmd[c].agent
  <2>1. cmd[c] \in Orders
    BY <1>4 DEF KillInv, KillTyped, Underway
  <2>2. cmd[c].step = "waiting"
    BY <1>1, <1>4, <2>1 DEF KillInv, CommandsFollow, Orders
  <2>3. PICK o : o = [cmd[c] EXCEPT !.step = "offline"]
    OBVIOUS
  <2>4. o \in Orders /\ o.step = "offline" /\ o.op = cmd[c].op /\ o.agent = cmd[c].agent
    BY <2>1, <2>3 DEF Orders
  <2> QED
    BY <1>1, <1>4, <2>2, <2>3, <2>4 DEF Underway
<1>5. ASSUME NEW c \in Commands, ~Underway(c)
      PROVE  cmd'[c] = K!Free /\ ~Underway(c)'
  BY <1>1, <1>5 DEF Underway
<1>6. KillTyped'
  <2>1. cmd' \in [Commands -> Orders \cup {K!Free}]
    BY <1>1, <1>4, <1>5
  <2> QED
    BY <1>1, <2>1 DEF KillInv, KillTyped
<1>7. K!Listed' = K!Listed /\ K!Readable' = K!Readable
  BY <1>1 DEF K!Listed, K!Readable
<1>8. OneAtATime' /\ JobsFollow' /\ InMemory'
  BY <1>1, <1>2, <1>3, <1>5 DEF KillInv, OneAtATime, JobsFollow, InMemory, K!Procs
<1>9. CommandsFollow'
  BY <1>1, <1>3, <1>4, <1>5 DEF CommandsFollow
<1>10. Whole' /\ WordKept'
  BY <1>1, <1>3, <1>4, <1>5, <1>7 DEF KillInv, Whole, WordKept, Honours
<1> QED
  BY <1>6, <1>8, <1>9, <1>10 DEF KillInv

\* A dying command leaves a temporary file behind at most.
LEMMA CommandDiesKeeps ==
  ASSUME KillInv, NEW c \in Commands, K!CommandDies(c)
  PROVE  KillInv'
<1>1. /\ Underway(c) /\ cmd[c].step # "waiting"
      /\ cmd' = [cmd EXCEPT ![c] = K!Free] /\ job' = [job EXCEPT ![c] = K!NoJob]
      /\ UNCHANGED <<file, ktmp, data, phase, listed, promised, cleared>>
  BY DEF K!CommandDies, K!disk, Underway
<1>2. cmd[c] \in Orders /\ cmd[c].step \in {"offline", "writing"}
  BY <1>1 DEF KillInv, KillTyped, Underway, Orders
<1>3. phase = "down" /\ (\A d \in Commands : Underway(d) => d = c)
  BY <1>1, <1>2 DEF KillInv, CommandsFollow, OneAtATime
<1>4. \A p \in K!Procs : Working(p) => p = c
  BY <1>3 DEF KillInv, JobsFollow, K!Procs
<1>5. (\A d \in Commands : ~Underway(d)') /\ (\A p \in K!Procs : ~Working(p)')
  BY <1>1, <1>3, <1>4 DEF KillInv, KillTyped, Underway, Working
<1>6. KillTyped'
  BY <1>1 DEF KillInv, KillTyped
<1>7. K!Listed' = K!Listed /\ K!Readable' = K!Readable
  BY <1>1 DEF K!Listed, K!Readable
<1>8. Whole' /\ InMemory' /\ WordKept'
  BY <1>1, <1>3, <1>5, <1>7 DEF KillInv, Whole, InMemory, WordKept, Honours, K!Procs
<1> QED
  BY <1>5, <1>6, <1>8, NobodyWorks DEF KillInv

LEMMA KillInvariance ==
  ASSUME ~Overlap, KillInv, K!Next \/ UNCHANGED killVars
  PROVE  KillInv'
<1>1. CASE UNCHANGED killVars
  <2>1. K!Listed' = K!Listed /\ K!Readable' = K!Readable
    BY <1>1 DEF killVars, K!Listed, K!Readable
  <2>2. KillTyped' /\ OneAtATime' /\ CommandsFollow' /\ JobsFollow'
    BY <1>1 DEF killVars, KillInv, KillTyped, OneAtATime, CommandsFollow, JobsFollow, Underway, Working
  <2>3. Whole' /\ InMemory' /\ WordKept'
    BY <1>1, <2>1 DEF killVars, KillInv, Whole, InMemory, WordKept, Honours, Reaches, Underway, Working
  <2> QED
    BY <2>2, <2>3 DEF KillInv
<1> QED
  BY <1>1, OpenKeeps, WriteKeeps, RenameKeeps, CallKeeps, OpenStoreKeeps, CommandDiesKeeps, TripKeeps, StartKeeps,
     ListenKeeps, ProxyDiesKeeps DEF K!Next

\* A list a proxy can always start from, with everyone the operator was told is cut off
\* and nobody it was told is restored, for any number of agents, of commands, and of steps,
\* wherever a process dies - while one command or start is under way at a time.
THEOREM WordStaysKept ==
  ASSUME ~Overlap
  PROVE  HostSpec => []WordIsKept
<1>1. HostInit => KillInv
  BY KillStarts DEF HostInit
<1>2. KillInv /\ [HostNext]_hostVars => KillInv'
  <2> SUFFICES ASSUME KillInv, [HostNext]_hostVars PROVE KillInv'
    OBVIOUS
  <2>1. K!Next \/ UNCHANGED killVars
    BY DEF hostVars, HostNext, OfSocket, OfKillSwitch, OfConfig, OfVault, OfDevice, OfLog, OfStream
  <2> QED
    BY <2>1, KillInvariance
<1>3. KillInv => WordIsKept
  <2> SUFFICES ASSUME KillInv PROVE WordIsKept
    OBVIOUS
  <2>1. K!CutOffSurvives /\ K!NeverLeftTorn
    BY DEF KillInv, WordKept, Whole, Honours, K!CutOffSurvives, K!NeverLeftTorn
  <2>2. phase = "up" => cleared \cap listed = {}
    <3>1. CASE Working(Proxy)
      BY <3>1 DEF KillInv, InMemory, WordKept, Honours, K!Procs
    <3>2. CASE ~Working(Proxy)
      BY <3>2 DEF KillInv, InMemory, WordKept, Honours
    <3> QED
      BY <3>1, <3>2
  <2>3. K!RestoresAreKept
    BY <2>2 DEF KillInv, WordKept, Honours, K!RestoresAreKept
  <2> QED
    BY <2>1, <2>3 DEF WordIsKept
<1> QED
  BY <1>1, <1>2, <1>3, PTL DEF HostSpec

-------------------------------------------------------------------------------
(* `grenz connect` without a URL. *)

FlowTyped ==
  /\ at \in {"idle", "asleep", "asking"} \cup D!Ends
  /\ second \in Nat /\ deadline \in Nat /\ interval \in Nat /\ failures \in Nat /\ wakes \in Nat
  /\ asked \in Seq(Nat) /\ lost \in Seq(BOOLEAN)
  /\ MinInterval <= interval

Begun == at = "idle" => asked = <<>> /\ lost = <<>> /\ failures = 0

\* Questions are behind the clock, and the next one keeps its distance.
Paced ==
  /\ \A i \in 1..Len(asked) : asked[i] <= second
  /\ at = "asleep" => \A i \in 1..Len(asked) : asked[i] + MinInterval <= wakes /\ asked[i] < deadline
  /\ \A i \in 1..(Len(asked) - 1) : asked[i] + MinInterval <= asked[i + 1] /\ asked[i] < deadline

\* failures counts the questions lost since the last answer.
CountsLosses ==
  /\ failures <= Len(lost)
  /\ \A i \in (Len(lost) - failures + 1)..Len(lost) : lost[i]
  /\ failures < Len(lost) => ~lost[Len(lost) - failures]
  /\ (at = "lost_contact") = (failures > MaxFailures)

TimedOut == at = "timed_out" => deadline <= second

FlowInv == FlowTyped /\ Begun /\ Paced /\ CountsLosses /\ TimedOut

LEMMA ClampIsWithin ==
  ASSUME NEW n \in Int, NEW low \in Nat, NEW high \in Nat, low <= high
  PROVE  D!Clamp(n, low, high) \in low..high
  BY DEF D!Clamp

LEMMA FlowStarts == D!FlowAssumption /\ D!Init => FlowInv
<1> SUFFICES ASSUME D!FlowAssumption, D!Init PROVE FlowInv
  OBVIOUS
<1>1. asked = <<>> /\ lost = <<>> /\ Len(asked) = 0 /\ Len(lost) = 0
  BY DEF D!Init
<1>2. MinInterval \in Nat /\ MaxFailures \in Nat
  BY DEF D!FlowAssumption
<1> QED
  BY <1>1, <1>2 DEF D!Init, FlowInv, FlowTyped, Begun, Paced, CountsLosses, TimedOut

\* The clock and the console change nothing a question rests on.
LEMMA OthersKeepTheFlow ==
  ASSUME FlowInv, D!Approve \/ D!Expire \/ D!Tick \/ UNCHANGED flowVars
  PROVE  FlowInv'
<1>1. UNCHANGED <<at, deadline, interval, failures, wakes, asked, lost>> /\ second' \in Nat /\ second <= second'
  BY DEF flowVars, D!Approve, D!Expire, D!Tick, FlowInv, FlowTyped
<1>2. \A i \in 1..Len(asked) : asked[i] \in Nat
  BY DEF FlowInv, FlowTyped
<1>3. Paced'
  BY <1>1, <1>2 DEF FlowInv, FlowTyped, Paced
<1> QED
  BY <1>1, <1>3 DEF FlowInv, FlowTyped, Begun, CountsLosses, TimedOut

LEMMA StartKeepsTheFlow ==
  ASSUME D!FlowAssumption, FlowInv,
         D!StartRefused \/ \E expires, every \in Offers : D!Start(expires, every)
  PROVE  FlowInv'
<1>1. /\ at = "idle" /\ asked = <<>> /\ lost = <<>> /\ Len(asked) = 0 /\ Len(lost) = 0 /\ failures = 0
      /\ UNCHANGED <<second, failures, asked, lost>>
  BY DEF D!StartRefused, D!Start, FlowInv, Begun
<1>2. CASE D!StartRefused
  BY <1>1, <1>2 DEF D!StartRefused, D!Ends, FlowInv, FlowTyped, Begun, Paced, CountsLosses, TimedOut
<1>3. ASSUME NEW expires \in Offers, NEW every \in Offers, D!Start(expires, every)
      PROVE  FlowInv'
  <2>1. /\ at' = "asleep" /\ wakes' = second + interval'
        /\ deadline' = second + D!Clamp(expires, MinLifetime, MaxLifetime)
        /\ interval' = D!Clamp(every, MinInterval, MaxInterval)
    BY <1>3 DEF D!Start
  <2>2. /\ D!Clamp(expires, MinLifetime, MaxLifetime) \in MinLifetime..MaxLifetime
        /\ D!Clamp(every, MinInterval, MaxInterval) \in MinInterval..MaxInterval
    BY ClampIsWithin DEF D!FlowAssumption
  <2>3. deadline' \in Nat /\ interval' \in Nat /\ wakes' \in Nat /\ MinInterval <= interval'
    <3>1. second \in Nat /\ MinLifetime \in Nat /\ MaxLifetime \in Nat /\ MinInterval \in Nat /\ MaxInterval \in Nat
      BY DEF D!FlowAssumption, FlowInv, FlowTyped
    <3>2. interval' \in Nat /\ MinInterval <= interval'
      BY <2>1, <2>2, <3>1
    <3>3. D!Clamp(expires, MinLifetime, MaxLifetime) \in Nat
      BY <2>2, <3>1
    <3> QED
      BY <2>1, <3>1, <3>2, <3>3
  <2> QED
    BY <1>1, <2>1, <2>3 DEF FlowInv, FlowTyped, Begun, Paced, CountsLosses, TimedOut, D!FlowAssumption
<1> QED
  BY <1>2, <1>3

LEMMA AskKeepsTheFlow ==
  ASSUME D!FlowAssumption, FlowInv, D!Ask
  PROVE  FlowInv'
<1>1. /\ at = "asleep" /\ second >= wakes /\ at' = "asking" /\ asked' = Append(asked, second)
      /\ UNCHANGED <<second, deadline, interval, failures, wakes, lost>>
  BY DEF D!Ask
<1>2. /\ asked \in Seq(Nat) /\ second \in Nat /\ wakes \in Nat /\ deadline \in Nat /\ MinInterval \in Nat
  BY DEF FlowInv, FlowTyped, D!FlowAssumption
<1>3. asked' \in Seq(Nat) /\ Len(asked') = Len(asked) + 1 /\ asked'[Len(asked) + 1] = second
      /\ \A i \in 1..Len(asked) : asked'[i] = asked[i] /\ asked[i] \in Nat
  BY <1>1, <1>2
<1>4. \A i \in 1..Len(asked) : asked[i] <= second /\ asked[i] + MinInterval <= second /\ asked[i] < deadline
  BY <1>1, <1>2, <1>3 DEF FlowInv, Paced
<1>5. Paced'
  <2>1. \A i \in 1..Len(asked') : asked'[i] <= second'
    BY <1>1, <1>2, <1>3, <1>4
  <2>2. ASSUME NEW i \in 1..(Len(asked') - 1)
        PROVE  asked'[i] + MinInterval <= asked'[i + 1] /\ asked'[i] < deadline'
    <3>1. CASE i = Len(asked)
      BY <1>1, <1>2, <1>3, <1>4, <3>1
    <3>2. CASE i # Len(asked)
      <4>1. i \in 1..(Len(asked) - 1) /\ i \in 1..Len(asked) /\ i + 1 \in 1..Len(asked)
        BY <1>2, <1>3, <2>2, <3>2
      <4>2. asked[i] + MinInterval <= asked[i + 1] /\ asked[i] < deadline
        BY <4>1 DEF FlowInv, Paced
      <4> QED
        BY <1>1, <1>3, <4>1, <4>2
    <3> QED
      BY <3>1, <3>2
  <2> QED
    BY <1>1, <2>1, <2>2 DEF Paced
<1> QED
  BY <1>1, <1>3, <1>5 DEF FlowInv, FlowTyped, Begun, CountsLosses, TimedOut

\* The head of the loop leaves room for the next question, or ends the flow in time.
LEMMA AgainIsPaced ==
  ASSUME D!FlowAssumption, FlowInv, at = "asking", D!Again, UNCHANGED <<second, deadline, asked>>,
         interval' \in Nat, MinInterval <= interval'
  PROVE  /\ at' \in {"asleep", "timed_out"} /\ wakes' \in Nat
         /\ Paced' /\ TimedOut'
<1>1. /\ second \in Nat /\ wakes \in Nat /\ deadline \in Nat /\ MinInterval \in Nat
      /\ \A i \in 1..Len(asked) : asked[i] \in Nat /\ asked[i] <= second
  BY DEF FlowInv, FlowTyped, Paced, D!FlowAssumption
<1>2. CASE second < deadline
  <2>1. at' = "asleep" /\ wakes' = second + interval'
    BY <1>2 DEF D!Again
  <2>2. \A i \in 1..Len(asked) : asked[i] + MinInterval <= wakes' /\ asked[i] < deadline
    BY <1>1, <1>2, <2>1
  <2>3. wakes' \in Nat
    <3>1. \A m, n \in Nat : m + n \in Nat
      OBVIOUS
    <3> QED
      BY <1>1, <2>1, <3>1, Zenon
  <2>4. Paced'
    BY <2>1, <2>2 DEF FlowInv, Paced
  <2> QED
    BY <2>1, <2>3, <2>4 DEF TimedOut
<1>3. CASE ~(second < deadline)
  BY <1>1, <1>3 DEF D!Again, FlowInv, Paced, TimedOut
<1> QED
  BY <1>2, <1>3

LEMMA LostKeepsTheFlow ==
  ASSUME D!FlowAssumption, FlowInv, D!Lost
  PROVE  FlowInv'
<1>1. /\ at = "asking" /\ failures' = failures + 1 /\ lost' = Append(lost, TRUE)
      /\ UNCHANGED <<second, deadline, asked>>
  BY DEF D!Lost
<1>2. /\ lost \in Seq(BOOLEAN) /\ failures \in Nat /\ interval \in Nat /\ MinInterval <= interval /\ wakes \in Nat
      /\ MaxFailures \in Nat /\ MinInterval \in Nat /\ MaxInterval \in Nat /\ MinInterval <= MaxInterval
  BY DEF FlowInv, FlowTyped, D!FlowAssumption
<1>3. /\ lost' \in Seq(BOOLEAN) /\ Len(lost') = Len(lost) + 1 /\ lost'[Len(lost) + 1] = TRUE
      /\ \A i \in 1..Len(lost) : lost'[i] = lost[i]
  BY <1>1, <1>2
<1>4. /\ at' \in {"asleep", "timed_out", "lost_contact"} /\ wakes' \in Nat /\ interval' \in Nat
      /\ MinInterval <= interval' /\ Paced' /\ TimedOut'
      /\ (at' = "lost_contact") = (failures' > MaxFailures)
  <2>1. CASE failures' > MaxFailures
    BY <1>1, <1>2, <2>1 DEF D!Lost, FlowInv, Paced, TimedOut
  <2>2. CASE ~(failures' > MaxFailures)
    <3>1. interval' = D!Clamp(interval * 2, 0, MaxInterval) /\ D!Again
      BY <2>2 DEF D!Lost
    <3>2. interval' \in Nat /\ MinInterval <= interval'
      BY <1>2, <3>1 DEF D!Clamp
    <3> QED
      BY <1>1, <2>2, <3>1, <3>2, AgainIsPaced
  <2> QED
    BY <2>1, <2>2
<1>5. CountsLosses'
  <2>1. /\ failures <= Len(lost)
        /\ \A i \in (Len(lost) - failures + 1)..Len(lost) : lost[i]
        /\ failures < Len(lost) => ~lost[Len(lost) - failures]
    BY DEF FlowInv, CountsLosses
  <2>2. failures' <= Len(lost')
    BY <1>1, <1>2, <1>3, <2>1
  <2>3. ASSUME NEW i \in (Len(lost') - failures' + 1)..Len(lost') PROVE lost'[i]
    <3>1. i = Len(lost) + 1 \/ i \in (Len(lost) - failures + 1)..Len(lost)
      BY <1>1, <1>2, <1>3
    <3>2. i \in (Len(lost) - failures + 1)..Len(lost) => i \in 1..Len(lost)
      BY <1>2, <2>1
    <3> QED
      BY <1>3, <2>1, <3>1, <3>2
  <2>4. ASSUME failures' < Len(lost') PROVE ~lost'[Len(lost') - failures']
    <3>1. Len(lost') - failures' = Len(lost) - failures /\ failures < Len(lost)
      BY <1>1, <1>2, <1>3, <2>4
    <3>2. Len(lost) - failures \in 1..Len(lost)
      BY <1>2, <3>1
    <3> QED
      BY <1>3, <2>1, <3>1, <3>2
  <2> QED
    BY <1>4, <2>2, <2>3, <2>4 DEF CountsLosses
<1>6. FlowTyped'
  BY <1>1, <1>2, <1>3, <1>4 DEF FlowInv, FlowTyped, D!Ends
<1> QED
  BY <1>4, <1>5, <1>6 DEF FlowInv, Begun

\* Whatever the answer is, it was heard: the count of losses starts anew.
LEMMA HeardKeepsTheFlow ==
  ASSUME D!FlowAssumption, FlowInv,
         (\E every \in Offers : D!Pending(every)) \/ D!PendingUnchanged \/ D!Refused \/ D!Ready
  PROVE  FlowInv'
<1>1. /\ at = "asking" /\ failures' = 0 /\ lost' = Append(lost, FALSE)
      /\ UNCHANGED <<second, deadline, asked>>
  BY DEF D!Pending, D!PendingUnchanged, D!Refused, D!Ready, D!Heard
<1>2. /\ lost \in Seq(BOOLEAN) /\ interval \in Nat /\ MinInterval <= interval /\ wakes \in Nat /\ MaxFailures \in Nat
  BY DEF FlowInv, FlowTyped, D!FlowAssumption
<1>3. lost' \in Seq(BOOLEAN) /\ Len(lost') = Len(lost) + 1 /\ lost'[Len(lost) + 1] = FALSE
  BY <1>1, <1>2
<1>4. /\ at' \in {"asleep", "timed_out", "refused", "ready"} /\ wakes' \in Nat /\ interval' \in Nat
      /\ MinInterval <= interval' /\ Paced' /\ TimedOut'
  <2>1. ASSUME NEW every \in Offers, D!Pending(every)
        PROVE  D!Again /\ interval' \in Nat /\ MinInterval <= interval'
    <3>1. D!Again /\ interval' = D!Clamp(every, MinInterval, MaxInterval)
      BY <2>1 DEF D!Pending
    <3>2. D!Clamp(every, MinInterval, MaxInterval) \in MinInterval..MaxInterval
      BY ClampIsWithin DEF D!FlowAssumption
    <3> QED
      BY <3>1, <3>2 DEF D!FlowAssumption
  <2>2. CASE (\E every \in Offers : D!Pending(every)) \/ D!PendingUnchanged
    <3>1. D!Again /\ interval' \in Nat /\ MinInterval <= interval'
      BY <1>2, <2>1, <2>2 DEF D!PendingUnchanged
    <3> QED
      BY <1>1, <3>1, AgainIsPaced
  <2>3. CASE D!Refused \/ D!Ready
    <3>1. at' \in {"refused", "ready"} /\ UNCHANGED <<second, deadline, interval, wakes, asked>>
      BY <2>3 DEF D!Refused, D!Ready
    <3> QED
      BY <1>2, <3>1 DEF FlowInv, Paced, TimedOut
  <2> QED
    BY <2>2, <2>3
<1>5. CountsLosses'
  BY <1>1, <1>2, <1>3, <1>4 DEF CountsLosses
<1> QED
  BY <1>1, <1>3, <1>4, <1>5 DEF FlowInv, FlowTyped, Begun, D!Ends

LEMMA FlowInvariance ==
  ASSUME D!FlowAssumption, FlowInv, D!Next \/ UNCHANGED flowVars
  PROVE  FlowInv'
  BY OthersKeepTheFlow, StartKeepsTheFlow, AskKeepsTheFlow, LostKeepsTheFlow, HeardKeepsTheFlow
  DEF D!Next, D!Answer

\* The losses at the end of what was heard are what the command counted.
LEMMA FlowIsPaced == D!FlowAssumption /\ FlowInv => D!PaceIsKept
<1> SUFFICES ASSUME D!FlowAssumption, FlowInv PROVE D!PaceIsKept
  OBVIOUS
<1> DEFINE k == Len(lost)
<1>1. /\ asked \in Seq(Nat) /\ k \in Nat /\ failures \in Nat /\ MaxFailures \in Nat /\ MinInterval \in Nat
      /\ failures <= k /\ (at = "lost_contact") = (failures > MaxFailures)
      /\ deadline \in Nat /\ second \in Nat
  BY DEF FlowInv, FlowTyped, CountsLosses, D!FlowAssumption
<1>2. \A i \in 1..(Len(asked) - 1) : asked[i + 1] - asked[i] >= MinInterval /\ asked[i] < deadline
  <2> SUFFICES ASSUME NEW i \in 1..(Len(asked) - 1)
               PROVE  asked[i + 1] - asked[i] >= MinInterval /\ asked[i] < deadline
    OBVIOUS
  <2>1. asked[i] \in Nat /\ asked[i + 1] \in Nat
    BY <1>1
  <2>2. asked[i] + MinInterval <= asked[i + 1] /\ asked[i] < deadline
    <3>1. Paced
      BY DEF FlowInv
    <3> QED
      BY <3>1 DEF Paced
  <2>3. \A a, b, least \in Nat : a + least <= b => b - a >= least
    OBVIOUS
  <2> QED
    BY <1>1, <2>1, <2>2, <2>3
<1>3. ASSUME failures > MaxFailures
      PROVE  k > MaxFailures /\ \A i \in (k - MaxFailures)..k : lost[i]
  <2>1. \A i \in (k - MaxFailures)..k : i \in (k - failures + 1)..k
    BY <1>1, <1>3
  <2> QED
    BY <1>1, <1>3, <2>1 DEF FlowInv, CountsLosses
<1>4. ASSUME k > MaxFailures, \A i \in (k - MaxFailures)..k : lost[i]
      PROVE  failures > MaxFailures
  <2> SUFFICES ASSUME ~(failures > MaxFailures) PROVE FALSE
    OBVIOUS
  <2>1. failures < k /\ k - failures \in (k - MaxFailures)..k
    BY <1>1, <1>4
  <2> QED
    BY <1>4, <2>1 DEF FlowInv, CountsLosses
<1>5. at = "timed_out" => second >= deadline
  BY <1>1 DEF FlowInv, TimedOut
<1> QED
  BY <1>1, <1>2, <1>3, <1>4, <1>5 DEF D!PaceIsKept

-------------------------------------------------------------------------------
(* grenz.yaml and the age vault. *)

Texts == F!Text \cup {Torn}
CliSteps == {"load", "seal", "sealing", "open", "write", "rename", "truncate", "in_place"}

\* A command under way, and a mint.
Runs ==
  [cmd : F!Command, base : Texts, keys : SUBSET {OrgKey, OtherKey}, ino : ConfigInodes \cup {None}, at : CliSteps]
MintRuns ==
  [at : {"hash", "checked"}, cmd : {F!Mint(id) : id \in Ids}, base : Texts, found : Texts \cup {None}]

Running(c) == cli[c] \notin {F!Idle, F!Ended}
Minting(m) == mint[m] \notin {F!Idle, F!Ended}

ConfigTyped ==
  /\ config \in ConfigInodes /\ tmp \in ConfigInodes \cup {None} /\ tmp # config
  /\ disk \in [ConfigInodes -> Texts] /\ wanted \in F!Text
  /\ vault \in (SUBSET {OrgKey, OtherKey}) \cup {Torn}
  /\ cli \in [Clis -> Runs \cup {F!Idle, F!Ended}]
  /\ mint \in [Mints -> MintRuns \cup {F!Idle, F!Ended}]
  /\ stale \in BOOLEAN

\* Which command is at which step, and with what.
Fits(run) ==
  /\ run.at \in {"load", "seal", "sealing"} => run.cmd.kind \in {"connect", "device", "vault"}
  /\ run.at \in {"open", "write", "rename", "truncate", "in_place"} => run.cmd.kind # "vault"
  /\ run.at \in {"truncate", "in_place"} => run.cmd.kind = "add"
  /\ run.at \in {"write", "rename", "in_place"} => run.ino \in ConfigInodes
  /\ run.cmd.kind # "vault" => run.base \in F!Text

StepsFit ==
  /\ \A c \in Clis : Running(c) => Fits(cli[c])
  /\ \A m \in Mints : mint[m].at = "checked" => mint[m].base \in F!Text /\ mint[m].found = mint[m].base

Tokens(text) == {a.token : a \in text.agents}

\* A token is in a text only once its process is done with it.
TokensAreNew ==
  /\ \A c \in Clis : cli[c] = F!Idle =>
       /\ \A i \in ConfigInodes : disk[i] # Torn => c \notin Tokens(disk[i])
       /\ \A d \in Clis : Running(d) /\ cli[d].base # Torn => c \notin Tokens(cli[d].base)
       /\ \A m \in Mints : Minting(m) /\ mint[m].base # Torn => c \notin Tokens(mint[m].base)
  /\ \A m \in Mints : mint[m] # F!Ended =>
       /\ \A i \in ConfigInodes : disk[i] # Torn => m \notin Tokens(disk[i])
       /\ \A d \in Clis : Running(d) /\ cli[d].base # Torn => m \notin Tokens(cli[d].base)
       /\ \A n \in Mints : Minting(n) /\ mint[n].base # Torn => m \notin Tokens(mint[n].base)

\* What is whole loads, on the disk and about to be written.
WholeLoads ==
  /\ \A i \in ConfigInodes : disk[i] # Torn => F!Loadable(disk[i])
  /\ \A c \in Clis : Running(c) /\ cli[c].cmd.kind # "vault" =>
       F!Loadable(F!Rewritten(cli[c].cmd, c, cli[c].base))
  /\ \A m \in Mints : Minting(m) /\ mint[m].base # Torn => F!Loadable(mint[m].base)
  /\ \A m \in Mints : mint[m].at = "checked" => F!Loadable(F!Rewritten(mint[m].cmd, m, mint[m].base))

InPlace(c) == cli[c].at = "in_place"
Beside(c) == cli[c].at \in {"write", "rename"}

\* As long as no two commands held one file: who holds the temporary file, who the list itself,
\* and what each of them leaves there.
NeverMixed == "config" \notin mixed /\ "in_place" \notin mixed
OneWriter ==
  NeverMixed =>
    /\ \A c, d \in Clis : Beside(c) /\ Beside(d) => c = d
    /\ \A c \in Clis : Beside(c) => cli[c].ino = tmp
    /\ \A c \in Clis : cli[c].at = "write" => disk[tmp] = Torn
    /\ \A c \in Clis : cli[c].at = "rename" => disk[tmp] = F!Rewritten(cli[c].cmd, c, cli[c].base)
    /\ \A c, d \in Clis : InPlace(c) /\ InPlace(d) => c = d
    /\ \A c \in Clis : InPlace(c) => cli[c].ino # tmp
NothingLost ==
  NeverMixed =>
    /\ \A c \in Clis : InPlace(c) /\ cli[c].ino # config => stale
    /\ \A c \in Clis : InPlace(c) /\ cli[c].ino = config =>
         disk[config] = Torn /\ (stale \/ wanted = F!Rewritten(cli[c].cmd, c, cli[c].base))
    /\ (\A c \in Clis : ~(InPlace(c) /\ cli[c].ino = config)) =>
         disk[config] # Torn /\ (stale \/ disk[config] = wanted)

\* The key is there, or in what the command that is writing the vault will have written.
Sealing(c) == cli[c].at = "sealing"
HasKey == (vault # Torn /\ OrgKey \in vault) \/ \E c \in Clis : Sealing(c) /\ OrgKey \in cli[c].keys
NamesPlane(c) == cli[c].at \in {"open", "write", "rename"} /\ cli[c].cmd.kind \in {"connect", "device"}

KeyPrecedes ==
  "vault" \notin mixed =>
    /\ \A c, d \in Clis : Sealing(c) /\ Sealing(d) => c = d
    /\ vault = Torn <=> \E c \in Clis : Sealing(c)
    /\ \A i \in ConfigInodes : disk[i] # Torn /\ disk[i].plane => HasKey
    /\ \A c \in Clis : Running(c) /\ cli[c].base # Torn /\ cli[c].base.plane => HasKey
    /\ \A m \in Mints : Minting(m) /\ mint[m].base # Torn /\ mint[m].base.plane => HasKey
    /\ \A c \in Clis : NamesPlane(c) => HasKey

ConfigInv ==
  ConfigTyped /\ StepsFit /\ TokensAreNew /\ WholeLoads /\ OneWriter /\ NothingLost /\ KeyPrecedes

\* What a change makes of a text: a text, which names a plane only if the text or the change
\* did, and no token but those of the text and the one the change brings.
LEMMA RewrittenIsText ==
  ASSUME NEW c \in Clis \cup Mints, NEW order \in F!Command \cup {F!Mint(id) : id \in Ids},
         order.kind # "vault", NEW text \in F!Text
  PROVE  /\ F!Rewritten(order, c, text) \in F!Text
         /\ F!Rewritten(order, c, text).plane => text.plane \/ order.kind \in {"connect", "device"}
         /\ Tokens(F!Rewritten(order, c, text)) \subseteq Tokens(text) \cup {c}
<1> DEFINE new_text == F!Rewritten(order, c, text)
<1>1. /\ text.agents \subseteq F!Agent /\ text.ups \in [Ups -> {"absent", "real", "decoy"}]
      /\ text.plane \in BOOLEAN
      /\ text = [agents |-> text.agents, ups |-> text.ups, plane |-> text.plane]
  BY DEF F!Text
<1>2. CASE order.kind = "rotate"
  <2>1. order.name \in Ids
    BY <1>2 DEF F!Command, F!Mint
  <2>2. PICK agents : agents = {IF a.id = order.name THEN [a EXCEPT !.token = c] ELSE a : a \in text.agents}
    OBVIOUS
  <2>3. \A a \in F!Agent : [a EXCEPT !.token = c] \in F!Agent /\ [a EXCEPT !.token = c].token = c
    BY DEF F!Agent
  <2>4. agents \subseteq F!Agent /\ \A a \in agents : a.token = c \/ a.token \in Tokens(text)
    <3> SUFFICES ASSUME NEW b \in agents PROVE b \in F!Agent /\ (b.token = c \/ b.token \in Tokens(text))
      OBVIOUS
    <3>1. PICK a \in text.agents : b = IF a.id = order.name THEN [a EXCEPT !.token = c] ELSE a
      BY <2>2
    <3>2. a \in F!Agent /\ a.token \in Tokens(text)
      BY <1>1 DEF Tokens
    <3> QED
      BY <2>3, <3>1, <3>2
  <2>5. new_text = [text EXCEPT !.agents = agents]
    BY <1>2, <2>2 DEF F!Rewritten
  <2> QED
    BY <1>1, <2>4, <2>5 DEF F!Text, Tokens
<1>3. CASE order.kind \in {"mint", "decoy"}
  <2>1. order.name \in Ids
    BY <1>3 DEF F!Command, F!Mint
  <2>2. PICK a : a = [id |-> order.name, token |-> c, decoy |-> order.kind = "decoy"]
    OBVIOUS
  <2>3. a \in F!Agent /\ a.token = c
    BY <2>1, <2>2 DEF F!Agent
  <2>4. new_text = [text EXCEPT !.agents = text.agents \cup {a}]
    BY <1>3, <2>2 DEF F!Rewritten
  <2> QED
    BY <1>1, <2>3, <2>4 DEF F!Text, Tokens
<1>4. CASE order.kind = "undecoy"
  <2>1. new_text = [text EXCEPT !.agents = text.agents \ F!Named(text, order.name)]
    BY <1>4 DEF F!Rewritten
  <2> QED
    BY <1>1, <2>1 DEF F!Text, Tokens
<1>5. CASE order.kind \in {"decoy_up", "undecoy_up", "add"}
  <2>1. order.name \in Ups
    BY <1>5 DEF F!Command, F!Mint
  <2>2. \E state \in {"absent", "real", "decoy"} : new_text = [text EXCEPT !.ups[order.name] = state]
    BY <1>1, <1>5, <2>1 DEF F!Rewritten
  <2> QED
    BY <1>1, <2>1, <2>2 DEF F!Text, Tokens
<1>6. CASE order.kind \in {"connect", "device"}
  <2>1. new_text = [text EXCEPT !.plane = TRUE]
    BY <1>6 DEF F!Rewritten
  <2> QED
    BY <1>1, <1>6, <2>1 DEF F!Text, Tokens
<1> QED
  BY <1>2, <1>3, <1>4, <1>5, <1>6 DEF F!Command, F!Mint

\* A token nobody has keeps a text loadable, wherever it is put.
LEMMA RotatedLoads ==
  ASSUME NEW c \in Clis, NEW order \in F!Command, order.kind = "rotate",
         NEW text \in F!Text, F!Loadable(text), c \notin Tokens(text), F!Rewritten(order, c, text) # Torn
  PROVE  F!Loadable(F!Rewritten(order, c, text))
<1> DEFINE turned(a) == IF a.id = order.name THEN [a EXCEPT !.token = c] ELSE a
<1>1. text = [agents |-> text.agents, ups |-> text.ups, plane |-> text.plane] /\ text.agents \subseteq F!Agent
  BY DEF F!Text
<1>2. F!Rewritten(order, c, text).agents = {turned(a) : a \in text.agents}
  BY <1>1 DEF F!Rewritten
<1>3. ASSUME NEW a \in text.agents
      PROVE  turned(a).id = a.id /\ turned(a).token = IF a.id = order.name THEN c ELSE a.token
  BY <1>1 DEF F!Agent
<1>4. ASSUME NEW a \in text.agents, NEW b \in text.agents,
             turned(a).id = turned(b).id \/ turned(a).token = turned(b).token
      PROVE  turned(a) = turned(b)
  <2>1. a.token # c /\ b.token # c
    BY DEF Tokens
  <2>2. a.id = b.id \/ a.token = b.token
    BY <1>3, <1>4, <2>1
  <2>3. a = b
    BY <2>2 DEF F!Loadable
  <2> QED
    BY <2>3
<1>5. {turned(a) : a \in text.agents} # {}
  <2>1. PICK a : a \in text.agents
    BY DEF F!Loadable
  <2> HIDE DEF turned
  <2>2. turned(a) \in {turned(x) : x \in text.agents}
    BY <2>1
  <2> QED
    BY <2>2
<1> HIDE DEF turned
<1>6. \A a, b \in {turned(x) : x \in text.agents} : a.id = b.id \/ a.token = b.token => a = b
  BY <1>4
<1>7. PICK new_text : new_text = F!Rewritten(order, c, text)
  OBVIOUS
<1> QED
  BY <1>2, <1>5, <1>6, <1>7 DEF F!Loadable

LEMMA MintedLoads ==
  ASSUME NEW m \in Mints, NEW id \in Ids, NEW text \in F!Text, F!Loadable(text), m \notin Tokens(text),
         ~F!Taken(text, id), F!Rewritten(F!Mint(id), m, text) # Torn
  PROVE  F!Loadable(F!Rewritten(F!Mint(id), m, text))
<1>1. text = [agents |-> text.agents, ups |-> text.ups, plane |-> text.plane]
  BY DEF F!Text
<1>2. PICK a : a = [id |-> id, token |-> m, decoy |-> FALSE]
  OBVIOUS
<1>3. F!Rewritten(F!Mint(id), m, text).agents = text.agents \cup {a}
  BY <1>1, <1>2 DEF F!Rewritten, F!Mint
<1>4. \A b \in text.agents : b.id # id /\ b.token # m
  BY DEF F!Taken, F!Named, Tokens
<1>5. a.id = id /\ a.token = m
  BY <1>2
<1>6. \A x, y \in text.agents \cup {a} : x.id = y.id \/ x.token = y.token => x = y
  BY <1>4, <1>5 DEF F!Loadable
<1> QED
  BY <1>3, <1>6 DEF F!Loadable

LEMMA ConfigStarts == F!ConfigAssumption /\ F!Init => ConfigInv
<1> SUFFICES ASSUME F!ConfigAssumption, F!Init PROVE ConfigInv
  OBVIOUS
<1>1. /\ FirstText \in F!Text /\ F!Loadable(FirstText) /\ ~FirstText.plane
      /\ \A a \in FirstText.agents : a.token = None
      /\ None \notin ConfigInodes /\ None \notin Clis /\ None \notin Mints /\ Torn \notin F!Text
      /\ \A keys \in SUBSET {OrgKey, OtherKey} : keys # Torn
  BY DEF F!ConfigAssumption
<1>2. /\ config \in ConfigInodes /\ tmp = None
      /\ disk = [i \in ConfigInodes |-> IF i = config THEN FirstText ELSE Torn]
      /\ vault = {} /\ wanted = FirstText /\ stale = FALSE /\ mixed = {}
      /\ cli = [c \in Clis |-> F!Idle] /\ mint = [m \in Mints |-> F!Idle]
  BY DEF F!Init
<1>3. /\ \A c \in Clis : ~Running(c) /\ cli[c].at = "idle"
      /\ \A m \in Mints : ~Minting(m) /\ mint[m].at = "idle"
  BY <1>2 DEF Running, Minting, F!Idle
<1>4. FirstText # Torn /\ vault # Torn
  BY <1>1, <1>2
<1>5. ConfigTyped
  BY <1>1, <1>2 DEF ConfigTyped, Texts
<1>6. \A i \in ConfigInodes : disk[i] # Torn => disk[i] = FirstText
  BY <1>2
<1>7. TokensAreNew /\ WholeLoads /\ StepsFit
  BY <1>1, <1>3, <1>6 DEF TokensAreNew, Tokens, WholeLoads, StepsFit
<1>8. OneWriter /\ NothingLost
  BY <1>2, <1>3, <1>4 DEF OneWriter, NothingLost, Beside, InPlace
<1>9. KeyPrecedes
  BY <1>1, <1>3, <1>4, <1>6 DEF KeyPrecedes, Sealing, NamesPlane
<1> QED
  BY <1>5, <1>7, <1>8, <1>9 DEF ConfigInv

LEMMA FreshIsFree ==
  ASSUME ConfigInv
  PROVE  /\ F!Fresh \in ConfigInodes /\ F!Fresh # config /\ F!Fresh # tmp
         /\ \A c \in Clis : Beside(c) \/ InPlace(c) => cli[c].ino # F!Fresh
<1> DEFINE W == F!Writing({"write", "rename", "in_place"})
           held == [c \in Clis |-> IF c \in W THEN cli[c].ino ELSE None]
<1>1. \A c \in W : c \in Clis /\ cli[c].ino \in ConfigInodes
  <2> SUFFICES ASSUME NEW c \in W PROVE c \in Clis /\ cli[c].ino \in ConfigInodes
    OBVIOUS
  <2>1. c \in Clis /\ cli[c].at \in {"write", "rename", "in_place"}
    BY DEF F!Writing
  <2>2. Running(c)
    BY <2>1 DEF Running, F!Idle, F!Ended
  <2> QED
    BY <2>1, <2>2 DEF ConfigInv, StepsFit, Fits
<1>2. held \in [Clis -> ConfigInodes \cup {None}] /\ config \in ConfigInodes /\ tmp \in ConfigInodes \cup {None}
  BY <1>1 DEF ConfigInv, ConfigTyped
<1>3. PICK k \in ConfigInodes : k \notin {config, tmp} \cup {held[c] : c \in Clis}
  BY <1>2, FilesAreSound DEF F!ConfigAssumption
<1>4. {cli[c].ino : c \in W} \subseteq {held[c] : c \in Clis}
  BY <1>1
<1>5. k \notin {config, tmp} \cup {cli[c].ino : c \in W}
  BY <1>3, <1>4
<1>6. F!Fresh \in ConfigInodes /\ F!Fresh \notin {config, tmp} \cup {cli[c].ino : c \in W}
  BY <1>5 DEF F!Fresh
<1>7. \A c \in Clis : Beside(c) \/ InPlace(c) => c \in W
  BY DEF Beside, InPlace, F!Writing
<1> QED
  BY <1>6, <1>7

LEMMA RunningIsKnown ==
  ASSUME ConfigInv, NEW c \in Clis, cli[c].at \notin {"idle", "ended"}
  PROVE  Running(c) /\ cli[c] \in Runs /\ Fits(cli[c])
<1>1. Running(c)
  BY DEF Running, F!Idle, F!Ended
<1> QED
  BY <1>1 DEF ConfigInv, ConfigTyped, StepsFit, Running

\* What a command that goes on, or ends, has written is Torn or the text that was found to
\* load when it began; what it holds stays what it was.
Goes(c, run) ==
  \/ run = F!Ended
  \/ run \in Runs /\ Fits(run) /\ run.cmd = cli[c].cmd /\ run.base = cli[c].base

Writes(c) ==
  \A i \in ConfigInodes :
    \/ disk'[i] = disk[i]
    \/ disk'[i] = Torn
    \/ /\ cli[c].at \in {"write", "in_place"}
       /\ disk'[i] = F!Rewritten(cli[c].cmd, c, cli[c].base)

LEMMA TextsStayWhole ==
  ASSUME ConfigInv, NEW c \in Clis, Running(c), NEW run, Goes(c, run), cli' = [cli EXCEPT ![c] = run],
         UNCHANGED mint, disk' \in [ConfigInodes -> Texts], Writes(c),
         config' \in ConfigInodes, tmp' \in ConfigInodes \cup {None}, tmp' # config',
         wanted' \in F!Text, vault' \in (SUBSET {OrgKey, OtherKey}) \cup {Torn}, stale' \in BOOLEAN
  PROVE  ConfigTyped' /\ StepsFit' /\ TokensAreNew' /\ WholeLoads'
<1>1. cli \in [Clis -> Runs \cup {F!Idle, F!Ended}] /\ cli[c] \in Runs /\ Fits(cli[c])
  BY DEF ConfigInv, ConfigTyped, StepsFit, Running
<1>2. ConfigTyped'
  BY <1>1 DEF Goes, ConfigInv, ConfigTyped
<1>3. /\ \A d \in Clis : d # c => cli'[d] = cli[d]
      /\ cli'[c] = run
  BY <1>1
<1>4. /\ \A d \in Clis : Running(d)' => Running(d) /\ cli'[d].base = cli[d].base /\ cli'[d].cmd = cli[d].cmd
      /\ \A d \in Clis : cli'[d] = F!Idle => cli[d] = F!Idle /\ d # c
      /\ \A m \in Mints : Minting(m)' = Minting(m)
  BY <1>3 DEF Goes, Running, Minting, Runs, F!Idle, F!Ended, CliSteps
<1>5. StepsFit'
  BY <1>3 DEF Goes, Running, ConfigInv, StepsFit
<1>6. cli[c].at \in {"write", "in_place"} =>
        /\ cli[c].cmd \in F!Command /\ cli[c].cmd.kind # "vault" /\ cli[c].base \in F!Text
        /\ cli[c].base # Torn
  BY <1>1, FilesAreSound DEF Runs, Fits, F!ConfigAssumption
<1>7. \A i \in ConfigInodes : disk'[i] # Torn =>
        \/ disk[i] # Torn /\ disk'[i] = disk[i]
        \/ /\ cli[c].base # Torn /\ cli[c].cmd.kind # "vault"
           /\ disk'[i] = F!Rewritten(cli[c].cmd, c, cli[c].base)
           /\ Tokens(disk'[i]) \subseteq Tokens(cli[c].base) \cup {c}
  BY <1>6, RewrittenIsText DEF Writes
<1>8. WholeLoads'
  <2>1. \A i \in ConfigInodes : disk'[i] # Torn => F!Loadable(disk'[i])
    BY <1>7 DEF ConfigInv, WholeLoads
  <2>2. \A d \in Clis : Running(d)' /\ cli'[d].cmd.kind # "vault" =>
          F!Loadable(F!Rewritten(cli'[d].cmd, d, cli'[d].base))
    BY <1>4 DEF ConfigInv, WholeLoads
  <2> QED
    BY <1>4, <2>1, <2>2 DEF ConfigInv, WholeLoads, F!Loadable
<1>9. TokensAreNew'
  <2>1. ASSUME NEW x \in Clis \cup Mints, x # c,
               \A i \in ConfigInodes : disk[i] # Torn => x \notin Tokens(disk[i]),
               cli[c].base # Torn => x \notin Tokens(cli[c].base)
        PROVE  \A i \in ConfigInodes : disk'[i] # Torn => x \notin Tokens(disk'[i])
    BY <1>7, <2>1
  <2>2. ASSUME NEW d \in Clis, cli'[d] = F!Idle
        PROVE  /\ \A i \in ConfigInodes : disk'[i] # Torn => d \notin Tokens(disk'[i])
               /\ \A e \in Clis : Running(e)' /\ cli'[e].base # Torn => d \notin Tokens(cli'[e].base)
               /\ \A m \in Mints : Minting(m)' /\ mint'[m].base # Torn => d \notin Tokens(mint'[m].base)
    <3>1. cli[d] = F!Idle /\ d # c
      BY <1>4, <2>2
    <3> QED
      BY <1>4, <2>1, <3>1 DEF ConfigInv, TokensAreNew
  <2>3. ASSUME NEW m \in Mints, mint'[m] # F!Ended
        PROVE  /\ \A i \in ConfigInodes : disk'[i] # Torn => m \notin Tokens(disk'[i])
               /\ \A e \in Clis : Running(e)' /\ cli'[e].base # Torn => m \notin Tokens(cli'[e].base)
               /\ \A n \in Mints : Minting(n)' /\ mint'[n].base # Torn => m \notin Tokens(mint'[n].base)
    <3>1. m # c
      BY FilesAreSound DEF F!ConfigAssumption
    <3> QED
      BY <1>4, <2>1, <2>3, <3>1 DEF ConfigInv, TokensAreNew
  <2> QED
    BY <2>2, <2>3 DEF TokensAreNew, Tokens
<1> QED
  BY <1>2, <1>5, <1>8, <1>9

\* Steps that leave the two files and their writers alone.
LEMMA FilesStayApart ==
  ASSUME ConfigInv, UNCHANGED <<config, tmp, disk, wanted, stale>>, mixed \subseteq mixed',
         NeverMixed' =>
           /\ \A d \in Clis : Beside(d)' => cli'[d] = cli[d]
           /\ \A d \in Clis : InPlace(d)' \/ InPlace(d) => cli'[d] = cli[d]
  PROVE  OneWriter' /\ NothingLost'
<1> SUFFICES ASSUME NeverMixed' PROVE OneWriter' /\ NothingLost'
  BY DEF OneWriter, NothingLost
<1>1. NeverMixed
  BY DEF NeverMixed
<1>2. \A d \in Clis : (InPlace(d)' <=> InPlace(d)) /\ (InPlace(d) => cli'[d] = cli[d])
  BY DEF InPlace
<1>3. \A d \in Clis : Beside(d)' => Beside(d) /\ cli'[d] = cli[d]
  BY DEF Beside
<1>4. \A d \in Clis : cli'[d].at \in {"write", "rename"} => cli'[d] = cli[d]
  BY DEF Beside
<1>5. OneWriter'
  BY <1>1, <1>2, <1>3, <1>4 DEF ConfigInv, OneWriter
<1>6. NothingLost'
  BY <1>1, <1>2 DEF ConfigInv, NothingLost
<1> QED
  BY <1>5, <1>6

\* Steps that leave the vault and its writers alone.
LEMMA VaultStaysPut ==
  ASSUME ConfigInv, UNCHANGED vault, \A d \in Clis : Sealing(d)' \/ Sealing(d) => cli'[d] = cli[d]
  PROVE  /\ HasKey' = HasKey
         /\ \A d \in Clis : Sealing(d)' <=> Sealing(d)
<1>1. \A d \in Clis : (Sealing(d)' <=> Sealing(d)) /\ (Sealing(d) => cli'[d] = cli[d])
  BY DEF Sealing
<1> QED
  BY <1>1 DEF HasKey

LEMMA KeyStaysFirst ==
  ASSUME ConfigInv, NEW c \in Clis, Running(c), NEW run, Goes(c, run), cli' = [cli EXCEPT ![c] = run],
         UNCHANGED mint, Writes(c), mixed \subseteq mixed',
         "vault" \notin mixed' =>
           /\ \A d, e \in Clis : Sealing(d)' /\ Sealing(e)' => d = e
           /\ vault' = Torn <=> \E d \in Clis : Sealing(d)'
           /\ HasKey => HasKey'
           /\ NamesPlane(c)' => HasKey'
  PROVE  KeyPrecedes'
<1> SUFFICES ASSUME "vault" \notin mixed' PROVE KeyPrecedes'
  BY DEF KeyPrecedes
<1>1. "vault" \notin mixed
  OBVIOUS
<1>2. cli \in [Clis -> Runs \cup {F!Idle, F!Ended}] /\ cli[c] \in Runs /\ Fits(cli[c])
  BY DEF ConfigInv, ConfigTyped, StepsFit, Running
<1>3. /\ \A d \in Clis : d # c => cli'[d] = cli[d]
      /\ cli'[c] = run
  BY <1>2
<1>4. \A d \in Clis : Running(d)' => Running(d) /\ cli'[d].base = cli[d].base
  BY <1>3 DEF Goes, Running
<1>5. \A d \in Clis : Running(d)' /\ cli'[d].base # Torn /\ cli'[d].base.plane => HasKey'
  BY <1>1, <1>4 DEF ConfigInv, KeyPrecedes
<1>6. ASSUME NEW i \in ConfigInodes, disk'[i] # Torn, disk'[i].plane
      PROVE  HasKey'
  <2>1. CASE disk'[i] = disk[i]
    BY <1>1, <1>6, <2>1 DEF ConfigInv, KeyPrecedes
  <2>2. CASE cli[c].at \in {"write", "in_place"} /\ disk'[i] = F!Rewritten(cli[c].cmd, c, cli[c].base)
    <3>1. /\ cli[c].cmd \in F!Command /\ cli[c].cmd.kind # "vault" /\ cli[c].base \in F!Text
          /\ cli[c].base # Torn
      BY <1>2, <2>2, FilesAreSound DEF Runs, Fits, F!ConfigAssumption
    <3>2. cli[c].base.plane \/ cli[c].cmd.kind \in {"connect", "device"}
      BY <1>6, <2>2, <3>1, RewrittenIsText
    <3>3. CASE cli[c].base.plane
      BY <1>1, <3>1, <3>3 DEF ConfigInv, KeyPrecedes
    <3>4. CASE cli[c].cmd.kind \in {"connect", "device"}
      <4>1. cli[c].at = "write"
        BY <1>2, <2>2, <3>4 DEF Fits
      <4> QED
        BY <1>1, <3>4, <4>1 DEF ConfigInv, KeyPrecedes, NamesPlane
    <3> QED
      BY <3>2, <3>3, <3>4
  <2> QED
    BY <1>6, <2>1, <2>2 DEF Writes
<1>7. \A m \in Mints : Minting(m)' /\ mint'[m].base # Torn /\ mint'[m].base.plane => HasKey'
  BY <1>1 DEF ConfigInv, KeyPrecedes, Minting
<1>8. \A d \in Clis : NamesPlane(d)' => HasKey'
  BY <1>1, <1>3 DEF ConfigInv, KeyPrecedes, NamesPlane
<1> QED
  BY <1>5, <1>6, <1>7, <1>8 DEF KeyPrecedes

\* A command begins with the text it finds, which its change keeps loadable.
LEMMA BeginKeeps ==
  ASSUME ConfigInv, NEW c \in Clis, F!Begin(c)
  PROVE  ConfigInv'
<1>1. cli[c] = F!Idle /\ UNCHANGED <<config, tmp, disk, vault, mint, wanted, stale, mixed>>
  BY DEF F!Begin
<1>2. PICK order \in F!Command : \E run :
        /\ order.kind # "vault" => F!Accepts(order, disk[config]) /\ F!Validated(order, c, disk[config])
        /\ run = [cmd |-> order, base |-> disk[config], keys |-> {}, ino |-> None,
                  at |-> CASE order.kind \in {"connect", "device", "vault"} -> "load"
                           [] order.kind = "add" -> "truncate"
                           [] OTHER -> "open"]
        /\ cli' = [cli EXCEPT ![c] = run]
  BY DEF F!Begin
<1> PICK run :
      /\ run = [cmd |-> order, base |-> disk[config], keys |-> {}, ino |-> None,
                at |-> CASE order.kind \in {"connect", "device", "vault"} -> "load"
                         [] order.kind = "add" -> "truncate"
                         [] OTHER -> "open"]
      /\ cli' = [cli EXCEPT ![c] = run]
  BY <1>2
<1>3. /\ run.cmd = order /\ run.base = disk[config] /\ run.keys = {} /\ run.ino = None
      /\ run.at = CASE order.kind \in {"connect", "device", "vault"} -> "load"
                    [] order.kind = "add" -> "truncate"
                    [] OTHER -> "open"
      /\ run = [cmd |-> order, base |-> disk[config], keys |-> {}, ino |-> None, at |-> run.at]
  OBVIOUS
<1>4. /\ run.at \in {"load", "truncate", "open"}
      /\ run.at = "load" => order.kind \in {"connect", "device", "vault"}
      /\ run.at = "truncate" => order.kind = "add"
      /\ run.at = "open" => order.kind \notin {"connect", "device", "vault"}
  BY <1>3
<1>5. run.cmd = order /\ run.base = disk[config]
  BY <1>3
<1>6. config \in ConfigInodes /\ disk[config] \in Texts
  BY DEF ConfigInv, ConfigTyped
<1>7. order.kind # "vault" => disk[config] \in F!Text /\ disk[config] # Torn
  BY <1>2, <1>6 DEF F!Accepts, Texts
<1>8. run \in Runs /\ Fits(run)
  <2>1. run \in Runs
    BY <1>3, <1>4, <1>6 DEF Runs, CliSteps
  <2>2. Fits(run)
    BY <1>4, <1>5, <1>7 DEF Fits
  <2> QED
    BY <2>1, <2>2
<1>9. cli \in [Clis -> Runs \cup {F!Idle, F!Ended}] /\ cli'[c] = run /\ \A d \in Clis : d # c => cli'[d] = cli[d]
  BY <1>2 DEF ConfigInv, ConfigTyped
<1>10. run # F!Idle /\ cli'[c] # F!Idle
  BY <1>4, <1>9 DEF F!Idle
<1>11. ConfigTyped'
  BY <1>1, <1>2, <1>8, <1>9 DEF ConfigInv, ConfigTyped
<1>12. StepsFit'
  BY <1>1, <1>8, <1>9 DEF ConfigInv, StepsFit, Running
<1>13. TokensAreNew'
  <2>1. \A d \in Clis : Running(d)' => cli'[d].base = disk[config] \/ (Running(d) /\ cli'[d].base = cli[d].base)
    BY <1>5, <1>9 DEF Running
  <2>2. \A d \in Clis : cli'[d] = F!Idle => cli[d] = F!Idle
    BY <1>9, <1>10
  <2> QED
    BY <1>1, <1>6, <2>1, <2>2 DEF ConfigInv, TokensAreNew, Minting, Tokens
<1>14. WholeLoads'
  <2>1. ASSUME order.kind # "vault"
        PROVE  F!Loadable(F!Rewritten(order, c, disk[config]))
    <3>1. CASE order.kind # "rotate"
      BY <1>2, <2>1, <3>1 DEF F!Validated
    <3>2. CASE order.kind = "rotate"
      <4>1. F!Loadable(disk[config])
        BY <1>2, <2>1, <3>2 DEF F!Validated
      <4>2. c \notin Tokens(disk[config])
        BY <1>1, <1>6, <1>7, <2>1 DEF ConfigInv, TokensAreNew
      <4>3. F!Rewritten(order, c, disk[config]) # Torn
        BY <1>7, <2>1, RewrittenIsText, FilesAreSound DEF F!ConfigAssumption
      <4> QED
        BY <1>7, <2>1, <3>2, <4>1, <4>2, <4>3, RotatedLoads
    <3> QED
      BY <3>1, <3>2
  <2>2. \A d \in Clis : Running(d)' /\ cli'[d].cmd.kind # "vault" =>
          F!Loadable(F!Rewritten(cli'[d].cmd, d, cli'[d].base))
    BY <1>5, <1>9, <2>1 DEF ConfigInv, WholeLoads, Running
  <2> QED
    BY <1>1, <2>2 DEF ConfigInv, WholeLoads, Minting, F!Loadable
<1>15. \A d \in Clis : /\ Beside(d)' \/ InPlace(d)' \/ InPlace(d) => cli'[d] = cli[d]
                       /\ Sealing(d)' \/ Sealing(d) => cli'[d] = cli[d]
  BY <1>1, <1>4, <1>9 DEF Beside, InPlace, Sealing, F!Idle
<1>16. OneWriter' /\ NothingLost'
  BY <1>1, <1>15, FilesStayApart
<1>17. KeyPrecedes'
  <2>1. HasKey' = HasKey /\ \A d \in Clis : Sealing(d)' <=> Sealing(d)
    BY <1>1, <1>15, VaultStaysPut
  <2>2. \A d \in Clis : Running(d)' => cli'[d].base = disk[config] \/ (Running(d) /\ cli'[d].base = cli[d].base)
    BY <1>5, <1>9 DEF Running
  <2>3. \A d \in Clis : NamesPlane(d)' => NamesPlane(d)
    BY <1>4, <1>5, <1>9 DEF NamesPlane
  <2> QED
    BY <1>1, <1>6, <2>1, <2>2, <2>3 DEF ConfigInv, KeyPrecedes, Minting
<1> QED
  BY <1>11, <1>12, <1>13, <1>14, <1>16, <1>17 DEF ConfigInv

LEMMA LoadKeeps ==
  ASSUME ConfigInv, NEW c \in Clis, F!Load(c)
  PROVE  ConfigInv'
<1>1. cli[c].at = "load" /\ UNCHANGED <<config, tmp, disk, vault, mint, wanted, stale, mixed>>
  BY DEF F!Load
<1>2. Running(c) /\ cli[c] \in Runs /\ Fits(cli[c]) /\ cli[c].cmd.kind \in {"connect", "device", "vault"}
  BY <1>1, RunningIsKnown DEF Fits
<1>3. PICK next \in {"open", "seal"} :
        /\ next = IF cli[c].cmd.kind = "connect" /\ OrgKey \in vault THEN "open" ELSE "seal"
        /\ cli' = [cli EXCEPT ![c] = IF vault = Torn THEN F!Ended ELSE [cli[c] EXCEPT !.keys = vault, !.at = next]]
  BY DEF F!Load
<1>4. PICK run : run = IF vault = Torn THEN F!Ended ELSE [cli[c] EXCEPT !.keys = vault, !.at = next]
  OBVIOUS
<1>5. vault # Torn =>
        /\ run \in Runs /\ run.cmd = cli[c].cmd /\ run.base = cli[c].base /\ run.ino = cli[c].ino
        /\ run.at = next
  BY <1>2, <1>3, <1>4 DEF Runs, CliSteps, ConfigInv, ConfigTyped
<1>6. Goes(c, run)
  <2>1. next = "open" => cli[c].cmd.kind = "connect"
    BY <1>3
  <2> QED
    BY <1>2, <1>4, <1>5, <2>1 DEF Goes, Fits
<1>7. cli' = [cli EXCEPT ![c] = run]
  BY <1>3, <1>4
<1>8. cli'[c] = run /\ (\A d \in Clis : d # c => cli'[d] = cli[d])
  BY <1>7 DEF ConfigInv, ConfigTyped
<1>9. Writes(c)
  BY <1>1 DEF Writes
<1>10. ConfigTyped' /\ StepsFit' /\ TokensAreNew' /\ WholeLoads'
  <2>1. /\ config' \in ConfigInodes /\ tmp' \in ConfigInodes \cup {None} /\ tmp' # config'
        /\ disk' \in [ConfigInodes -> Texts] /\ wanted' \in F!Text
        /\ vault' \in (SUBSET {OrgKey, OtherKey}) \cup {Torn} /\ stale' \in BOOLEAN
    BY <1>1 DEF ConfigInv, ConfigTyped
  <2> QED
    BY <1>1, <1>2, <1>6, <1>7, <1>9, <2>1, TextsStayWhole
<1>11. run.at \in {"open", "seal", "ended"}
  BY <1>4, <1>5 DEF F!Ended
<1>12. \A d \in Clis : /\ Beside(d)' \/ InPlace(d)' \/ InPlace(d) => cli'[d] = cli[d]
                       /\ Sealing(d)' \/ Sealing(d) => cli'[d] = cli[d]
  BY <1>1, <1>8, <1>11 DEF Beside, InPlace, Sealing
<1>13. OneWriter' /\ NothingLost'
  BY <1>1, <1>12, FilesStayApart
<1>14. HasKey' = HasKey /\ \A d \in Clis : Sealing(d)' <=> Sealing(d)
  BY <1>1, <1>12, VaultStaysPut
<1>15. NamesPlane(c)' => HasKey
  <2>1. NamesPlane(c)' => vault # Torn /\ next = "open"
    BY <1>4, <1>5, <1>8 DEF NamesPlane, F!Ended
  <2> QED
    BY <1>3, <2>1 DEF HasKey
<1>16. KeyPrecedes'
  <2>1. "vault" \notin mixed' =>
           /\ \A d, e \in Clis : Sealing(d)' /\ Sealing(e)' => d = e
           /\ vault' = Torn <=> \E d \in Clis : Sealing(d)'
           /\ HasKey => HasKey'
           /\ NamesPlane(c)' => HasKey'
    BY <1>1, <1>14, <1>15 DEF ConfigInv, KeyPrecedes
  <2> QED
    BY <1>1, <1>2, <1>6, <1>7, <1>9, <2>1, KeyStaysFirst
<1> QED
  BY <1>10, <1>13, <1>16 DEF ConfigInv

\* The vault is truncated with what it held in one command's hands.
LEMMA SealKeeps ==
  ASSUME ConfigInv, NEW c \in Clis, F!Seal(c)
  PROVE  ConfigInv'
<1>1. /\ cli[c].at = "seal" /\ vault' = Torn /\ UNCHANGED <<config, tmp, disk, mint, wanted, stale>>
      /\ mixed' = IF vault = cli[c].keys THEN mixed ELSE mixed \cup {"vault"}
      /\ cli' = [cli EXCEPT ![c].at = "sealing"]
  BY DEF F!Seal, F!Goto
<1>2. Running(c) /\ cli[c] \in Runs /\ Fits(cli[c])
  BY <1>1, RunningIsKnown
<1>3. PICK run : run = [cli[c] EXCEPT !.at = "sealing"]
  OBVIOUS
<1>4. /\ run \in Runs /\ run.cmd = cli[c].cmd /\ run.base = cli[c].base /\ run.ino = cli[c].ino
      /\ run.at = "sealing" /\ run.keys = cli[c].keys /\ cli[c].keys \subseteq {OrgKey, OtherKey}
  BY <1>2, <1>3 DEF Runs, CliSteps
<1>5. Goes(c, run)
  BY <1>1, <1>2, <1>4 DEF Goes, Fits
<1>6. cli' = [cli EXCEPT ![c] = run]
  BY <1>1, <1>3
<1>7. cli'[c] = run /\ (\A d \in Clis : d # c => cli'[d] = cli[d])
  BY <1>6 DEF ConfigInv, ConfigTyped
<1>8. Writes(c) /\ mixed \subseteq mixed'
  BY <1>1 DEF Writes
<1>9. ConfigTyped' /\ StepsFit' /\ TokensAreNew' /\ WholeLoads'
  <2>1. /\ config' \in ConfigInodes /\ tmp' \in ConfigInodes \cup {None} /\ tmp' # config'
        /\ disk' \in [ConfigInodes -> Texts] /\ wanted' \in F!Text
        /\ vault' \in (SUBSET {OrgKey, OtherKey}) \cup {Torn} /\ stale' \in BOOLEAN
    BY <1>1 DEF ConfigInv, ConfigTyped
  <2> QED
    BY <1>1, <1>2, <1>5, <1>6, <1>8, <2>1, TextsStayWhole
<1>10. \A d \in Clis : Beside(d)' \/ InPlace(d)' \/ InPlace(d) => cli'[d] = cli[d]
  BY <1>1, <1>4, <1>7 DEF Beside, InPlace
<1>11. OneWriter' /\ NothingLost'
  BY <1>1, <1>8, <1>10, FilesStayApart
<1>12. ASSUME "vault" \notin mixed'
       PROVE  /\ \A d, e \in Clis : Sealing(d)' /\ Sealing(e)' => d = e
              /\ vault' = Torn <=> \E d \in Clis : Sealing(d)'
              /\ HasKey => HasKey'
              /\ NamesPlane(c)' => HasKey'
  <2>1. "vault" \notin mixed /\ vault = cli[c].keys
    BY <1>1, <1>12
  <2>2. vault # Torn
    BY <1>4, <2>1, FilesAreSound DEF F!ConfigAssumption
  <2>3. \A d \in Clis : ~Sealing(d)
    BY <2>1, <2>2 DEF ConfigInv, KeyPrecedes
  <2>4. \A d \in Clis : Sealing(d)' <=> d = c
    BY <1>4, <1>7, <2>3 DEF Sealing
  <2>5. HasKey => OrgKey \in cli'[c].keys
    BY <1>4, <1>7, <2>1, <2>3 DEF HasKey
  <2>6. HasKey => HasKey'
    BY <2>4, <2>5 DEF HasKey
  <2>7. ~NamesPlane(c)'
    BY <1>4, <1>7 DEF NamesPlane
  <2> QED
    BY <1>1, <2>4, <2>6, <2>7
<1>13. KeyPrecedes'
  BY <1>1, <1>2, <1>5, <1>6, <1>8, <1>12, KeyStaysFirst
<1> QED
  BY <1>9, <1>11, <1>13 DEF ConfigInv

\* With the key the vault is whole again, and only then is the file that names it written.
LEMMA SealedKeeps ==
  ASSUME ConfigInv, NEW c \in Clis, F!Sealed(c)
  PROVE  ConfigInv'
<1> DEFINE added == IF cli[c].cmd.kind = "vault" THEN OtherKey ELSE OrgKey
<1>1. /\ cli[c].at = "sealing" /\ UNCHANGED <<config, tmp, disk, mint, wanted, stale, mixed>>
      /\ vault' \in {cli[c].keys \cup {added}, Torn}
      /\ vault = Torn => vault' # Torn
      /\ IF cli[c].cmd.kind = "vault" THEN cli' = [cli EXCEPT ![c] = F!Ended]
                                      ELSE cli' = [cli EXCEPT ![c].at = "open"]
  BY DEF F!Sealed, F!End, F!Goto
<1>2. Running(c) /\ cli[c] \in Runs /\ Fits(cli[c])
  BY <1>1, RunningIsKnown
<1>3. PICK run : run = IF cli[c].cmd.kind = "vault" THEN F!Ended ELSE [cli[c] EXCEPT !.at = "open"]
  OBVIOUS
<1>4. cli[c].cmd.kind # "vault" =>
        /\ run \in Runs /\ run.cmd = cli[c].cmd /\ run.base = cli[c].base /\ run.ino = cli[c].ino
        /\ run.at = "open"
  BY <1>2, <1>3 DEF Runs, CliSteps
<1>5. Goes(c, run)
  BY <1>1, <1>2, <1>3, <1>4 DEF Goes, Fits
<1>6. cli' = [cli EXCEPT ![c] = run]
  BY <1>1, <1>3
<1>7. cli'[c] = run /\ (\A d \in Clis : d # c => cli'[d] = cli[d])
  BY <1>6 DEF ConfigInv, ConfigTyped
<1>8. Writes(c)
  BY <1>1 DEF Writes
<1>9. cli[c].keys \cup {added} \subseteq {OrgKey, OtherKey} /\ cli[c].keys \cup {added} # Torn
  <2>1. cli[c].keys \cup {added} \subseteq {OrgKey, OtherKey}
    BY <1>2 DEF Runs
  <2> QED
    BY <2>1, FilesAreSound DEF F!ConfigAssumption
<1> HIDE DEF added
<1>10. ConfigTyped' /\ StepsFit' /\ TokensAreNew' /\ WholeLoads'
  <2>1. /\ config' \in ConfigInodes /\ tmp' \in ConfigInodes \cup {None} /\ tmp' # config'
        /\ disk' \in [ConfigInodes -> Texts] /\ wanted' \in F!Text
        /\ vault' \in (SUBSET {OrgKey, OtherKey}) \cup {Torn} /\ stale' \in BOOLEAN
    BY <1>1, <1>9 DEF ConfigInv, ConfigTyped
  <2> QED
    BY <1>1, <1>2, <1>5, <1>6, <1>8, <2>1, TextsStayWhole
<1>11. run.at \in {"open", "ended"}
  BY <1>3, <1>4 DEF F!Ended
<1>12. \A d \in Clis : Beside(d)' \/ InPlace(d)' \/ InPlace(d) => cli'[d] = cli[d]
  BY <1>1, <1>7, <1>11 DEF Beside, InPlace
<1>13. OneWriter' /\ NothingLost'
  BY <1>1, <1>12, FilesStayApart
<1>14. ASSUME "vault" \notin mixed'
       PROVE  /\ \A d, e \in Clis : Sealing(d)' /\ Sealing(e)' => d = e
              /\ vault' = Torn <=> \E d \in Clis : Sealing(d)'
              /\ HasKey => HasKey'
              /\ NamesPlane(c)' => HasKey'
  <2>1. Sealing(c) /\ vault = Torn /\ \A d \in Clis : Sealing(d) => d = c
    BY <1>1, <1>14 DEF ConfigInv, KeyPrecedes, Sealing
  <2>2. vault' = cli[c].keys \cup {added} /\ vault' # Torn
    BY <1>1, <1>9, <2>1
  <2>3. \A d \in Clis : ~Sealing(d)'
    BY <1>7, <1>11, <2>1 DEF Sealing
  <2>4. HasKey => OrgKey \in vault'
    BY <2>1, <2>2 DEF HasKey
  <2>5. NamesPlane(c)' => OrgKey \in vault'
    BY <1>3, <1>7, <2>2 DEF NamesPlane, F!Ended, added
  <2> QED
    BY <2>2, <2>3, <2>4, <2>5 DEF HasKey
<1>15. KeyPrecedes'
  BY <1>1, <1>2, <1>5, <1>6, <1>8, <1>14, KeyStaysFirst
<1> QED
  BY <1>10, <1>13, <1>15 DEF ConfigInv

\* A step of a command that goes nowhere near the vault.
LEMMA AwayFromTheVault ==
  ASSUME ConfigInv, NEW c \in Clis, Running(c), NEW run, Goes(c, run), cli' = [cli EXCEPT ![c] = run],
         UNCHANGED <<vault, mint>>, Writes(c), mixed \subseteq mixed',
         ~Sealing(c), run.at # "sealing",
         run.at \in {"open", "write", "rename"} => cli[c].at \in {"open", "write", "rename"}
  PROVE  KeyPrecedes'
<1>1. cli'[c] = run /\ (\A d \in Clis : d # c => cli'[d] = cli[d])
  BY DEF ConfigInv, ConfigTyped
<1>2. \A d \in Clis : Sealing(d)' \/ Sealing(d) => cli'[d] = cli[d]
  BY <1>1 DEF Sealing
<1>3. HasKey' = HasKey /\ \A d \in Clis : Sealing(d)' <=> Sealing(d)
  BY <1>2, VaultStaysPut
<1>4. NamesPlane(c)' => NamesPlane(c)
  BY <1>1 DEF Goes, NamesPlane, F!Ended
<1>5. "vault" \notin mixed' =>
        /\ \A d, e \in Clis : Sealing(d)' /\ Sealing(e)' => d = e
        /\ vault' = Torn <=> \E d \in Clis : Sealing(d)'
        /\ HasKey => HasKey'
        /\ NamesPlane(c)' => HasKey'
  BY <1>3, <1>4 DEF ConfigInv, KeyPrecedes
<1> QED
  BY <1>5, KeyStaysFirst

LEMMA OpenFileKeeps ==
  ASSUME ConfigInv, NEW c \in Clis, F!Open(c)
  PROVE  ConfigInv'
<1> DEFINE i == IF tmp = None THEN F!Fresh ELSE tmp
<1>1. /\ cli[c].at = "open" /\ disk' = [disk EXCEPT ![i] = Torn] /\ tmp' = i
      /\ cli' = [cli EXCEPT ![c].at = "write", ![c].ino = i]
      /\ mixed' = IF F!Writing({"write", "rename"}) = {} THEN mixed ELSE mixed \cup {"config"}
      /\ UNCHANGED <<config, vault, mint, wanted, stale>>
  BY DEF F!Open
<1>2. i \in ConfigInodes /\ i # config
  BY FreshIsFree DEF ConfigInv, ConfigTyped
<1>3. NeverMixed => \A d \in Clis : InPlace(d) => cli[d].ino # i
  BY FreshIsFree DEF ConfigInv, OneWriter
<1> HIDE DEF i
<1>4. Running(c) /\ cli[c] \in Runs /\ Fits(cli[c])
  BY <1>1, RunningIsKnown
<1>5. PICK run : run = [cli[c] EXCEPT !.at = "write", !.ino = i]
  OBVIOUS
<1>6. /\ run \in Runs /\ run.cmd = cli[c].cmd /\ run.base = cli[c].base /\ run.ino = i /\ run.at = "write"
  BY <1>2, <1>4, <1>5 DEF Runs, CliSteps
<1>7. Goes(c, run)
  BY <1>1, <1>2, <1>4, <1>6 DEF Goes, Fits
<1>8. cli' = [cli EXCEPT ![c] = run]
  BY <1>1, <1>5
<1>9. cli'[c] = run /\ (\A d \in Clis : d # c => cli'[d] = cli[d])
  BY <1>8 DEF ConfigInv, ConfigTyped
<1>10. disk \in [ConfigInodes -> Texts] /\ disk'[i] = Torn /\ \A j \in ConfigInodes : j # i => disk'[j] = disk[j]
  BY <1>1, <1>2 DEF ConfigInv, ConfigTyped
<1>11. Writes(c) /\ mixed \subseteq mixed'
  BY <1>1, <1>10 DEF Writes
<1>12. ConfigTyped' /\ StepsFit' /\ TokensAreNew' /\ WholeLoads'
  <2>1. /\ config' \in ConfigInodes /\ tmp' \in ConfigInodes \cup {None} /\ tmp' # config'
        /\ disk' \in [ConfigInodes -> Texts] /\ wanted' \in F!Text
        /\ vault' \in (SUBSET {OrgKey, OtherKey}) \cup {Torn} /\ stale' \in BOOLEAN
    BY <1>1, <1>2 DEF ConfigInv, ConfigTyped, Texts
  <2> QED
    BY <1>1, <1>4, <1>7, <1>8, <1>11, <2>1, TextsStayWhole
<1>13. \A d \in Clis : (InPlace(d)' <=> InPlace(d)) /\ (InPlace(d) => cli'[d] = cli[d])
  BY <1>1, <1>6, <1>9 DEF InPlace
<1>14. ASSUME NeverMixed'
       PROVE  NeverMixed /\ \A d \in Clis : ~Beside(d) /\ (Beside(d)' => d = c)
  <2>1. NeverMixed /\ F!Writing({"write", "rename"}) = {}
    BY <1>1, <1>14 DEF NeverMixed
  <2>2. \A d \in Clis : ~Beside(d)
    BY <2>1 DEF F!Writing, Beside
  <2> QED
    BY <1>9, <2>1, <2>2 DEF Beside
<1>15. OneWriter'
  <2> SUFFICES ASSUME NeverMixed' PROVE OneWriter'
    BY DEF OneWriter
  <2>1. \A d \in Clis : cli'[d].at \in {"write", "rename"} => d = c
    BY <1>14 DEF Beside
  <2> QED
    BY <1>1, <1>3, <1>6, <1>9, <1>10, <1>13, <1>14, <2>1 DEF ConfigInv, OneWriter
<1>16. NothingLost'
  <2>1. disk'[config] = disk[config]
    BY <1>2, <1>10 DEF ConfigInv, ConfigTyped
  <2> QED
    BY <1>1, <1>13, <1>14, <2>1 DEF ConfigInv, NothingLost
<1>17. KeyPrecedes'
  BY <1>1, <1>4, <1>6, <1>7, <1>8, <1>11, AwayFromTheVault DEF Sealing
<1> QED
  BY <1>12, <1>15, <1>16, <1>17 DEF ConfigInv

LEMMA WriteFileKeeps ==
  ASSUME ConfigInv, NEW c \in Clis, F!Write(c)
  PROVE  ConfigInv'
<1> DEFINE i == cli[c].ino
           changed == F!Rewritten(cli[c].cmd, c, cli[c].base)
<1>1. /\ cli[c].at = "write" /\ disk' \in {[disk EXCEPT ![i] = changed], [disk EXCEPT ![i] = Torn]}
      /\ disk[i] = Torn /\ changed # Torn => disk' = [disk EXCEPT ![i] = changed]
      /\ cli' = [cli EXCEPT ![c].at = "rename"]
      /\ UNCHANGED <<config, tmp, vault, mint, wanted, stale, mixed>>
  BY DEF F!Write, F!Goto
<1>2. Running(c) /\ cli[c] \in Runs /\ Fits(cli[c])
  BY <1>1, RunningIsKnown
<1>3. i \in ConfigInodes /\ changed \in F!Text /\ changed # Torn
  <2>1. cli[c].cmd \in F!Command /\ cli[c].cmd.kind # "vault" /\ cli[c].base \in F!Text /\ i \in ConfigInodes
    BY <1>1, <1>2 DEF Runs, Fits
  <2> QED
    BY <2>1, RewrittenIsText, FilesAreSound DEF F!ConfigAssumption
<1> HIDE DEF i, changed
<1>4. PICK run : run = [cli[c] EXCEPT !.at = "rename"]
  OBVIOUS
<1>5. /\ run \in Runs /\ run.cmd = cli[c].cmd /\ run.base = cli[c].base /\ run.ino = i /\ run.at = "rename"
  BY <1>2, <1>4 DEF Runs, CliSteps, i
<1>6. Goes(c, run)
  BY <1>1, <1>2, <1>3, <1>5 DEF Goes, Fits
<1>7. cli' = [cli EXCEPT ![c] = run]
  BY <1>1, <1>4
<1>8. cli'[c] = run /\ (\A d \in Clis : d # c => cli'[d] = cli[d])
  BY <1>7 DEF ConfigInv, ConfigTyped
<1>9. /\ \A j \in ConfigInodes : j # i => disk'[j] = disk[j]
      /\ disk'[i] \in {changed, Torn}
      /\ disk[i] = Torn => disk'[i] = changed
  BY <1>1, <1>3 DEF ConfigInv, ConfigTyped
<1>10. Writes(c)
  BY <1>1, <1>9 DEF Writes, changed
<1>11. ConfigTyped' /\ StepsFit' /\ TokensAreNew' /\ WholeLoads'
  <2>1. /\ config' \in ConfigInodes /\ tmp' \in ConfigInodes \cup {None} /\ tmp' # config'
        /\ disk' \in [ConfigInodes -> Texts] /\ wanted' \in F!Text
        /\ vault' \in (SUBSET {OrgKey, OtherKey}) \cup {Torn} /\ stale' \in BOOLEAN
    BY <1>1, <1>3 DEF ConfigInv, ConfigTyped, Texts
  <2> QED
    BY <1>1, <1>2, <1>6, <1>7, <1>10, <2>1, TextsStayWhole
<1>12. \A d \in Clis : (InPlace(d)' <=> InPlace(d)) /\ (InPlace(d) => cli'[d] = cli[d])
  BY <1>1, <1>5, <1>8 DEF InPlace
<1>13. \A d \in Clis : (Beside(d)' <=> Beside(d)) /\ cli'[d].ino = cli[d].ino
  BY <1>1, <1>5, <1>8 DEF Beside, i
<1>14. ASSUME NeverMixed'
       PROVE  /\ NeverMixed /\ i = tmp /\ tmp # config /\ disk'[tmp] = changed
              /\ \A d \in Clis : Beside(d) => d = c
  <2>1. NeverMixed
    BY <1>1, <1>14 DEF NeverMixed
  <2>2. Beside(c) /\ i = tmp /\ disk[tmp] = Torn /\ \A d \in Clis : Beside(d) => d = c
    BY <1>1, <2>1 DEF ConfigInv, OneWriter, Beside, i
  <2> QED
    BY <1>9, <2>1, <2>2 DEF ConfigInv, ConfigTyped
<1>15. OneWriter'
  <2> SUFFICES ASSUME NeverMixed' PROVE OneWriter'
    BY DEF OneWriter
  <2>1. \A d \in Clis : cli'[d].at \in {"write", "rename"} => d = c
    BY <1>13, <1>14 DEF Beside
  <2>2. disk'[tmp'] = F!Rewritten(cli'[c].cmd, c, cli'[c].base)
    BY <1>1, <1>5, <1>8, <1>14 DEF changed
  <2>3. cli'[c].at = "rename" /\ cli'[c].ino = tmp'
    BY <1>1, <1>5, <1>8, <1>14
  <2>4. (\A d, e \in Clis : InPlace(d)' /\ InPlace(e)' => d = e) /\ (\A d \in Clis : InPlace(d)' => cli'[d].ino # tmp')
    BY <1>1, <1>12, <1>14 DEF ConfigInv, OneWriter
  <2> QED
    BY <1>13, <1>14, <2>1, <2>2, <2>3, <2>4 DEF OneWriter
<1>16. NothingLost'
  <2>1. NeverMixed' => disk'[config] = disk[config]
    BY <1>9, <1>14 DEF ConfigInv, ConfigTyped
  <2> QED
    BY <1>1, <1>12, <1>14, <2>1 DEF ConfigInv, NothingLost
<1>17. KeyPrecedes'
  BY <1>1, <1>2, <1>5, <1>6, <1>7, <1>10, AwayFromTheVault DEF Sealing
<1> QED
  BY <1>11, <1>15, <1>16, <1>17 DEF ConfigInv

\* A copy that is still current is the next text; one that is not is known to be stale.
LEMMA RenameFileKeeps ==
  ASSUME ConfigInv, NEW c \in Clis, F!Rename(c)
  PROVE  ConfigInv'
<1>1. /\ cli[c].at = "rename" /\ cli' = [cli EXCEPT ![c] = F!Ended]
      /\ UNCHANGED <<disk, vault, mint, mixed>>
  BY DEF F!Rename, F!End
<1>2. Running(c) /\ cli[c] \in Runs /\ Fits(cli[c])
  BY <1>1, RunningIsKnown
<1>3. cli[c].cmd \in F!Command /\ cli[c].cmd.kind # "vault" /\ cli[c].base \in F!Text /\ cli[c].ino \in ConfigInodes
      /\ cli[c].base # Torn
  BY <1>1, <1>2, FilesAreSound DEF Runs, Fits, F!ConfigAssumption
<1>4. \/ tmp = None /\ UNCHANGED <<config, tmp, wanted, stale>>
      \/ /\ tmp # None /\ config' = tmp /\ tmp' = None
         /\ wanted' = F!Rewritten(cli[c].cmd, c, wanted)
         /\ stale' = (stale \/ cli[c].base # disk[config])
  BY DEF F!Rename, F!Landed
<1>5. /\ wanted \in F!Text /\ config \in ConfigInodes /\ None \notin ConfigInodes
      /\ tmp \in ConfigInodes \cup {None} /\ tmp # config
  BY FilesAreSound DEF ConfigInv, ConfigTyped, F!ConfigAssumption
<1>6. F!Rewritten(cli[c].cmd, c, wanted) \in F!Text /\ F!Rewritten(cli[c].cmd, c, cli[c].base) \in F!Text
  BY <1>3, <1>5, RewrittenIsText
<1>7. F!Rewritten(cli[c].cmd, c, cli[c].base) # Torn
  BY <1>6, FilesAreSound DEF F!ConfigAssumption
<1>8. cli'[c] = F!Ended /\ (\A d \in Clis : d # c => cli'[d] = cli[d])
  BY <1>1 DEF ConfigInv, ConfigTyped
<1>9. Goes(c, F!Ended) /\ Writes(c)
  BY <1>1 DEF Goes, Writes
<1>10. ConfigTyped' /\ StepsFit' /\ TokensAreNew' /\ WholeLoads'
  <2>1. /\ config' \in ConfigInodes /\ tmp' \in ConfigInodes \cup {None} /\ tmp' # config'
        /\ wanted' \in F!Text /\ stale' \in BOOLEAN
    BY <1>4, <1>5, <1>6 DEF ConfigInv, ConfigTyped
  <2>2. disk' \in [ConfigInodes -> Texts] /\ vault' \in (SUBSET {OrgKey, OtherKey}) \cup {Torn}
    BY <1>1 DEF ConfigInv, ConfigTyped
  <2> QED
    BY <1>1, <1>2, <1>9, <2>1, <2>2, TextsStayWhole
<1>11. \A d \in Clis : /\ InPlace(d)' <=> InPlace(d)
                       /\ InPlace(d) => cli'[d] = cli[d] /\ cli[d].ino \in ConfigInodes
  <2>1. \A d \in Clis : InPlace(d) => cli[d].ino \in ConfigInodes
    BY RunningIsKnown DEF InPlace, Fits
  <2> QED
    BY <1>1, <1>8, <2>1 DEF InPlace, F!Ended
<1>12. ASSUME NeverMixed'
       PROVE  /\ NeverMixed /\ tmp = cli[c].ino /\ disk[tmp] = F!Rewritten(cli[c].cmd, c, cli[c].base)
              /\ \A d \in Clis : ~Beside(d)'
  <2>1. NeverMixed /\ Beside(c)
    BY <1>1, <1>12 DEF NeverMixed, Beside
  <2>2. \A d \in Clis : Beside(d) => d = c
    BY <2>1 DEF ConfigInv, OneWriter
  <2>3. \A d \in Clis : ~Beside(d)'
    BY <1>8, <2>2 DEF Beside, F!Ended
  <2> QED
    BY <1>1, <2>1, <2>3 DEF ConfigInv, OneWriter
<1>13. OneWriter'
  <2> SUFFICES ASSUME NeverMixed' PROVE OneWriter'
    BY DEF OneWriter
  <2>1. \A d \in Clis : cli'[d].at \notin {"write", "rename"}
    BY <1>12 DEF Beside
  <2>2. \A d \in Clis : InPlace(d)' => cli'[d].ino # tmp'
    BY <1>4, <1>5, <1>11, <1>12 DEF ConfigInv, OneWriter
  <2> QED
    BY <1>11, <1>12, <2>1, <2>2 DEF ConfigInv, OneWriter
<1>14. NothingLost'
  <2> SUFFICES ASSUME NeverMixed' PROVE NothingLost'
    BY DEF NothingLost
  <2>1. /\ NeverMixed /\ tmp # None /\ config' = tmp
        /\ disk'[config'] = F!Rewritten(cli[c].cmd, c, cli[c].base)
        /\ wanted' = F!Rewritten(cli[c].cmd, c, wanted)
        /\ stale' = (stale \/ cli[c].base # disk[config])
    BY <1>1, <1>3, <1>4, <1>5, <1>12
  <2>2. \A d \in Clis : InPlace(d)' => cli'[d].ino # config' /\ stale'
    <3> SUFFICES ASSUME NEW d \in Clis, InPlace(d)' PROVE cli'[d].ino # config' /\ stale'
      OBVIOUS
    <3>1. InPlace(d) /\ cli'[d] = cli[d] /\ cli[d].ino # tmp
      BY <1>11, <2>1 DEF ConfigInv, OneWriter
    <3>2. CASE cli[d].ino # config
      BY <2>1, <3>1, <3>2 DEF ConfigInv, NothingLost
    <3>3. CASE cli[d].ino = config
      BY <1>3, <2>1, <3>1, <3>3 DEF ConfigInv, NothingLost
    <3> QED
      BY <2>1, <3>1, <3>2, <3>3
  <2>3. ~stale' => disk'[config'] = wanted'
    <3>1. SUFFICES ASSUME ~stale' PROVE disk'[config'] = wanted'
      OBVIOUS
    <3>2. ~stale /\ cli[c].base = disk[config]
      BY <2>1, <3>1
    <3>3. \A d \in Clis : ~InPlace(d)
      BY <1>11, <2>2, <3>1
    <3>4. disk[config] = wanted
      BY <2>1, <3>2, <3>3 DEF ConfigInv, NothingLost
    <3> QED
      BY <2>1, <3>2, <3>4
  <2> QED
    BY <1>7, <2>1, <2>2, <2>3 DEF NothingLost
<1>15. KeyPrecedes'
  BY <1>1, <1>2, <1>9, AwayFromTheVault DEF Sealing, F!Ended
<1> QED
  BY <1>10, <1>13, <1>14, <1>15 DEF ConfigInv

\* `grenz add` reports its change while the file is empty.
LEMMA TruncateKeeps ==
  ASSUME ConfigInv, NEW c \in Clis, F!Truncate(c)
  PROVE  ConfigInv'
<1>1. /\ cli[c].at = "truncate" /\ disk' = [disk EXCEPT ![config] = Torn]
      /\ wanted' = F!Rewritten(cli[c].cmd, c, wanted)
      /\ stale' = (stale \/ cli[c].base # disk[config])
      /\ cli' = [cli EXCEPT ![c].at = "in_place", ![c].ino = config]
      /\ mixed' = IF F!Writing({"in_place"}) = {} THEN mixed ELSE mixed \cup {"in_place"}
      /\ UNCHANGED <<config, tmp, vault, mint>>
  BY DEF F!Truncate, F!Landed
<1>2. Running(c) /\ cli[c] \in Runs /\ Fits(cli[c])
  BY <1>1, RunningIsKnown
<1>3. cli[c].cmd \in F!Command /\ cli[c].cmd.kind # "vault" /\ cli[c].cmd.kind = "add" /\ cli[c].base \in F!Text
  BY <1>1, <1>2 DEF Runs, Fits
<1>4. config \in ConfigInodes /\ tmp # config /\ wanted \in F!Text /\ disk \in [ConfigInodes -> Texts]
  BY DEF ConfigInv, ConfigTyped
<1>5. F!Rewritten(cli[c].cmd, c, wanted) \in F!Text
  BY <1>3, <1>4, RewrittenIsText
<1>6. PICK run : run = [cli[c] EXCEPT !.at = "in_place", !.ino = config]
  OBVIOUS
<1>7. /\ run \in Runs /\ run.cmd = cli[c].cmd /\ run.base = cli[c].base /\ run.ino = config /\ run.at = "in_place"
  BY <1>2, <1>4, <1>6 DEF Runs, CliSteps
<1>8. Goes(c, run)
  BY <1>2, <1>3, <1>4, <1>7 DEF Goes, Fits
<1>9. cli' = [cli EXCEPT ![c] = run]
  BY <1>1, <1>6
<1>10. cli'[c] = run /\ (\A d \in Clis : d # c => cli'[d] = cli[d])
  BY <1>9 DEF ConfigInv, ConfigTyped
<1>11. disk'[config] = Torn /\ \A j \in ConfigInodes : j # config => disk'[j] = disk[j]
  BY <1>1, <1>4
<1>12. Writes(c) /\ mixed \subseteq mixed'
  BY <1>1, <1>11 DEF Writes
<1>13. ConfigTyped' /\ StepsFit' /\ TokensAreNew' /\ WholeLoads'
  <2>1. /\ config' \in ConfigInodes /\ tmp' \in ConfigInodes \cup {None} /\ tmp' # config'
        /\ disk' \in [ConfigInodes -> Texts] /\ wanted' \in F!Text
        /\ vault' \in (SUBSET {OrgKey, OtherKey}) \cup {Torn} /\ stale' \in BOOLEAN
    BY <1>1, <1>5 DEF ConfigInv, ConfigTyped, Texts
  <2> QED
    BY <1>1, <1>2, <1>8, <1>9, <1>12, <2>1, TextsStayWhole
<1>14. \A d \in Clis : (Beside(d)' <=> Beside(d)) /\ (Beside(d) => cli'[d] = cli[d] /\ cli[d].ino \in ConfigInodes)
  <2>1. \A d \in Clis : Beside(d) => cli[d].ino \in ConfigInodes
    BY RunningIsKnown DEF Beside, Fits
  <2> QED
    BY <1>1, <1>7, <1>10, <2>1 DEF Beside
<1>15. ASSUME NeverMixed'
       PROVE  /\ NeverMixed /\ \A d \in Clis : ~InPlace(d) /\ (InPlace(d)' => d = c)
              /\ disk[config] # Torn /\ (stale \/ disk[config] = wanted)
  <2>1. NeverMixed /\ F!Writing({"in_place"}) = {}
    BY <1>1, <1>15 DEF NeverMixed
  <2>2. \A d \in Clis : ~InPlace(d)
    BY <2>1 DEF F!Writing, InPlace
  <2> QED
    BY <1>10, <2>1, <2>2 DEF InPlace, ConfigInv, NothingLost
<1>16. OneWriter'
  <2> SUFFICES ASSUME NeverMixed' PROVE OneWriter'
    BY DEF OneWriter
  <2>1. /\ \A d, e \in Clis : Beside(d)' /\ Beside(e)' => d = e
        /\ \A d \in Clis : Beside(d)' => cli'[d].ino = tmp'
    BY <1>1, <1>14, <1>15 DEF ConfigInv, OneWriter
  <2>2. \A d \in Clis : Beside(d)' => cli'[d] = cli[d] /\ tmp \in ConfigInodes /\ disk'[tmp'] = disk[tmp]
    <3>1. ASSUME NEW d \in Clis, Beside(d) PROVE cli[d].ino = tmp
      BY <1>15, <3>1 DEF ConfigInv, OneWriter
    <3>2. tmp' = tmp /\ tmp # config
      BY <1>1, <1>4 DEF ConfigInv, ConfigTyped
    <3> QED
      BY <1>11, <1>14, <3>1, <3>2
  <2>3. /\ \A d \in Clis : cli'[d].at = "write" => disk'[tmp'] = Torn
        /\ \A d \in Clis : cli'[d].at = "rename" => disk'[tmp'] = F!Rewritten(cli'[d].cmd, d, cli'[d].base)
    <3>1. \A d \in Clis : cli'[d].at \in {"write", "rename"} => cli'[d] = cli[d] /\ disk'[tmp'] = disk[tmp]
      BY <2>2 DEF Beside
    <3> QED
      BY <1>15, <3>1 DEF ConfigInv, OneWriter
  <2>4. /\ \A d, e \in Clis : InPlace(d)' /\ InPlace(e)' => d = e
        /\ \A d \in Clis : InPlace(d)' => cli'[d].ino # tmp'
    BY <1>1, <1>4, <1>7, <1>10, <1>15
  <2> QED
    BY <2>1, <2>3, <2>4 DEF OneWriter
<1>17. NothingLost'
  <2> SUFFICES ASSUME NeverMixed' PROVE NothingLost'
    BY DEF NothingLost
  <2>1. InPlace(c)' /\ cli'[c].ino = config' /\ \A d \in Clis : InPlace(d)' => d = c
    BY <1>1, <1>7, <1>10, <1>15 DEF InPlace
  <2>2. disk'[config'] = Torn
    BY <1>1, <1>11
  <2>3. stale' \/ wanted' = F!Rewritten(cli'[c].cmd, c, cli'[c].base)
    BY <1>1, <1>7, <1>10, <1>15
  <2> QED
    BY <2>1, <2>2, <2>3 DEF NothingLost
<1>18. KeyPrecedes'
  BY <1>1, <1>2, <1>7, <1>8, <1>9, <1>12, AwayFromTheVault DEF Sealing
<1> QED
  BY <1>13, <1>16, <1>17, <1>18 DEF ConfigInv

LEMMA WriteInPlaceKeeps ==
  ASSUME ConfigInv, NEW c \in Clis, F!WriteInPlace(c)
  PROVE  ConfigInv'
<1> DEFINE i == cli[c].ino
           changed == F!Rewritten(cli[c].cmd, c, cli[c].base)
<1>1. /\ cli[c].at = "in_place" /\ disk' = [disk EXCEPT ![i] = changed]
      /\ cli' = [cli EXCEPT ![c] = F!Ended]
      /\ UNCHANGED <<config, tmp, vault, mint, wanted, stale, mixed>>
  BY DEF F!WriteInPlace, F!End
<1>2. Running(c) /\ cli[c] \in Runs /\ Fits(cli[c])
  BY <1>1, RunningIsKnown
<1>3. i \in ConfigInodes /\ changed \in F!Text /\ changed # Torn
  <2>1. cli[c].cmd \in F!Command /\ cli[c].cmd.kind # "vault" /\ cli[c].base \in F!Text /\ i \in ConfigInodes
    BY <1>1, <1>2 DEF Runs, Fits
  <2> QED
    BY <2>1, RewrittenIsText, FilesAreSound DEF F!ConfigAssumption
<1>4. cli'[c] = F!Ended /\ (\A d \in Clis : d # c => cli'[d] = cli[d])
  BY <1>1 DEF ConfigInv, ConfigTyped
<1> HIDE DEF i, changed
<1>5. disk'[i] = changed /\ \A j \in ConfigInodes : j # i => disk'[j] = disk[j]
  BY <1>1, <1>3 DEF ConfigInv, ConfigTyped
<1>6. Goes(c, F!Ended) /\ Writes(c)
  BY <1>1, <1>5 DEF Goes, Writes, changed
<1>7. ConfigTyped' /\ StepsFit' /\ TokensAreNew' /\ WholeLoads'
  <2>1. /\ config' \in ConfigInodes /\ tmp' \in ConfigInodes \cup {None} /\ tmp' # config'
        /\ disk' \in [ConfigInodes -> Texts] /\ wanted' \in F!Text
        /\ vault' \in (SUBSET {OrgKey, OtherKey}) \cup {Torn} /\ stale' \in BOOLEAN
    BY <1>1, <1>3 DEF ConfigInv, ConfigTyped, Texts
  <2> QED
    BY <1>1, <1>2, <1>6, <2>1, TextsStayWhole
<1>8. \A d \in Clis : (Beside(d)' <=> Beside(d)) /\ (Beside(d) => cli'[d] = cli[d])
  BY <1>1, <1>4 DEF Beside, F!Ended
<1>9. ASSUME NeverMixed'
      PROVE  NeverMixed /\ i # tmp /\ \A d \in Clis : (InPlace(d) => d = c) /\ ~InPlace(d)'
  <2>1. NeverMixed /\ InPlace(c)
    BY <1>1, <1>9 DEF NeverMixed, InPlace
  <2>2. i # tmp /\ \A d \in Clis : InPlace(d) => d = c
    BY <2>1 DEF ConfigInv, OneWriter, i
  <2> QED
    BY <1>4, <2>1, <2>2 DEF InPlace, F!Ended
<1>10. OneWriter'
  <2> SUFFICES ASSUME NeverMixed' PROVE OneWriter'
    BY DEF OneWriter
  <2>1. \A d \in Clis : Beside(d) => tmp \in ConfigInodes
    <3>1. \A d \in Clis : Beside(d) => cli[d].ino \in ConfigInodes
      BY RunningIsKnown DEF Beside, Fits
    <3> QED
      BY <1>9, <3>1 DEF ConfigInv, OneWriter
  <2>2. \A d \in Clis : cli'[d].at \in {"write", "rename"} => cli'[d] = cli[d] /\ disk'[tmp'] = disk[tmp]
    BY <1>1, <1>5, <1>8, <1>9, <2>1 DEF Beside
  <2>3. /\ \A d \in Clis : cli'[d].at = "write" => disk'[tmp'] = Torn
        /\ \A d \in Clis : cli'[d].at = "rename" => disk'[tmp'] = F!Rewritten(cli'[d].cmd, d, cli'[d].base)
    BY <1>9, <2>2 DEF ConfigInv, OneWriter
  <2> QED
    BY <1>1, <1>8, <1>9, <2>3 DEF ConfigInv, OneWriter
<1>11. NothingLost'
  <2> SUFFICES ASSUME NeverMixed' PROVE NothingLost'
    BY DEF NothingLost
  <2>1. NeverMixed /\ InPlace(c) /\ config \in ConfigInodes
    BY <1>1, <1>9 DEF InPlace, ConfigInv, ConfigTyped
  <2>2. CASE i = config
    <3>1. stale \/ wanted = changed
      BY <2>1, <2>2 DEF ConfigInv, NothingLost, i, changed
    <3> QED
      BY <1>1, <1>3, <1>5, <1>9, <2>2, <3>1 DEF NothingLost
  <2>3. CASE i # config
    <3>1. \A d \in Clis : ~(InPlace(d) /\ cli[d].ino = config)
      BY <1>9, <2>3 DEF i
    <3>2. disk[config] # Torn /\ (stale \/ disk[config] = wanted)
      BY <2>1, <3>1 DEF ConfigInv, NothingLost
    <3> QED
      BY <1>1, <1>5, <1>9, <2>1, <2>3, <3>2 DEF NothingLost
  <2> QED
    BY <2>2, <2>3
<1>12. KeyPrecedes'
  BY <1>1, <1>2, <1>6, AwayFromTheVault DEF Sealing, F!Ended
<1> QED
  BY <1>7, <1>10, <1>11, <1>12 DEF ConfigInv

\* Who dies with the list or the vault half written is remembered.
LEMMA DieKeeps ==
  ASSUME ConfigInv, NEW c \in Clis, F!Die(c)
  PROVE  ConfigInv'
<1>1. /\ Running(c) /\ cli' = [cli EXCEPT ![c] = F!Ended]
      /\ mixed' = mixed \cup (IF cli[c].at = "in_place" THEN {"in_place"} ELSE {})
                        \cup (IF cli[c].at = "sealing" THEN {"vault"} ELSE {})
      /\ UNCHANGED <<config, tmp, disk, vault, mint, wanted, stale>>
  BY DEF F!Die, F!End, Running
<1>2. cli'[c] = F!Ended /\ (\A d \in Clis : d # c => cli'[d] = cli[d])
  BY <1>1 DEF ConfigInv, ConfigTyped
<1>3. Goes(c, F!Ended) /\ Writes(c) /\ mixed \subseteq mixed'
  BY <1>1 DEF Goes, Writes
<1>4. ConfigTyped' /\ StepsFit' /\ TokensAreNew' /\ WholeLoads'
  <2>1. /\ config' \in ConfigInodes /\ tmp' \in ConfigInodes \cup {None} /\ tmp' # config'
        /\ disk' \in [ConfigInodes -> Texts] /\ wanted' \in F!Text
        /\ vault' \in (SUBSET {OrgKey, OtherKey}) \cup {Torn} /\ stale' \in BOOLEAN
    BY <1>1 DEF ConfigInv, ConfigTyped
  <2> QED
    BY <1>1, <1>3, <2>1, TextsStayWhole
<1>5. NeverMixed' =>
        /\ \A d \in Clis : Beside(d)' => cli'[d] = cli[d]
        /\ \A d \in Clis : InPlace(d)' \/ InPlace(d) => cli'[d] = cli[d]
  <2>1. NeverMixed' => ~InPlace(c)
    BY <1>1 DEF NeverMixed, InPlace
  <2>2. ~Beside(c)' /\ ~InPlace(c)'
    BY <1>2 DEF Beside, InPlace, F!Ended
  <2> QED
    BY <1>2, <2>1, <2>2
<1>6. OneWriter' /\ NothingLost'
  BY <1>1, <1>3, <1>5, FilesStayApart
<1>7. KeyPrecedes'
  <2>1. CASE Sealing(c)
    BY <1>1, <2>1 DEF Sealing, KeyPrecedes
  <2>2. CASE ~Sealing(c)
    BY <1>1, <1>3, <2>2, AwayFromTheVault DEF F!Ended
  <2> QED
    BY <2>1, <2>2
<1> QED
  BY <1>4, <1>6, <1>7 DEF ConfigInv

LEMMA UpKeeps ==
  ASSUME ConfigInv, F!Start \/ UNCHANGED configVars
  PROVE  ConfigInv'
<1>1. UNCHANGED <<config, tmp, disk, vault, cli, mint, wanted, stale, mixed>>
  BY DEF F!Start, configVars
<1>2. ConfigTyped' /\ StepsFit'
  BY <1>1 DEF ConfigInv, ConfigTyped, StepsFit, Running
<1>3. TokensAreNew' /\ WholeLoads'
  BY <1>1 DEF ConfigInv, TokensAreNew, Tokens, WholeLoads, Running, Minting, F!Loadable
<1>4. OneWriter' /\ NothingLost'
  BY <1>1, FilesStayApart DEF NeverMixed
<1>5. KeyPrecedes'
  BY <1>1 DEF ConfigInv, KeyPrecedes, HasKey, Sealing, NamesPlane, Running, Minting
<1> QED
  BY <1>2, <1>3, <1>4, <1>5 DEF ConfigInv

\* A mint that goes on holds the text it read, or reads the file.
LEMMA MintsGoOn ==
  ASSUME ConfigInv, UNCHANGED <<config, tmp, disk, vault, cli, wanted, stale, mixed>>,
         mint' \in [Mints -> MintRuns \cup {F!Idle, F!Ended}],
         \A m \in Mints : Minting(m)' =>
           (Minting(m) /\ mint'[m].base = mint[m].base) \/ mint'[m].base = disk[config],
         \A m \in Mints : mint[m] = F!Ended => mint'[m] = F!Ended,
         \A m \in Mints : mint'[m].at = "checked" =>
           /\ mint'[m].base \in F!Text /\ mint'[m].found = mint'[m].base
           /\ F!Loadable(F!Rewritten(mint'[m].cmd, m, mint'[m].base))
  PROVE  ConfigInv'
<1>1. config \in ConfigInodes
  BY DEF ConfigInv, ConfigTyped
<1>2. ConfigTyped' /\ StepsFit'
  BY DEF ConfigInv, ConfigTyped, StepsFit, Running
<1>3. ASSUME NEW x, \A i \in ConfigInodes : disk[i] # Torn => x \notin Tokens(disk[i]),
             \A n \in Mints : Minting(n) /\ mint[n].base # Torn => x \notin Tokens(mint[n].base)
      PROVE  \A n \in Mints : Minting(n)' /\ mint'[n].base # Torn => x \notin Tokens(mint'[n].base)
  BY <1>1, <1>3
<1>4. TokensAreNew'
  <2>1. ASSUME NEW c \in Clis, cli[c] = F!Idle
        PROVE  \A n \in Mints : Minting(n)' /\ mint'[n].base # Torn => c \notin Tokens(mint'[n].base)
    BY <1>3, <2>1 DEF ConfigInv, TokensAreNew
  <2>2. ASSUME NEW m \in Mints, mint'[m] # F!Ended
        PROVE  /\ mint[m] # F!Ended
               /\ \A n \in Mints : Minting(n)' /\ mint'[n].base # Torn => m \notin Tokens(mint'[n].base)
    BY <1>3, <2>2 DEF ConfigInv, TokensAreNew
  <2>3. /\ \A c \in Clis : cli'[c] = cli[c] /\ Running(c)' = Running(c)
        /\ \A i \in ConfigInodes : disk'[i] = disk[i]
    BY DEF Running
  <2> QED
    BY <2>1, <2>2, <2>3 DEF ConfigInv, TokensAreNew, Tokens
<1>5. WholeLoads'
  <2>1. \A m \in Mints : Minting(m)' /\ mint'[m].base # Torn => F!Loadable(mint'[m].base)
    BY <1>1 DEF ConfigInv, WholeLoads
  <2> QED
    BY <2>1 DEF ConfigInv, WholeLoads, Running, F!Loadable
<1>6. OneWriter' /\ NothingLost'
  BY FilesStayApart DEF NeverMixed
<1>7. KeyPrecedes'
  <2>1. HasKey' = HasKey
    BY DEF HasKey, Sealing
  <2>2. "vault" \notin mixed =>
          \A m \in Mints : Minting(m)' /\ mint'[m].base # Torn /\ mint'[m].base.plane => HasKey
    BY <1>1 DEF ConfigInv, KeyPrecedes
  <2> QED
    BY <2>1, <2>2 DEF ConfigInv, KeyPrecedes, Sealing, NamesPlane, Running
<1> QED
  BY <1>2, <1>4, <1>5, <1>6, <1>7 DEF ConfigInv

LEMMA MintReadKeeps ==
  ASSUME ConfigInv, NEW m \in Mints, F!MintRead(m)
  PROVE  ConfigInv'
<1>1. /\ mint[m] = F!Idle /\ UNCHANGED <<config, tmp, disk, vault, cli, wanted, stale, mixed>>
  BY DEF F!MintRead
<1>2. PICK id \in Ids :
        mint' = [mint EXCEPT ![m] = [at |-> "hash", cmd |-> F!Mint(id), base |-> disk[config], found |-> None]]
  BY DEF F!MintRead
<1>3. PICK run : run = [at |-> "hash", cmd |-> F!Mint(id), base |-> disk[config], found |-> None]
  OBVIOUS
<1>4. run \in MintRuns /\ run.base = disk[config] /\ run.at = "hash"
  BY <1>3 DEF MintRuns, ConfigInv, ConfigTyped
<1>5. mint' = [mint EXCEPT ![m] = run] /\ mint \in [Mints -> MintRuns \cup {F!Idle, F!Ended}]
  BY <1>2, <1>3 DEF ConfigInv, ConfigTyped
<1>6. mint' \in [Mints -> MintRuns \cup {F!Idle, F!Ended}]
  BY <1>4, <1>5
<1>7. mint'[m] = run /\ \A n \in Mints : n # m => mint'[n] = mint[n]
  BY <1>5
<1>8. \A n \in Mints : Minting(n)' =>
        (Minting(n) /\ mint'[n].base = mint[n].base) \/ mint'[n].base = disk[config]
  BY <1>4, <1>7 DEF Minting
<1>9. \A n \in Mints : mint[n] = F!Ended => mint'[n] = F!Ended
  BY <1>1, <1>7 DEF F!Idle, F!Ended
<1>10. \A n \in Mints : mint'[n].at = "checked" =>
         /\ mint'[n].base \in F!Text /\ mint'[n].found = mint'[n].base
         /\ F!Loadable(F!Rewritten(mint'[n].cmd, n, mint'[n].base))
  BY <1>4, <1>7 DEF ConfigInv, StepsFit, WholeLoads
<1> QED
  BY <1>1, <1>6, <1>8, <1>9, <1>10, MintsGoOn

\* What is compared equal is a text that loads, and has nobody of that name.
LEMMA MintCompareKeeps ==
  ASSUME ConfigInv, NEW m \in Mints, F!MintCompare(m)
  PROVE  ConfigInv'
<1> DEFINE fits == F!Accepts(mint[m].cmd, mint[m].base) /\ disk[config] = mint[m].base
<1>1. /\ mint[m].at = "hash" /\ UNCHANGED <<config, tmp, disk, vault, cli, wanted, stale, mixed>>
      /\ mint' = [mint EXCEPT ![m] =
                    IF fits THEN [mint[m] EXCEPT !.at = "checked", !.found = disk[config]] ELSE F!Ended]
  BY DEF F!MintCompare, ConfigInv, ConfigTyped
<1>2. mint \in [Mints -> MintRuns \cup {F!Idle, F!Ended}] /\ Minting(m) /\ mint[m] \in MintRuns
  BY <1>1 DEF ConfigInv, ConfigTyped, Minting, F!Idle, F!Ended
<1>3. PICK run : run = IF fits THEN [mint[m] EXCEPT !.at = "checked", !.found = disk[config]] ELSE F!Ended
  OBVIOUS
<1>4. CASE ~fits
  <2>1. run = F!Ended /\ run.at = "ended"
    BY <1>3, <1>4 DEF F!Ended
  <2>2. mint'[m] = run /\ \A n \in Mints : n # m => mint'[n] = mint[n]
    BY <1>1, <1>2, <1>3
  <2>3. mint' \in [Mints -> MintRuns \cup {F!Idle, F!Ended}]
    BY <1>1, <1>2, <1>3, <2>1
  <2>4. /\ \A n \in Mints : Minting(n)' =>
             (Minting(n) /\ mint'[n].base = mint[n].base) \/ mint'[n].base = disk[config]
        /\ \A n \in Mints : mint[n] = F!Ended => mint'[n] = F!Ended
    BY <2>1, <2>2 DEF Minting
  <2>5. \A n \in Mints : mint'[n].at = "checked" =>
          /\ mint'[n].base \in F!Text /\ mint'[n].found = mint'[n].base
          /\ F!Loadable(F!Rewritten(mint'[n].cmd, n, mint'[n].base))
    BY <2>1, <2>2 DEF ConfigInv, StepsFit, WholeLoads
  <2> QED
    BY <1>1, <2>3, <2>4, <2>5, MintsGoOn
<1>5. CASE fits
  <2>1. config \in ConfigInodes /\ disk \in [ConfigInodes -> Texts]
    BY DEF ConfigInv, ConfigTyped
  <2>2. /\ run \in MintRuns /\ run.at = "checked" /\ run.found = disk[config]
        /\ run.base = mint[m].base /\ run.cmd = mint[m].cmd
    BY <1>2, <1>3, <1>5, <2>1 DEF MintRuns
  <2>3. mint'[m] = run /\ \A n \in Mints : n # m => mint'[n] = mint[n]
    BY <1>1, <1>2, <1>3
  <2>4. mint' \in [Mints -> MintRuns \cup {F!Idle, F!Ended}]
    BY <1>1, <1>2, <1>3, <2>2
  <2>5. PICK id \in Ids : mint[m].cmd = F!Mint(id)
    BY <1>2 DEF MintRuns
  <2>6. /\ mint[m].base # Torn /\ mint[m].base \in F!Text
        /\ ~F!Taken(mint[m].base, id)
    BY <1>2, <1>5, <2>5 DEF F!Accepts, MintRuns, F!Mint, Texts
  <2>7. F!Loadable(mint[m].base) /\ m \notin Tokens(mint[m].base)
    BY <1>2, <2>6 DEF ConfigInv, WholeLoads, TokensAreNew, Minting
  <2>8. F!Rewritten(F!Mint(id), m, mint[m].base) \in F!Text
    BY <2>6, RewrittenIsText DEF F!Mint
  <2>9. F!Rewritten(F!Mint(id), m, mint[m].base) # Torn
    BY <2>8, FilesAreSound DEF F!ConfigAssumption
  <2>10. F!Loadable(F!Rewritten(mint[m].cmd, m, mint[m].base))
    BY <2>5, <2>6, <2>7, <2>9, MintedLoads
  <2>11. run # F!Ended /\ mint[m] # F!Ended
    BY <1>1, <2>2 DEF F!Ended
  <2>12. /\ \A n \in Mints : Minting(n)' =>
              (Minting(n) /\ mint'[n].base = mint[n].base) \/ mint'[n].base = disk[config]
         /\ \A n \in Mints : mint[n] = F!Ended => mint'[n] = F!Ended
    BY <1>2, <2>2, <2>3, <2>11 DEF Minting
  <2>13. \A n \in Mints : mint'[n].at = "checked" =>
           /\ mint'[n].base \in F!Text /\ mint'[n].found = mint'[n].base
           /\ F!Loadable(F!Rewritten(mint'[n].cmd, n, mint'[n].base))
    BY <1>5, <2>2, <2>3, <2>6, <2>10 DEF ConfigInv, StepsFit, WholeLoads
  <2> QED
    BY <1>1, <2>4, <2>12, <2>13, MintsGoOn
<1> QED
  BY <1>4, <1>5

LEMMA StopKeeps ==
  ASSUME ConfigInv, F!Stop
  PROVE  ConfigInv'
<1>1. /\ mint' = [m \in Mints |-> IF mint[m] = F!Idle THEN F!Idle ELSE F!Ended]
      /\ UNCHANGED <<config, tmp, disk, vault, cli, wanted, stale, mixed>>
  BY DEF F!Stop
<1>2. \A m \in Mints : ~Minting(m)' /\ mint'[m].at # "checked" /\ (mint[m] = F!Ended => mint'[m] = F!Ended)
  BY <1>1 DEF Minting, F!Idle, F!Ended
<1>3. mint' \in [Mints -> MintRuns \cup {F!Idle, F!Ended}]
  BY <1>1
<1> QED
  BY <1>1, <1>2, <1>3, MintsGoOn

\* The rename puts the text beside every file in use, and is stale only if the list has
\* changed since the comparison.
LEMMA MintRenameKeeps ==
  ASSUME ConfigInv, NEW m \in Mints, F!MintRename(m)
  PROVE  ConfigInv'
<1> DEFINE order == mint[m].cmd
           base == mint[m].base
           minted == F!Rewritten(order, m, base)
           i == F!Fresh
<1>1. /\ mint[m].at = "checked" /\ config' = i /\ disk' = [disk EXCEPT ![i] = minted]
      /\ mint' = [mint EXCEPT ![m] = F!Ended] /\ wanted' = F!Rewritten(order, m, wanted)
      /\ stale' = (stale \/ mint[m].found # disk[config])
      /\ UNCHANGED <<tmp, vault, cli, mixed>>
  BY DEF F!MintRename, F!Landed
<1>2. /\ mint \in [Mints -> MintRuns \cup {F!Idle, F!Ended}] /\ disk \in [ConfigInodes -> Texts]
      /\ wanted \in F!Text /\ config \in ConfigInodes
  BY DEF ConfigInv, ConfigTyped
<1>3. Minting(m) /\ mint[m] \in MintRuns
  BY <1>1, <1>2 DEF Minting, F!Idle, F!Ended
<1>4. base \in F!Text /\ mint[m].found = base /\ base # Torn
  BY <1>1, FilesAreSound DEF ConfigInv, StepsFit, F!ConfigAssumption
<1>5. order \in F!Command \cup {F!Mint(id) : id \in Ids} /\ order.kind = "mint"
  BY <1>3 DEF MintRuns, F!Mint
<1>6. /\ minted \in F!Text /\ minted # Torn /\ Tokens(minted) \subseteq Tokens(base) \cup {m}
      /\ minted.plane => base.plane
      /\ F!Rewritten(order, m, wanted) \in F!Text
  BY <1>2, <1>4, <1>5, RewrittenIsText, FilesAreSound DEF F!ConfigAssumption
<1>7. F!Loadable(minted)
  BY <1>1 DEF ConfigInv, WholeLoads
<1>8. /\ i \in ConfigInodes /\ i # config /\ i # tmp
      /\ \A c \in Clis : Beside(c) \/ InPlace(c) => cli[c].ino # i
  BY FreshIsFree
<1>9. mint'[m] = F!Ended /\ \A n \in Mints : n # m => mint'[n] = mint[n]
  BY <1>1, <1>2
<1> HIDE DEF order, base, minted, i
<1>10. disk'[i] = minted /\ \A j \in ConfigInodes : j # i => disk'[j] = disk[j]
  BY <1>1, <1>2, <1>8
<1>11. ConfigTyped'
  <2>1. disk' \in [ConfigInodes -> Texts]
    BY <1>1, <1>2, <1>6 DEF Texts
  <2>2. mint' \in [Mints -> MintRuns \cup {F!Idle, F!Ended}]
    BY <1>1, <1>2
  <2>3. wanted' \in F!Text /\ stale' \in BOOLEAN
    BY <1>1, <1>6 DEF ConfigInv, ConfigTyped
  <2> QED
    BY <1>1, <1>8, <2>1, <2>2, <2>3 DEF ConfigInv, ConfigTyped
<1>12. \A n \in Mints : Minting(n)' => n # m /\ Minting(n) /\ mint'[n] = mint[n]
  BY <1>9 DEF Minting
<1>13. \A c \in Clis : cli'[c] = cli[c] /\ Running(c)' = Running(c)
  BY <1>1 DEF Running
<1>14. StepsFit'
  <2>1. \A n \in Mints : mint'[n].at = "checked" => mint'[n].base \in F!Text /\ mint'[n].found = mint'[n].base
    BY <1>9 DEF ConfigInv, StepsFit, F!Ended
  <2> QED
    BY <1>13, <2>1 DEF ConfigInv, StepsFit
<1>15. TokensAreNew'
  <2>1. ASSUME NEW x, x # m, \A j \in ConfigInodes : disk[j] # Torn => x \notin Tokens(disk[j]),
               x \notin Tokens(base)
        PROVE  \A j \in ConfigInodes : disk'[j] # Torn => x \notin Tokens(disk'[j])
    BY <1>6, <1>10, <2>1
  <2>2. ASSUME NEW c \in Clis, cli[c] = F!Idle
        PROVE  /\ \A j \in ConfigInodes : disk'[j] # Torn => c \notin Tokens(disk'[j])
               /\ \A n \in Mints : Minting(n)' /\ mint'[n].base # Torn => c \notin Tokens(mint'[n].base)
    <3>1. c # m
      BY FilesAreSound DEF F!ConfigAssumption
    <3>2. /\ c \notin Tokens(base)
          /\ \A j \in ConfigInodes : disk[j] # Torn => c \notin Tokens(disk[j])
      BY <1>3, <1>4, <2>2 DEF ConfigInv, TokensAreNew, base
    <3> QED
      BY <1>12, <2>1, <2>2, <3>1, <3>2 DEF ConfigInv, TokensAreNew
  <2>3. ASSUME NEW n \in Mints, mint'[n] # F!Ended
        PROVE  /\ \A j \in ConfigInodes : disk'[j] # Torn => n \notin Tokens(disk'[j])
               /\ \A d \in Clis : Running(d) /\ cli[d].base # Torn => n \notin Tokens(cli[d].base)
               /\ \A k \in Mints : Minting(k)' /\ mint'[k].base # Torn => n \notin Tokens(mint'[k].base)
    <3>1. n # m /\ mint[n] # F!Ended
      BY <1>9, <2>3
    <3>2. /\ n \notin Tokens(base)
          /\ \A j \in ConfigInodes : disk[j] # Torn => n \notin Tokens(disk[j])
      BY <1>3, <1>4, <3>1 DEF ConfigInv, TokensAreNew, base
    <3> QED
      BY <1>12, <2>1, <3>1, <3>2 DEF ConfigInv, TokensAreNew
  <2> QED
    BY <1>13, <2>2, <2>3 DEF ConfigInv, TokensAreNew, Tokens
<1>16. WholeLoads'
  <2>1. \A j \in ConfigInodes : disk'[j] # Torn => F!Loadable(disk'[j])
    BY <1>7, <1>10 DEF ConfigInv, WholeLoads
  <2>2. \A n \in Mints : Minting(n)' /\ mint'[n].base # Torn => F!Loadable(mint'[n].base)
    BY <1>12 DEF ConfigInv, WholeLoads
  <2>3. \A n \in Mints : mint'[n].at = "checked" =>
          F!Loadable(F!Rewritten(mint'[n].cmd, n, mint'[n].base))
    BY <1>9 DEF ConfigInv, WholeLoads, F!Ended
  <2>4. \A c \in Clis : Running(c) /\ cli[c].cmd.kind # "vault" =>
          F!Loadable(F!Rewritten(cli[c].cmd, c, cli[c].base))
    BY DEF ConfigInv, WholeLoads
  <2> QED
    BY <1>13, <2>1, <2>2, <2>3, <2>4 DEF WholeLoads, F!Loadable
<1>17. NeverMixed' = NeverMixed /\ \A c \in Clis : Beside(c)' = Beside(c) /\ InPlace(c)' = InPlace(c)
  BY <1>1 DEF NeverMixed, Beside, InPlace
<1>18. OneWriter'
  <2> SUFFICES ASSUME NeverMixed PROVE OneWriter'
    BY <1>17 DEF OneWriter
  <2>1. \A c \in Clis : Beside(c) => tmp \in ConfigInodes
    <3>1. \A c \in Clis : Beside(c) => cli[c].ino \in ConfigInodes
      BY RunningIsKnown DEF Beside, Fits
    <3> QED
      BY <3>1 DEF ConfigInv, OneWriter
  <2>2. \A c \in Clis : cli[c].at \in {"write", "rename"} => disk'[tmp'] = disk[tmp]
    BY <1>1, <1>8, <1>10, <2>1 DEF Beside
  <2>3. /\ \A c \in Clis : cli'[c].at = "write" => disk'[tmp'] = Torn
        /\ \A c \in Clis : cli'[c].at = "rename" => disk'[tmp'] = F!Rewritten(cli'[c].cmd, c, cli'[c].base)
    BY <1>13, <2>2 DEF ConfigInv, OneWriter
  <2> QED
    BY <1>1, <1>13, <1>17, <2>3 DEF ConfigInv, OneWriter
<1>19. NothingLost'
  <2> SUFFICES ASSUME NeverMixed PROVE NothingLost'
    BY <1>17 DEF NothingLost
  <2>1. \A c \in Clis : InPlace(c)' => cli'[c].ino # config'
    BY <1>1, <1>8, <1>13, <1>17
  <2>2. \A c \in Clis : InPlace(c) => stale'
    <3> SUFFICES ASSUME NEW c \in Clis, InPlace(c) PROVE stale'
      OBVIOUS
    <3>1. CASE cli[c].ino # config
      BY <1>1, <3>1 DEF ConfigInv, NothingLost
    <3>2. CASE cli[c].ino = config
      <4>1. disk[config] = Torn
        BY <3>2 DEF ConfigInv, NothingLost
      <4> QED
        BY <1>1, <1>4, <4>1
    <3> QED
      BY <3>1, <3>2
  <2>3. stale' \/ disk'[config'] = wanted'
    <3> SUFFICES ASSUME ~stale' PROVE disk'[config'] = wanted'
      OBVIOUS
    <3>1. ~stale /\ disk[config] = base /\ \A c \in Clis : ~InPlace(c)
      BY <1>1, <1>4, <2>2 DEF ConfigInv, ConfigTyped
    <3>2. disk[config] = wanted
      BY <3>1 DEF ConfigInv, NothingLost
    <3> QED
      BY <1>1, <1>10, <3>1, <3>2 DEF minted
  <2> QED
    BY <1>1, <1>6, <1>10, <1>17, <2>1, <2>2, <2>3 DEF NothingLost
<1>20. KeyPrecedes'
  <2> SUFFICES ASSUME "vault" \notin mixed PROVE KeyPrecedes'
    BY <1>1 DEF KeyPrecedes
  <2>1. HasKey' = HasKey
    BY <1>1 DEF HasKey, Sealing
  <2>2. base.plane => HasKey
    BY <1>3, <1>4 DEF ConfigInv, KeyPrecedes, base
  <2>3. \A j \in ConfigInodes : disk'[j] # Torn /\ disk'[j].plane => HasKey
    BY <1>6, <1>10, <2>2 DEF ConfigInv, KeyPrecedes
  <2>4. \A n \in Mints : Minting(n)' /\ mint'[n].base # Torn /\ mint'[n].base.plane => HasKey
    BY <1>12 DEF ConfigInv, KeyPrecedes
  <2>5. \A c \in Clis : Running(c)' /\ cli'[c].base # Torn /\ cli'[c].base.plane => HasKey
    BY <1>13 DEF ConfigInv, KeyPrecedes
  <2> QED
    BY <1>1, <2>1, <2>3, <2>4, <2>5 DEF ConfigInv, KeyPrecedes, Sealing, NamesPlane
<1> QED
  BY <1>11, <1>14, <1>15, <1>16, <1>18, <1>19, <1>20 DEF ConfigInv

LEMMA ConfigInvariance ==
  ConfigInv /\ (F!Next \/ UNCHANGED configVars) => ConfigInv'
<1> SUFFICES ASSUME ConfigInv, F!Next, ~F!Start PROVE ConfigInv'
  BY UpKeeps
<1>1. CASE \E c \in Clis : F!Begin(c) \/ F!Load(c) \/ F!Seal(c) \/ F!Sealed(c)
  BY <1>1, BeginKeeps, LoadKeeps, SealKeeps, SealedKeeps
<1>2. CASE \E c \in Clis : F!Open(c) \/ F!Write(c) \/ F!Rename(c)
  BY <1>2, OpenFileKeeps, WriteFileKeeps, RenameFileKeeps
<1>3. CASE \E c \in Clis : F!Truncate(c) \/ F!WriteInPlace(c) \/ F!Die(c)
  BY <1>3, TruncateKeeps, WriteInPlaceKeeps, DieKeeps
<1>4. CASE \E m \in Mints : F!MintRead(m) \/ F!MintCompare(m) \/ F!MintRename(m)
  BY <1>4, MintReadKeeps, MintCompareKeeps, MintRenameKeeps
<1> QED
  BY <1>1, <1>2, <1>3, <1>4, StopKeeps DEF F!Next

LEMMA ConfigHolds == HostSpec => []ConfigInv
<1>1. HostInit => ConfigInv
  BY FilesAreSound, ConfigStarts DEF HostInit
<1>2. ConfigInv /\ [HostNext]_hostVars => ConfigInv'
  <2> SUFFICES ASSUME ConfigInv, [HostNext]_hostVars PROVE ConfigInv'
    OBVIOUS
  <2>1. F!Next \/ UNCHANGED configVars
    BY DEF hostVars, HostNext, OfSocket, OfKillSwitch, OfConfig, OfVault, OfDevice, OfLog, OfStream
  <2> QED
    BY <2>1, ConfigInvariance
<1> QED
  BY <1>1, <1>2, PTL DEF HostSpec

\* grenz.yaml is what the reported changes amount to, one after the other, and loads, for any
\* number of commands, of mints, of agents and of upstreams, wherever a process dies - until a
\* stale copy is written, two commands share a file or `grenz add` is in it
\* (atomic-write.ts, console.ts, rotate.ts, decoy.ts, connect.ts, add.ts).
THEOREM FileStaysKept == HostSpec => []FileIsKept
<1>1. ConfigInv => FileIsKept
  <2> SUFFICES ASSUME ConfigInv PROVE FileIsKept
    OBVIOUS
  <2>1. CASE F!ConfigMixed
    BY <2>1 DEF FileIsKept, F!NothingIsLost, F!StillLoads
  <2>2. CASE ~F!ConfigMixed
    <3>1. NeverMixed /\ \A c \in Clis : ~InPlace(c)
      BY <2>2 DEF F!ConfigMixed, F!Writing, NeverMixed, InPlace
    <3>2. disk[config] # Torn /\ (stale \/ disk[config] = wanted) /\ config \in ConfigInodes
      BY <3>1 DEF ConfigInv, ConfigTyped, NothingLost
    <3>3. F!Loadable(disk[config])
      BY <3>2 DEF ConfigInv, WholeLoads
    <3> QED
      BY <3>2, <3>3 DEF FileIsKept, F!NothingIsLost, F!StillLoads
  <2> QED
    BY <2>1, <2>2
<1> QED
  BY <1>1, ConfigHolds, PTL

\* `grenz connect` polls the plane within the bounds it was given, and grenz.yaml names no
\* plane before the key of it is in the vault, whatever the bounds, the offers and the
\* commands, and wherever one of them stops (device-flow.ts, connect.ts).
THEOREM ConnectStaysSafe == HostSpec => []ConnectIsSafe
<1>1. HostInit => FlowInv
  BY WaitAndWatchAreSound, FlowStarts DEF HostInit
<1>2. FlowInv /\ [HostNext]_hostVars => FlowInv'
  <2> SUFFICES ASSUME FlowInv, [HostNext]_hostVars PROVE FlowInv'
    OBVIOUS
  <2>1. D!Next \/ UNCHANGED flowVars
    BY DEF hostVars, HostNext, OfSocket, OfKillSwitch, OfConfig, OfVault, OfDevice, OfLog, OfStream
  <2> QED
    BY <2>1, WaitAndWatchAreSound, FlowInvariance
<1>3. ConfigInv => F!SourceHasItsToken
  <2> SUFFICES ASSUME ConfigInv, ~F!VaultMixed, disk[config] # Torn, disk[config].plane
               PROVE  OrgKey \in vault
    BY DEF F!SourceHasItsToken
  <2>1. "vault" \notin mixed /\ \A c \in Clis : ~Sealing(c)
    BY DEF F!VaultMixed, F!Writing, Sealing
  <2>2. HasKey
    BY <2>1 DEF ConfigInv, ConfigTyped, KeyPrecedes
  <2> QED
    BY <2>1, <2>2 DEF HasKey
<1>4. FlowInv /\ ConfigInv => ConnectIsSafe
  BY <1>3, WaitAndWatchAreSound, FlowIsPaced DEF ConnectIsSafe
<1> QED
  BY <1>1, <1>2, <1>4, ConfigHolds, PTL DEF HostSpec

-------------------------------------------------------------------------------
(* What watches the log. Every row is counted by the report that closes over it, or, if    *)
(* it was logged in the very instant of a report, by two.                                  *)

Decided == {"allow", "require_approval", "deny"}
Row == [id : Nat, agent : Watched, key : Keys, decision : Decided, ts : Nat]

LogTyped ==
  /\ tick \in Nat /\ through \in Nat /\ through <= tick
  /\ sent \in Seq(Nat) /\ flushes \subseteq Nat
  /\ open \subseteq Row /\ log \subseteq Row /\ IsFiniteSet(log)
  /\ \A r \in open \cup log : r.id \in 1..Len(sent) /\ r.ts <= tick

OneRow ==
  /\ \A r, q \in open : r.id = q.id => r = q
  /\ \A r, q \in log : r.id = q.id => r = q
  /\ \A r \in open, q \in log : r.id # q.id

\* A request in flight is in no report; a report that has passed it by has noted it.
Awaited == \A r \in open : sent[r.id] = 0 /\ (r.ts < through => r.id \in crossed)

\* How often a row was counted, against where the reports have come to.
Fair(r, n, upto, at_, passed) ==
  /\ n \in Nat /\ n <= 2
  /\ n >= 1 => r.ts <= upto /\ (r.ts = upto => r.ts \in at_)
  /\ n = 2 => r.ts < upto /\ r.ts \in at_
  /\ r.ts < upto /\ r.id \notin passed => n >= 1

Reported == \A r \in log : Fair(r, sent[r.id], through, flushes, crossed)

LogInv == LogTyped /\ OneRow /\ Awaited /\ Reported

LEMMA LogStarts == O!Init => LogInv
<1> SUFFICES ASSUME O!Init PROVE LogInv
  OBVIOUS
<1>1. open = {} /\ log = {} /\ tick = 1 /\ through = 1 /\ sent = <<>> /\ flushes = {}
  BY DEF O!Init
<1>2. IsFiniteSet(log)
  BY <1>1, FS_EmptySet
<1>3. LogTyped
  BY <1>1, <1>2 DEF LogTyped
<1> QED
  BY <1>1, <1>3 DEF LogInv, OneRow, Awaited, Reported

LEMMA OpensKeeps ==
  ASSUME LogInv, NEW a \in Watched, NEW k \in Keys, NEW v \in Compared, O!Arrive(a, k, v)
  PROVE  LogInv'
<1> DEFINE n == Len(sent) + 1
           row == [id |-> n, agent |-> a, key |-> k, decision |-> v[1], ts |-> tick]
<1>1. /\ open' = open \cup {row} /\ sent' = Append(sent, 0)
      /\ tick' = tick /\ log' = log /\ through' = through /\ flushes' = flushes /\ crossed' = crossed
  BY DEF O!Arrive
<1>2. /\ tick \in Nat /\ through \in Nat /\ through <= tick
      /\ sent \in Seq(Nat) /\ flushes \subseteq Nat
      /\ open \subseteq Row /\ log \subseteq Row /\ IsFiniteSet(log)
      /\ \A r \in open \cup log : r.id \in 1..Len(sent) /\ r.ts <= tick
  BY DEF LogInv, LogTyped
<1>3. sent' \in Seq(Nat) /\ Len(sent') = n /\ n \in Nat /\ sent'[n] = 0 /\ Len(sent) \in Nat
      /\ \A i \in 1..Len(sent) : sent'[i] = sent[i]
  BY <1>1, <1>2
<1>4. row \in Row
  BY <1>2, <1>3 DEF Row, Decided, Compared
<1>5. row.id = n /\ row.ts = tick
  OBVIOUS
<1> HIDE DEF row, n
<1>6. \A i \in 1..Len(sent) : i \in 1..n /\ i # n
  BY <1>3 DEF n
<1>7. n \in 1..n
  BY <1>3 DEF n
<1>8. LogTyped'
  <2>1. open' \subseteq Row /\ log' \subseteq Row /\ IsFiniteSet(log')
    BY <1>1, <1>2, <1>4
  <2>2. \A r \in open' \cup log' : r.id \in 1..Len(sent') /\ r.ts <= tick'
    BY <1>1, <1>2, <1>3, <1>5, <1>6, <1>7
  <2> QED
    BY <1>1, <1>2, <1>3, <2>1, <2>2 DEF LogTyped
<1>9. OneRow'
  BY <1>1, <1>2, <1>5, <1>6 DEF LogInv, OneRow
<1>10. Awaited'
  <2> SUFFICES ASSUME NEW r \in open' PROVE sent'[r.id] = 0 /\ (r.ts < through => r.id \in crossed)
    BY <1>1 DEF Awaited
  <2>1. CASE r = row
    BY <1>2, <1>3, <1>5, <2>1
  <2>2. CASE r \in open
    BY <1>2, <1>3, <2>2 DEF LogInv, Awaited
  <2> QED
    BY <1>1, <2>1, <2>2
<1>11. Reported'
  <2> SUFFICES ASSUME NEW r \in log PROVE Fair(r, sent'[r.id], through, flushes, crossed)
    BY <1>1 DEF Reported, Fair
  <2>1. sent'[r.id] = sent[r.id]
    BY <1>2, <1>3
  <2> QED
    BY <2>1 DEF LogInv, Reported
<1> QED
  BY <1>8, <1>9, <1>10, <1>11 DEF LogInv

LEMMA LogsKeeps ==
  ASSUME LogInv, NEW request \in open, NEW decision \in Decided, O!Log(request, decision)
  PROVE  LogInv'
<1> DEFINE row == [request EXCEPT !.decision = decision]
<1>1. /\ open' = open \ {request} /\ log' = log \cup {row}
      /\ tick' = tick /\ sent' = sent /\ through' = through /\ flushes' = flushes /\ crossed' = crossed
  BY DEF O!Log
<1>2. request \in Row
  BY DEF LogInv, LogTyped
<1>3. row \in Row /\ row.id = request.id /\ row.ts = request.ts
  BY <1>2 DEF Row
<1> HIDE DEF row
<1>4. LogTyped'
  <2>1. IsFiniteSet(log')
    BY <1>1, FS_AddElement DEF LogInv, LogTyped
  <2>2. \A r \in open' \cup log' : r.id \in 1..Len(sent') /\ r.ts <= tick'
    BY <1>1, <1>3 DEF LogInv, LogTyped
  <2> QED
    BY <1>1, <1>3, <2>1, <2>2 DEF LogInv, LogTyped
<1>5. OneRow'
  BY <1>1, <1>3 DEF LogInv, OneRow
<1>6. Awaited'
  BY <1>1 DEF LogInv, Awaited
<1>7. Reported'
  <2> SUFFICES ASSUME NEW r \in log' PROVE Fair(r, sent[r.id], through, flushes, crossed)
    BY <1>1 DEF Reported, Fair
  <2>1. CASE r = row
    BY <1>3, <2>1 DEF LogInv, Awaited, Fair
  <2>2. CASE r \in log
    BY <2>2 DEF LogInv, Reported
  <2> QED
    BY <1>1, <2>1, <2>2
<1> QED
  BY <1>4, <1>5, <1>6, <1>7 DEF LogInv

LEMMA FlushKeeps == ASSUME LogInv, O!Flush PROVE LogInv'
<1>1. /\ tick \notin flushes
      /\ sent' = [i \in O!RequestIds |-> IF i \in O!Counted(through) THEN sent[i] + 1 ELSE sent[i]]
      /\ through' = tick /\ flushes' = flushes \cup {tick}
      /\ crossed' = crossed \cup {r.id : r \in {q \in open : q.ts < tick}}
      /\ tick' = tick /\ open' = open /\ log' = log
  BY DEF O!Flush
<1>2. /\ tick \in Nat /\ through \in Nat /\ through <= tick
      /\ sent \in Seq(Nat) /\ flushes \subseteq Nat
      /\ open \subseteq Row /\ log \subseteq Row /\ IsFiniteSet(log)
      /\ \A r \in open \cup log : r.id \in 1..Len(sent) /\ r.ts <= tick
  BY DEF LogInv, LogTyped
<1>3. /\ sent' \in Seq(Nat) /\ Len(sent') = Len(sent)
      /\ \A i \in 1..Len(sent) : sent'[i] = IF i \in O!Counted(through) THEN sent[i] + 1 ELSE sent[i]
  <2>1. Len(sent) \in Nat /\ \A i \in 1..Len(sent) : sent[i] \in Nat
    BY <1>2
  <2>2. sent' \in [1..Len(sent) -> Nat]
    BY <1>1, <2>1 DEF O!RequestIds
  <2> QED
    BY <1>1, <2>1, <2>2 DEF O!RequestIds
<1>4. ASSUME NEW r \in log PROVE r.id \in O!Counted(through) <=> r.ts >= through
  <2>1. ASSUME r.id \in O!Counted(through) PROVE r.ts >= through
    <3>1. PICK q \in log : q.ts >= through /\ q.id = r.id
      BY <2>1 DEF O!Counted
    <3> QED
      BY <3>1 DEF LogInv, OneRow
  <2>2. ASSUME r.ts >= through PROVE r.id \in O!Counted(through)
    BY <2>2 DEF O!Counted
  <2> QED
    BY <2>1, <2>2
<1>5. ASSUME NEW r \in open PROVE r.id \notin O!Counted(through)
  BY DEF LogInv, OneRow, O!Counted
<1>6. LogTyped'
  <2>1. flushes' \subseteq Nat /\ through' \in Nat /\ through' <= tick' /\ tick' \in Nat
    BY <1>1, <1>2
  <2>2. \A r \in open' \cup log' : r.id \in 1..Len(sent') /\ r.ts <= tick'
    BY <1>1, <1>2, <1>3
  <2> QED
    BY <1>1, <1>2, <1>3, <2>1, <2>2 DEF LogTyped
<1>7. OneRow'
  BY <1>1 DEF LogInv, OneRow
<1>8. Awaited'
  <2> SUFFICES ASSUME NEW r \in open PROVE sent'[r.id] = 0 /\ (r.ts < tick => r.id \in crossed')
    BY <1>1 DEF Awaited
  <2> QED
    BY <1>1, <1>2, <1>3, <1>5 DEF LogInv, Awaited
<1>9. Reported'
  <2> SUFFICES ASSUME NEW r \in log PROVE Fair(r, sent'[r.id], tick, flushes', crossed')
    BY <1>1 DEF Reported, Fair
  <2>1. r.ts \in Nat /\ r.ts <= tick /\ r.id \in 1..Len(sent)
    BY <1>2 DEF Row
  <2>2. Fair(r, sent[r.id], through, flushes, crossed)
    BY DEF LogInv, Reported
  <2>3. crossed \subseteq crossed' /\ flushes' = flushes \cup {tick} /\ tick \notin flushes
    BY <1>1
  <2>4. CASE r.ts >= through
    <3>1. sent'[r.id] = sent[r.id] + 1
      BY <1>3, <1>4, <2>1, <2>4
    <3>2. tick \in Nat /\ through \in Nat /\ through <= tick
      BY <1>2
    <3>3. sent[r.id] \in Nat /\ sent[r.id] <= 1 /\ (sent[r.id] = 1 => r.ts = through /\ r.ts \in flushes)
      BY <2>1, <2>2, <2>4, <3>2 DEF Fair
    <3>4. sent[r.id] = 1 => r.ts < tick /\ r.ts \in flushes'
      BY <2>1, <2>3, <3>2, <3>3
    <3>5. sent'[r.id] \in Nat /\ sent'[r.id] <= 2 /\ sent'[r.id] >= 1
      BY <3>1, <3>3
    <3>6. sent'[r.id] = 2 => sent[r.id] = 1
      BY <3>1, <3>3
    <3> QED
      BY <2>1, <2>3, <3>2, <3>4, <3>5, <3>6 DEF Fair
  <2>5. CASE ~(r.ts >= through)
    <3>1. sent'[r.id] = sent[r.id]
      BY <1>3, <1>4, <2>1, <2>5
    <3> QED
      BY <1>2, <2>1, <2>2, <2>3, <2>5, <3>1 DEF Fair
  <2> QED
    BY <2>4, <2>5
<1> QED
  BY <1>6, <1>7, <1>8, <1>9 DEF LogInv

LEMMA RestartKeeps == ASSUME LogInv, O!Restart PROVE LogInv'
<1>1. /\ open' = {} /\ through' = tick /\ crossed' = O!RequestIds
      /\ tick' = tick /\ log' = log /\ sent' = sent /\ flushes' = flushes
  BY DEF O!Restart
<1>2. LogTyped' /\ OneRow' /\ Awaited'
  BY <1>1 DEF LogInv, LogTyped, OneRow, Awaited
<1>3. Reported'
  <2> SUFFICES ASSUME NEW r \in log PROVE Fair(r, sent[r.id], tick, flushes, crossed')
    BY <1>1 DEF Reported, Fair
  <2>1. /\ r.ts \in Nat /\ r.ts <= tick /\ r.id \in crossed' /\ tick \in Nat /\ through \in Nat /\ through <= tick
        /\ Fair(r, sent[r.id], through, flushes, crossed)
    BY <1>1 DEF LogInv, LogTyped, Reported, O!RequestIds, Row
  <2> QED
    BY <2>1 DEF Fair
<1> QED
  BY <1>2, <1>3 DEF LogInv

LEMMA OthersKeepTheLog ==
  ASSUME LogInv, O!CheckRisk \/ O!Tick \/ UNCHANGED watchVars
  PROVE  LogInv'
<1>1. /\ tick \in Nat => tick' \in Nat /\ tick <= tick'
      /\ open' = open /\ log' = log /\ through' = through /\ sent' = sent /\ flushes' = flushes /\ crossed' = crossed
  BY DEF O!CheckRisk, O!Tick, watchVars
<1>2. /\ tick \in Nat /\ through \in Nat /\ through <= tick
      /\ log \subseteq Row /\ open \subseteq Row
      /\ \A r \in open \cup log : r.id \in 1..Len(sent) /\ r.ts <= tick
  BY DEF LogInv, LogTyped
<1>3. LogTyped'
  <2>1. \A r \in open \cup log : r.ts \in Nat
    BY <1>2 DEF Row
  <2>2. \A r \in open \cup log : r.id \in 1..Len(sent) /\ r.ts <= tick'
    BY <1>1, <1>2, <2>1
  <2> QED
    BY <1>1, <1>2, <2>2 DEF LogInv, LogTyped
<1>4. OneRow' /\ Awaited' /\ Reported'
  BY <1>1 DEF LogInv, OneRow, Awaited, Reported, Fair
<1> QED
  BY <1>3, <1>4 DEF LogInv

LEMMA LogInvariance == ASSUME LogInv, O!Next \/ UNCHANGED watchVars PROVE LogInv'
<1>1. ASSUME NEW a \in Watched, NEW k \in Keys, NEW v \in Compared, O!Arrive(a, k, v) PROVE LogInv'
  BY <1>1, OpensKeeps
<1>2. ASSUME NEW request \in open, O!Log(request, request.decision) \/ O!Log(request, "deny") PROVE LogInv'
  <2>1. request.decision \in Decided /\ "deny" \in Decided
    BY DEF LogInv, LogTyped, Row, Decided
  <2> QED
    BY <1>2, <2>1, LogsKeeps
<1> QED
  BY <1>1, <1>2, FlushKeeps, RestartKeeps, OthersKeepTheLog DEF O!Next

LEMMA LogIsCounted == LogInv => O!CountedOnce
<1> SUFFICES ASSUME LogInv, NEW r \in log
             PROVE  /\ r.ts < through /\ r.id \notin crossed => sent[r.id] >= 1
                    /\ sent[r.id] > 1 => sent[r.id] = 2 /\ r.ts \in flushes
  BY DEF O!CountedOnce
<1> QED
  BY DEF LogInv, Reported, Fair

-------------------------------------------------------------------------------
(* The candidate policy: the cells are what was seen, key by key, until there is no room. *)

Cell == [key : Keys, live : Decided, candidate : Decided, count : Nat]
Sight == [key : Keys, live : Decided, candidate : Decided]

Differs(o) == o.live # o.candidate
Seen == {i \in DOMAIN observed : Differs(observed[i])}
Of(c) == {i \in Seen : O!SameCell(observed[i], c.key, c.live, c.candidate)}

CanaryTyped ==
  /\ observed \in Seq(Sight)
  /\ canary \in [requests : Nat, divergences : Nat, cells : SUBSET Cell]
  /\ IsFiniteSet(canary.cells)

CellsCount ==
  /\ canary.requests = Len(observed) /\ canary.divergences = Cardinality(Seen)
  /\ \A c \in canary.cells : c.live # c.candidate /\ c.count = Cardinality(Of(c))
  /\ \A c, d \in canary.cells : O!SameCell(c, d.key, d.live, d.candidate) => c = d
  /\ Cardinality(canary.cells) < MaxKeys => \A i \in Seen : \E c \in canary.cells : i \in Of(c)

CanaryInv == CanaryTyped /\ CellsCount

LEMMA SameCount == \A S : O!Cardinality(S) = Cardinality(S)
  BY DEF O!Cardinality, Cardinality

LEMMA SeenIsFinite ==
  ASSUME observed \in Seq(Sight)
  PROVE  /\ IsFiniteSet(Seen) /\ Cardinality(Seen) \in Nat
         /\ \A c : IsFiniteSet(Of(c)) /\ Cardinality(Of(c)) \in Nat
<1>1. Len(observed) \in Nat /\ DOMAIN observed = 1..Len(observed)
  OBVIOUS
<1>2. IsFiniteSet(1..Len(observed))
  BY <1>1, FS_Interval
<1>3. Seen \subseteq 1..Len(observed) /\ \A c : Of(c) \subseteq Seen
  BY <1>1 DEF Seen, Of
<1>4. IsFiniteSet(Seen)
  BY <1>2, <1>3, FS_Subset
<1>5. \A c : IsFiniteSet(Of(c))
  BY <1>3, <1>4, FS_Subset
<1> QED
  BY <1>4, <1>5, FS_CardinalityType

LEMMA CanaryStarts ==
  ASSUME canary = O!Silent, observed = <<>>
  PROVE  CanaryInv
<1>1. Seen = {}
  BY DEF Seen
<1>2. canary = [requests |-> 0, divergences |-> 0, cells |-> {}]
  BY DEF O!Silent
<1> QED
  BY <1>1, <1>2, FS_EmptySet DEF CanaryInv, CanaryTyped, CellsCount

\* One more is seen: whether it differs, and which cell it is of.
LEMMA OneMoreSeen ==
  ASSUME observed \in Seq(Sight), NEW o \in Sight, observed' = Append(observed, o)
  PROVE  LET n == Len(observed) + 1 IN
         /\ observed' \in Seq(Sight) /\ Len(observed') = n /\ n \notin Seen
         /\ ~Differs(o) => Seen' = Seen
         /\ Differs(o) => Seen' = Seen \cup {n}
         /\ \A c : IF Differs(o) /\ O!SameCell(o, c.key, c.live, c.candidate) THEN Of(c)' = Of(c) \cup {n} ELSE Of(c)' = Of(c)
<1> DEFINE n == Len(observed) + 1
<1>1. /\ observed' \in Seq(Sight) /\ Len(observed') = n /\ DOMAIN observed' = 1..n /\ n \in Nat
      /\ DOMAIN observed = 1..(n - 1) /\ observed'[n] = o /\ \A i \in 1..(n - 1) : observed'[i] = observed[i]
  OBVIOUS
<1> HIDE DEF n
<1>2. \A i : i \in DOMAIN observed' <=> (i \in DOMAIN observed \/ i = n)
  BY <1>1
<1>3. n \notin DOMAIN observed
  BY <1>1
<1>4. Seen' = {i \in DOMAIN observed' : Differs(observed'[i])}
  BY DEF Seen, Differs
<1>5. Seen' = IF Differs(o) THEN Seen \cup {n} ELSE Seen
  BY <1>1, <1>2, <1>3, <1>4 DEF Seen
<1>6. ASSUME NEW c
      PROVE  Of(c)' = IF Differs(o) /\ O!SameCell(o, c.key, c.live, c.candidate) THEN Of(c) \cup {n} ELSE Of(c)
  <2>1. Of(c)' = {i \in Seen' : O!SameCell(observed'[i], c.key, c.live, c.candidate)}
    BY DEF Of, O!SameCell
  <2> QED
    BY <1>1, <1>5, <2>1 DEF Of, Seen
<1>7. n \notin Seen
  BY <1>3 DEF Seen
<1> QED
  BY <1>1, <1>5, <1>6, <1>7 DEF n

LEMMA CellsKeep ==
  ASSUME CanaryInv, NEW o \in Sight, observed' = Append(observed, o),
         canary' = O!Observe(canary, o.key, o.live, o.candidate), MaxKeys \in Nat
  PROVE  CanaryInv'
<1> DEFINE cells == canary.cells
           alike(c) == O!SameCell(c, o.key, o.live, o.candidate)
           known == {c \in cells : alike(c)}
           bump(c) == [c EXCEPT !.count = @ + 1]
           moved(c) == IF c \in known THEN bump(c) ELSE c
           fresh == [key |-> o.key, live |-> o.live, candidate |-> o.candidate, count |-> 1]
           n == Len(observed) + 1
<1>1. /\ observed \in Seq(Sight) /\ canary \in [requests : Nat, divergences : Nat, cells : SUBSET Cell]
      /\ IsFiniteSet(cells) /\ cells \subseteq Cell
      /\ canary.requests = Len(observed) /\ canary.divergences = Cardinality(Seen)
      /\ \A c \in cells : Differs(c) /\ c.count = Cardinality(Of(c))
      /\ \A c, d \in cells : O!SameCell(c, d.key, d.live, d.candidate) => c = d
      /\ Cardinality(cells) < MaxKeys => \A i \in Seen : \E c \in cells : i \in Of(c)
  BY DEF CanaryInv, CanaryTyped, CellsCount, Differs
<1>2. /\ observed' \in Seq(Sight) /\ Len(observed') = n /\ n \notin Seen
      /\ ~Differs(o) => Seen' = Seen
      /\ Differs(o) => Seen' = Seen \cup {n}
      /\ \A c : IF Differs(o) /\ O!SameCell(o, c.key, c.live, c.candidate) THEN Of(c)' = Of(c) \cup {n} ELSE Of(c)' = Of(c)
  BY <1>1, OneMoreSeen
<1>3. /\ IsFiniteSet(Seen) /\ Cardinality(Seen) \in Nat
      /\ \A c : IsFiniteSet(Of(c)) /\ Cardinality(Of(c)) \in Nat
  BY <1>1, SeenIsFinite
<1>4. \A c : n \notin Of(c)
  BY <1>2 DEF Of
<1>5. \A c : O!SameCell(o, c.key, c.live, c.candidate) <=> alike(c)
  BY DEF O!SameCell
<1>6. /\ canary'.requests = canary.requests + 1
      /\ canary'.divergences = canary.divergences + (IF Differs(o) THEN 1 ELSE 0)
      /\ canary'.cells = IF ~Differs(o) THEN cells
                         ELSE IF known # {} THEN {moved(c) : c \in cells}
                         ELSE IF Cardinality(cells) >= MaxKeys THEN cells ELSE cells \cup {fresh}
      /\ canary' = [requests |-> canary'.requests, divergences |-> canary'.divergences, cells |-> canary'.cells]
  BY SameCount DEF O!Observe, Differs
<1>7. /\ Cardinality(Seen \cup {n}) = Cardinality(Seen) + 1
      /\ \A c : Cardinality(Of(c) \cup {n}) = Cardinality(Of(c)) + 1
  BY <1>2, <1>3, <1>4, FS_AddElement
<1>8. canary'.requests = Len(observed') /\ canary'.requests \in Nat
  BY <1>1, <1>2, <1>6
<1>9. canary'.divergences = Cardinality(Seen') /\ canary'.divergences \in Nat
  <2>1. CASE Differs(o)
    <3>1. Seen' = Seen \cup {n}
      BY <1>2, <2>1
    <3>2. Cardinality(Seen') = Cardinality(Seen) + 1
      BY <1>7, <3>1
    <3>3. canary'.divergences = canary.divergences + 1
      BY <1>6, <2>1
    <3> QED
      BY <1>1, <1>3, <3>2, <3>3
  <2>2. CASE ~Differs(o)
    BY <1>1, <1>2, <1>3, <1>6, <2>2
  <2> QED
    BY <2>1, <2>2
<1>10. IsFiniteSet(cells) /\ Cardinality(cells) \in Nat
  BY <1>1, FS_CardinalityType
<1> DEFINE Good(S) ==
      /\ IsFiniteSet(S) /\ S \subseteq Cell
      /\ \A c \in S : c.live # c.candidate /\ c.count = Cardinality(Of(c)')
      /\ \A c, d \in S : O!SameCell(c, d.key, d.live, d.candidate) => c = d
      /\ Cardinality(S) < MaxKeys => \A i \in Seen' : \E c \in S : i \in Of(c)'
<1>11. SUFFICES Good(canary'.cells)
  <2>1. CanaryTyped'
    <3>1. canary'.cells \in SUBSET Cell
      BY <1>11
    <3>2. canary' \in [requests : Nat, divergences : Nat, cells : SUBSET Cell]
      BY <1>6, <1>8, <1>9, <3>1
    <3> QED
      BY <1>2, <1>11, <3>2 DEF CanaryTyped
  <2>2. CellsCount'
    BY <1>8, <1>9, <1>11 DEF CellsCount, O!SameCell
  <2> QED
    BY <2>1, <2>2 DEF CanaryInv
<1> HIDE DEF n, fresh, Good
<1>12. CASE ~Differs(o)
  <2>1. canary'.cells = cells
    BY <1>6, <1>12
  <2>2. Seen' = Seen /\ \A c : Of(c)' = Of(c)
    BY <1>2, <1>12
  <2>3. Good(cells)
    BY <1>1, <2>2 DEF Good, Differs
  <2> QED
    BY <2>1, <2>3
<1>13. CASE Differs(o) /\ known # {}
  <2> DEFINE T == {moved(c) : c \in cells}
             f == [c \in cells |-> moved(c)]
  <2>1. canary'.cells = T /\ Seen' = Seen \cup {n}
    BY <1>2, <1>6, <1>13
  <2>2. ASSUME NEW c \in cells
        PROVE  /\ moved(c) \in Cell /\ moved(c).key = c.key /\ moved(c).live = c.live /\ moved(c).candidate = c.candidate
               /\ moved(c).count = IF alike(c) THEN c.count + 1 ELSE c.count
    BY <1>1 DEF Cell
  <2>3. \A c, e : e.key = c.key /\ e.live = c.live /\ e.candidate = c.candidate => Of(e)' = Of(c)'
    BY DEF Of, O!SameCell
  <2> HIDE DEF moved
  <2>4. IsFiniteSet(T) /\ Cardinality(T) = Cardinality(cells)
    <3>1. f \in Surjection(cells, T)
      BY DEF Surjection
    <3>2. \A a, b \in cells : f[a] = f[b] => a = b
      BY <1>1, <2>2 DEF O!SameCell
    <3>3. f \in Injection(cells, T)
      BY <3>2 DEF Injection, IsInjective
    <3> HIDE DEF f
    <3> QED
      BY <1>10, <3>1, <3>3, FS_Surjection
  <2>5. T \subseteq Cell
    BY <2>2
  <2>6. ASSUME NEW c \in T PROVE c.live # c.candidate /\ c.count = Cardinality(Of(c)')
    <3>1. PICK b \in cells : c = moved(b)
      OBVIOUS
    <3>2. b.live # b.candidate /\ b.count = Cardinality(Of(b))
      BY <1>1 DEF Differs
    <3>3. Of(c)' = Of(b)'
      BY <2>2, <2>3, <3>1
    <3>4. Of(b)' = IF alike(b) THEN Of(b) \cup {n} ELSE Of(b)
      BY <1>2, <1>5, <1>13
    <3> QED
      BY <1>7, <2>2, <3>1, <3>2, <3>3, <3>4
  <2>7. \A c, d \in T : O!SameCell(c, d.key, d.live, d.candidate) => c = d
    BY <1>1, <2>2 DEF O!SameCell
  <2>8. ASSUME Cardinality(T) < MaxKeys, NEW i \in Seen' PROVE \E c \in T : i \in Of(c)'
    <3>1. CASE i = n
      <4>1. PICK b \in cells : alike(b)
        BY <1>13
      <4>2. n \in Of(b)'
        BY <1>2, <1>5, <1>13, <4>1
      <4>3. PICK e \in T : e = moved(b)
        OBVIOUS
      <4>4. Of(e)' = Of(b)'
        BY <2>2, <2>3, <4>3
      <4> QED
        BY <3>1, <4>2, <4>4
    <3>2. CASE i \in Seen
      <4>1. PICK b \in cells : i \in Of(b)
        BY <1>1, <2>4, <2>8, <3>2
      <4>2. i \in Of(b)'
        BY <1>2, <4>1
      <4>3. PICK e \in T : e = moved(b)
        OBVIOUS
      <4>4. Of(e)' = Of(b)'
        BY <2>2, <2>3, <4>3
      <4> QED
        BY <4>2, <4>4
    <3> QED
      BY <2>1, <3>1, <3>2
  <2>9. Good(T)
    BY <2>4, <2>5, <2>6, <2>7, <2>8 DEF Good
  <2> QED
    BY <2>1, <2>9
<1>14. CASE Differs(o) /\ known = {} /\ Cardinality(cells) >= MaxKeys
  <2>1. canary'.cells = cells
    BY <1>6, <1>14
  <2>2. \A c \in cells : Of(c)' = Of(c)
    BY <1>2, <1>5, <1>14
  <2>3. Good(cells)
    BY <1>1, <1>10, <1>14, <2>2 DEF Good, Differs
  <2> QED
    BY <2>1, <2>3
<1>15. CASE Differs(o) /\ known = {} /\ ~(Cardinality(cells) >= MaxKeys)
  <2>1. canary'.cells = cells \cup {fresh} /\ Seen' = Seen \cup {n}
    BY <1>2, <1>6, <1>15
  <2>2. \A c \in cells : ~alike(c) /\ Of(c)' = Of(c)
    BY <1>2, <1>5, <1>15
  <2>3. fresh \in Cell /\ fresh.key = o.key /\ fresh.live = o.live /\ fresh.candidate = o.candidate /\ fresh.count = 1
    BY DEF fresh, Cell, Sight
  <2>4. alike(fresh) /\ fresh \notin cells
    BY <2>2, <2>3 DEF O!SameCell
  <2>5. IsFiniteSet(cells \cup {fresh}) /\ Cardinality(cells \cup {fresh}) = Cardinality(cells) + 1
    BY <1>10, <2>4, FS_AddElement
  <2>6. Of(fresh) = {}
    <3>1. ASSUME NEW i \in Of(fresh) PROVE FALSE
      <4>1. PICK c \in cells : i \in Of(c)
        BY <1>1, <1>10, <1>15, <3>1 DEF Of
      <4>2. alike(c)
        BY <2>3, <3>1, <4>1 DEF Of, O!SameCell
      <4> QED
        BY <2>2, <4>2
    <3> QED
      BY <3>1
  <2>7. Of(fresh)' = {n}
    BY <1>2, <1>5, <1>15, <2>4, <2>6
  <2>8. \A c \in cells \cup {fresh} : c.live # c.candidate /\ c.count = Cardinality(Of(c)')
    BY <1>1, <1>15, <2>2, <2>3, <2>7, FS_Singleton DEF Differs
  <2>9. \A c, d \in cells \cup {fresh} : O!SameCell(c, d.key, d.live, d.candidate) => c = d
    BY <1>1, <2>2, <2>3 DEF O!SameCell
  <2>10. ASSUME Cardinality(cells \cup {fresh}) < MaxKeys, NEW i \in Seen'
         PROVE  \E c \in cells \cup {fresh} : i \in Of(c)'
    <3>1. CASE i = n
      BY <2>7, <3>1
    <3>2. CASE i \in Seen
      <4>1. PICK b \in cells : i \in Of(b)
        BY <1>1, <1>10, <1>15, <3>2
      <4> QED
        BY <2>2, <4>1
    <3> QED
      BY <2>1, <3>1, <3>2
  <2>11. Good(cells \cup {fresh})
    BY <1>1, <2>3, <2>5, <2>8, <2>9, <2>10 DEF Good
  <2> QED
    BY <2>1, <2>11
<1> QED
  BY <1>12, <1>13, <1>14, <1>15

LEMMA CanaryInvariance ==
  ASSUME CanaryInv, O!ObserverAssumption, O!Next \/ UNCHANGED watchVars
  PROVE  CanaryInv'
<1>1. ASSUME NEW a \in Watched, NEW k \in Keys, NEW v \in Compared, O!Arrive(a, k, v) PROVE CanaryInv'
  <2> DEFINE o == [key |-> k, live |-> v[1], candidate |-> v[2]]
  <2>1. o \in Sight /\ o.key = k /\ o.live = v[1] /\ o.candidate = v[2]
    BY DEF Sight, Decided, Compared
  <2>2. observed' = Append(observed, o) /\ canary' = O!Observe(canary, k, v[1], v[2])
    BY <1>1 DEF O!Arrive
  <2>3. MaxKeys \in Nat
    BY DEF O!ObserverAssumption
  <2> HIDE DEF o
  <2>4. canary' = O!Observe(canary, o.key, o.live, o.candidate)
    BY <2>1, <2>2
  <2> QED
    BY <2>1, <2>2, <2>3, <2>4, CellsKeep
<1>2. ASSUME canary' = canary, observed' = observed PROVE CanaryInv'
  BY <1>2 DEF CanaryInv, CanaryTyped, CellsCount, Seen, Of, Differs, O!SameCell
<1>3. ASSUME NEW request \in open, O!Log(request, request.decision) \/ O!Log(request, "deny") PROVE CanaryInv'
  BY <1>2, <1>3 DEF O!Log
<1>4. ASSUME O!Flush \/ O!CheckRisk \/ O!Tick \/ UNCHANGED watchVars PROVE CanaryInv'
  BY <1>2, <1>4 DEF O!Flush, O!CheckRisk, O!Tick, watchVars
<1>5. ASSUME O!Restart PROVE CanaryInv'
  <2>1. canary' = O!Silent /\ observed' = <<>>
    BY <1>5 DEF O!Restart
  <2>2. Seen' = {}
    BY <2>1 DEF Seen
  <2>3. canary' = [requests |-> 0, divergences |-> 0, cells |-> {}]
    BY <2>1 DEF O!Silent
  <2> QED
    BY <2>1, <2>2, <2>3, FS_EmptySet DEF CanaryInv, CanaryTyped, CellsCount
<1> QED
  BY <1>1, <1>3, <1>4, <1>5 DEF O!Next

LEMMA CanaryReports == CanaryInv /\ O!ObserverAssumption => O!CanaryIsHonest
<1> SUFFICES ASSUME CanaryInv, O!ObserverAssumption PROVE O!CanaryIsHonest
  OBVIOUS
<1> DEFINE seen == {i \in DOMAIN observed : observed[i].live # observed[i].candidate}
           of(c) == {i \in seen : O!SameCell(observed[i], c.key, c.live, c.candidate)}
           report == O!Report(canary)
<1>1. seen = Seen /\ \A c : of(c) = Of(c)
  BY DEF Seen, Of, Differs
<1>2. /\ canary \in [requests : Nat, divergences : Nat, cells : SUBSET Cell] /\ IsFiniteSet(canary.cells)
      /\ canary.requests = Len(observed) /\ canary.divergences = Cardinality(Seen)
      /\ \A c \in canary.cells : c.live # c.candidate /\ c.count = Cardinality(Of(c))
      /\ Cardinality(canary.cells) < MaxKeys => \A i \in Seen : \E c \in canary.cells : i \in Of(c)
      /\ IsFiniteSet(Seen)
  BY SeenIsFinite DEF CanaryInv, CanaryTyped, CellsCount
<1>3. Cardinality(canary.cells) < MaxKeys => UNION {Of(c) : c \in canary.cells} = Seen
  BY <1>2 DEF Of
<1>4. (canary.divergences = 0 \/ canary.cells = {}) = (Seen = {})
  <2>1. canary.divergences = 0 <=> Seen = {}
    BY <1>2, FS_EmptySet
  <2>2. canary.cells = {} => Seen = {}
    BY <1>2, FS_EmptySet DEF O!ObserverAssumption
  <2> QED
    BY <2>1, <2>2
<1>5. \A c \in canary.cells : O!Restrictive(c.candidate) <= O!Restrictive(c.live)
        => O!Restrictive(c.candidate) < O!Restrictive(c.live)
  <2> SUFFICES ASSUME NEW c \in canary.cells
               PROVE  O!Restrictive(c.candidate) <= O!Restrictive(c.live) => O!Restrictive(c.candidate) < O!Restrictive(c.live)
    OBVIOUS
  <2>1. c.live \in Decided /\ c.candidate \in Decided /\ c.live # c.candidate
    BY <1>2 DEF Cell
  <2> QED
    BY <2>1 DEF Decided, O!Restrictive
<1>6. /\ report.clean = (canary.divergences = 0 \/ canary.cells = {})
      /\ report.widens = {c \in canary.cells : O!Restrictive(c.candidate) <= O!Restrictive(c.live)}
  BY DEF O!Report
<1>7. /\ report.clean = (seen = {})
      /\ \A c \in report.widens : O!Restrictive(c.candidate) < O!Restrictive(c.live)
  BY <1>1, <1>4, <1>5, <1>6
<1>8. /\ canary.requests = Len(observed) /\ canary.divergences = O!Cardinality(seen)
      /\ \A c \in canary.cells : c.count = O!Cardinality(of(c))
      /\ O!Cardinality(canary.cells) < MaxKeys => UNION {of(c) : c \in canary.cells} = seen
  <2>1. {of(c) : c \in canary.cells} = {Of(c) : c \in canary.cells}
    BY <1>1
  <2>2. UNION {of(c) : c \in canary.cells} = UNION {Of(c) : c \in canary.cells}
    BY <2>1
  <2> HIDE DEF seen, of
  <2> QED
    BY <1>1, <1>2, <1>3, <2>2, SameCount
<1> HIDE DEF seen, of, report
<1> QED
  BY <1>7, <1>8 DEF O!CanaryIsHonest, seen, of, report

-------------------------------------------------------------------------------
(* The alerts: what was told last of an agent is what was found last, and one more refusal *)
(* never lowers a score.                                                                   *)

Levels == {"low", "elevated", "high"}

ToldInv ==
  /\ levels \in [Watched -> Levels] /\ told \in [Watched -> Seq(Levels)]
  /\ \A a \in Watched :
       /\ levels[a] = (IF told[a] = <<>> THEN "low" ELSE told[a][Len(told[a])])
       /\ \A i \in 2..Len(told[a]) : told[a][i] # told[a][i - 1]

LEMMA NobodyTold ==
  ASSUME levels' = [a \in Watched |-> "low"], told' = [a \in Watched |-> <<>>]
  PROVE  ToldInv'
<1>1. levels' \in [Watched -> Levels] /\ told' \in [Watched -> Seq(Levels)]
  BY DEF Levels
<1>2. \A a \in Watched : levels'[a] = "low" /\ told'[a] = <<>> /\ Len(told'[a]) = 0
  OBVIOUS
<1> QED
  BY <1>1, <1>2 DEF ToldInv

LEMMA CheckTells == ASSUME ToldInv, O!CheckRisk PROVE ToldInv'
<1> DEFINE found == [a \in Watched |-> O!Level(O!Activity(log, a, O!Since(RiskWindow)))]
<1>1. levels' = found /\ found \in [Watched -> Levels]
  BY DEF O!CheckRisk, O!Level, Levels
<1>2. told' = [a \in Watched |->
        IF found[a] = "low" THEN <<>> ELSE IF found[a] # levels[a] THEN Append(told[a], found[a]) ELSE told[a]]
  BY DEF O!CheckRisk
<1> HIDE DEF found
<1>3. ASSUME NEW a \in Watched
      PROVE  /\ told'[a] \in Seq(Levels)
             /\ levels'[a] = (IF told'[a] = <<>> THEN "low" ELSE told'[a][Len(told'[a])])
             /\ \A i \in 2..Len(told'[a]) : told'[a][i] # told'[a][i - 1]
  <2> DEFINE was == told[a]
             is == told'[a]
  <2>1. /\ was \in Seq(Levels) /\ Len(was) \in Nat /\ found[a] \in Levels
        /\ levels[a] = (IF was = <<>> THEN "low" ELSE was[Len(was)])
        /\ \A i \in 2..Len(was) : was[i] # was[i - 1]
        /\ levels'[a] = found[a]
    BY <1>1 DEF ToldInv
  <2>2. is = IF found[a] = "low" THEN <<>> ELSE IF found[a] # levels[a] THEN Append(was, found[a]) ELSE was
    BY <1>2
  <2> HIDE DEF was, is
  <2>3. CASE found[a] = "low"
    <3>1. is = <<>> /\ Len(is) = 0
      BY <2>2, <2>3
    <3> QED
      BY <2>1, <2>3, <3>1 DEF is
  <2>4. CASE found[a] # "low" /\ found[a] # levels[a]
    <3>1. is = Append(was, found[a])
      BY <2>2, <2>4
    <3>2. /\ is \in Seq(Levels) /\ Len(is) = Len(was) + 1 /\ is[Len(was) + 1] = found[a]
          /\ \A i \in 1..Len(was) : is[i] = was[i]
      BY <2>1, <3>1
    <3>3. is # <<>>
      BY <2>1, <3>2
    <3>4. ASSUME NEW i \in 2..Len(is) PROVE is[i] # is[i - 1]
      <4>1. CASE i <= Len(was)
        <5>1. i \in 1..Len(was) /\ i - 1 \in 1..Len(was) /\ i \in 2..Len(was)
          BY <2>1, <3>2, <3>4, <4>1
        <5> QED
          BY <2>1, <3>2, <5>1
      <4>2. CASE ~(i <= Len(was))
        <5>1. i = Len(was) + 1 /\ i - 1 = Len(was) /\ Len(was) \in 1..Len(was)
          BY <2>1, <3>2, <3>4, <4>2
        <5>2. is[i] = found[a] /\ is[i - 1] = was[Len(was)]
          BY <3>2, <5>1
        <5>3. was # <<>>
          BY <5>1
        <5> QED
          BY <2>1, <2>4, <5>2, <5>3
      <4> QED
        BY <4>1, <4>2
    <3> QED
      BY <2>1, <3>2, <3>3, <3>4 DEF is
  <2>5. CASE found[a] # "low" /\ found[a] = levels[a]
    <3>1. is = was
      BY <2>2, <2>5
    <3> QED
      BY <2>1, <2>5, <3>1 DEF is
  <2> QED
    BY <2>3, <2>4, <2>5
<1>4. told' \in [Watched -> Seq(Levels)]
  BY <1>2, <1>3
<1> QED
  BY <1>1, <1>3, <1>4 DEF ToldInv

LEMMA ToldInvariance == ASSUME ToldInv, O!Next \/ UNCHANGED watchVars PROVE ToldInv'
<1>1. ASSUME levels' = levels, told' = told PROVE ToldInv'
  BY <1>1 DEF ToldInv
<1>2. ASSUME NEW a \in Watched, NEW k \in Keys, NEW v \in Compared, O!Arrive(a, k, v) PROVE ToldInv'
  BY <1>1, <1>2 DEF O!Arrive
<1>3. ASSUME NEW request \in open, O!Log(request, request.decision) \/ O!Log(request, "deny") PROVE ToldInv'
  BY <1>1, <1>3 DEF O!Log
<1>4. ASSUME O!Flush \/ O!Tick \/ UNCHANGED watchVars PROVE ToldInv'
  BY <1>1, <1>4 DEF O!Flush, O!Tick, watchVars
<1>5. ASSUME O!Restart PROVE ToldInv'
  BY <1>5, NobodyTold DEF O!Restart
<1> QED
  BY <1>2, <1>3, <1>4, <1>5, CheckTells DEF O!Next

LEMMA KeysAreFinite ==
  ASSUME NEW S, IsFiniteSet(S)
  PROVE  IsFiniteSet({r.key : r \in S}) /\ Cardinality({r.key : r \in S}) \in Nat
<1> DEFINE T == {r.key : r \in S}
           f == [r \in S |-> r.key]
<1>1. f \in Surjection(S, T)
  BY DEF Surjection
<1> HIDE DEF f, T
<1>2. IsFiniteSet(T)
  BY <1>1, FS_Surjection
<1>3. Cardinality(T) \in Nat
  BY <1>2, FS_CardinalityType
<1> QED
  BY <1>2, <1>3 DEF T

LEMMA ActivityGrows ==
  ASSUME LogInv, NEW a \in Watched, NEW k \in Keys
  PROVE  LET row == [id |-> 0, agent |-> a, key |-> k, decision |-> "deny", ts |-> tick]
             was == O!Activity(log, a, 0)
             is == O!Activity(log \cup {row}, a, 0)
         IN /\ was.total \in Nat /\ was.deny \in Nat /\ was.distinctDenied \in Nat /\ is.distinctDenied \in Nat
            /\ is.total = was.total + 1 /\ is.deny = was.deny + 1 /\ is.distinctDenied >= was.distinctDenied
<1> DEFINE row == [id |-> 0, agent |-> a, key |-> k, decision |-> "deny", ts |-> tick]
           mine(S) == {r \in S : r.agent = a /\ r.ts >= 0}
           denied(S) == {r \in mine(S) : r.decision = "deny"}
           keys(S) == {r.key : r \in denied(S)}
<1>1. log \subseteq Row /\ IsFiniteSet(log) /\ tick \in Nat /\ \A r \in log : r.id >= 1
  BY DEF LogInv, LogTyped
<1>2. row \notin log /\ row.agent = a /\ row.ts >= 0 /\ row.decision = "deny" /\ row.id = 0
  BY <1>1
<1> HIDE DEF row
<1>3. mine(log \cup {row}) = mine(log) \cup {row} /\ denied(log \cup {row}) = denied(log) \cup {row}
  BY <1>2
<1>4. row \notin mine(log) /\ row \notin denied(log)
  BY <1>2
<1>5. mine(log) \subseteq log /\ denied(log) \subseteq log
  OBVIOUS
<1> DEFINE M == mine(log)
           D1 == denied(log)
<1>6. IsFiniteSet(M) /\ IsFiniteSet(D1)
  BY <1>1, <1>5, FS_Subset
<1>7. keys(log) \subseteq keys(log \cup {row})
  BY <1>3
<1>8. /\ O!Activity(log, a, 0) = [total |-> O!Cardinality(mine(log)), deny |-> O!Cardinality(denied(log)), distinctDenied |-> O!Cardinality(keys(log))]
      /\ O!Activity(log \cup {row}, a, 0) =
           [total |-> O!Cardinality(mine(log \cup {row})), deny |-> O!Cardinality(denied(log \cup {row})),
            distinctDenied |-> O!Cardinality(keys(log \cup {row}))]
  BY DEF O!Activity
<1>9. IsFiniteSet(D1 \cup {row}) /\ Cardinality(M \cup {row}) = Cardinality(M) + 1 /\ Cardinality(D1 \cup {row}) = Cardinality(D1) + 1
  BY <1>4, <1>6, FS_AddElement
<1>10. Cardinality(M) \in Nat /\ Cardinality(D1) \in Nat
  BY <1>6, FS_CardinalityType
<1>11. IsFiniteSet(denied(log)) /\ IsFiniteSet(denied(log \cup {row}))
  BY <1>3, <1>6, <1>9
<1> HIDE DEF mine, denied
<1>12. /\ IsFiniteSet(keys(log \cup {row})) /\ Cardinality(keys(log)) \in Nat /\ Cardinality(keys(log \cup {row})) \in Nat
  BY <1>11, KeysAreFinite
<1>13. Cardinality(keys(log)) <= Cardinality(keys(log \cup {row}))
  BY <1>7, <1>12, FS_Subset
<1> HIDE DEF keys
<1> DEFINE was == O!Activity(log, a, 0)
           is == O!Activity(log \cup {row}, a, 0)
<1>14. /\ was.total = Cardinality(M) /\ was.deny = Cardinality(D1) /\ was.distinctDenied = Cardinality(keys(log))
       /\ is.total = Cardinality(M \cup {row}) /\ is.deny = Cardinality(D1 \cup {row})
       /\ is.distinctDenied = Cardinality(keys(log \cup {row}))
  BY <1>3, <1>8, SameCount
<1> HIDE DEF M, D1, was, is
<1>15. /\ was.total \in Nat /\ was.deny \in Nat /\ was.distinctDenied \in Nat /\ is.distinctDenied \in Nat
       /\ is.total = was.total + 1 /\ is.deny = was.deny + 1 /\ is.distinctDenied >= was.distinctDenied
  BY <1>9, <1>10, <1>12, <1>13, <1>14
<1> QED
  BY <1>15 DEF was, is, row

\* One more refusal, of a key that may be new.
LEMMA ScoreGrows ==
  ASSUME O!ObserverAssumption, NEW was, NEW is,
         was.total \in Nat, was.deny \in Nat, was.distinctDenied \in Nat, is.distinctDenied \in Nat,
         is.total = was.total + 1, is.deny = was.deny + 1, is.distinctDenied >= was.distinctDenied
  PROVE  O!Score(is) >= O!Score(was)
<1> DEFINE denials(n) == IF n * PerDenial < DenialCap THEN n * PerDenial ELSE DenialCap
           rate(x) == IF x.total >= RateFrom /\ x.deny * 10 >= x.total * 4 THEN RateBonus ELSE 0
           breadth(n) == IF n >= DistinctFrom THEN n * PerDistinct ELSE 0
           sum(x) == denials(x.deny) + rate(x) + breadth(x.distinctDenied)
<1>1. {PerDenial, DenialCap, RateFrom, RateBonus, DistinctFrom, PerDistinct} \subseteq Nat
  BY DEF O!ObserverAssumption
<1>2. \A m, n, p \in Nat : m <= n => m * p <= n * p /\ m * p \in Nat /\ n * p \in Nat
  OBVIOUS
<1>3. denials(was.deny) \in Nat /\ denials(is.deny) \in Nat /\ denials(was.deny) <= denials(is.deny)
  BY <1>1, <1>2
<1>4. breadth(was.distinctDenied) \in Nat /\ breadth(is.distinctDenied) \in Nat
      /\ breadth(was.distinctDenied) <= breadth(is.distinctDenied)
  BY <1>1, <1>2
<1>5. rate(was) \in Nat /\ rate(is) \in Nat /\ rate(was) <= rate(is)
  BY <1>1
<1> HIDE DEF denials, breadth, rate
<1>6. sum(was) \in Nat /\ sum(is) \in Nat /\ sum(was) <= sum(is)
  BY <1>3, <1>4, <1>5
<1>7. \A x : O!Score(x) = IF sum(x) < 100 THEN sum(x) ELSE 100
  BY DEF O!Score, denials, breadth, rate
<1> HIDE DEF sum
<1> QED
  BY <1>6, <1>7

LEMMA AlertsHold == ToldInv /\ LogInv /\ O!ObserverAssumption => O!DangerIsTold
<1> SUFFICES ASSUME ToldInv, LogInv, O!ObserverAssumption, NEW a \in Watched
             PROVE  /\ levels[a] = (IF told[a] = <<>> THEN "low" ELSE told[a][Len(told[a])])
                    /\ \A i \in 2..Len(told[a]) : told[a][i] # told[a][i - 1]
                    /\ \A k \in Keys :
                         LET row == [id |-> 0, agent |-> a, key |-> k, decision |-> "deny", ts |-> tick] IN
                         O!Score(O!Activity(log \cup {row}, a, 0)) >= O!Score(O!Activity(log, a, 0))
  BY DEF O!DangerIsTold
<1>1. ASSUME NEW k \in Keys
      PROVE  LET row == [id |-> 0, agent |-> a, key |-> k, decision |-> "deny", ts |-> tick] IN
             O!Score(O!Activity(log \cup {row}, a, 0)) >= O!Score(O!Activity(log, a, 0))
  BY ActivityGrows, ScoreGrows
<1> QED
  BY <1>1 DEF ToldInv

\* Reports, canary and alerts say what was logged, for any agents, keys, thresholds and
\* weights, any room for cells, and however late the timers are and whenever the proxy
\* restarts: no row is left out or counted by a report that need not have, the candidate gets
\* a clean bill only if it always agreed, and the operator knows the level of every agent
\* (telemetry/stats.ts, canary/store.ts, risk/score.ts).
THEOREM WatchersStayHonest == HostSpec => []WatchersAreHonest
<1>1. HostInit => LogInv /\ CanaryInv /\ ToldInv
  <2> SUFFICES ASSUME O!Init PROVE LogInv /\ CanaryInv /\ ToldInv
    BY DEF HostInit
  <2>1. canary = O!Silent /\ observed = <<>> /\ levels = [a \in Watched |-> "low"] /\ told = [a \in Watched |-> <<>>]
    BY DEF O!Init
  <2>2. ToldInv
    BY <2>1 DEF ToldInv, Levels
  <2> QED
    BY <2>1, <2>2, LogStarts, CanaryStarts
<1>2. LogInv /\ CanaryInv /\ ToldInv /\ [HostNext]_hostVars => LogInv' /\ CanaryInv' /\ ToldInv'
  <2> SUFFICES ASSUME LogInv, CanaryInv, ToldInv, [HostNext]_hostVars PROVE LogInv' /\ CanaryInv' /\ ToldInv'
    OBVIOUS
  <2>1. O!Next \/ UNCHANGED watchVars
    BY DEF hostVars, HostNext, OfSocket, OfKillSwitch, OfConfig, OfVault, OfDevice, OfLog, OfStream
  <2> QED
    BY <2>1, WaitAndWatchAreSound, LogInvariance, CanaryInvariance, ToldInvariance
<1>3. LogInv /\ CanaryInv /\ ToldInv => WatchersAreHonest
  BY WaitAndWatchAreSound, LogIsCounted, CanaryReports, AlertsHold DEF WatchersAreHonest, O!WatchersAreHonest
<1> QED
  BY <1>1, <1>2, <1>3, PTL DEF HostSpec

-------------------------------------------------------------------------------
(* A credential is no older than its time to live and an answer no longer than its cap,  *)
(* whatever the time to live, the timeout, the cap and the callers, and however long the *)
(* course (hashicorp-vault.ts, response/cap.ts).                                         *)
THEOREM IntakeStaysBounded == HostSpec => []IntakeIsBounded
<1>1. HostInit => VaultInv /\ StreamInv
  BY IntakeIsSound, VaultStarts, StreamStarts DEF HostInit
<1>2. VaultInv /\ StreamInv /\ [HostNext]_hostVars => VaultInv' /\ StreamInv'
  <2> SUFFICES ASSUME VaultInv, StreamInv, [HostNext]_hostVars
               PROVE  VaultInv' /\ StreamInv'
    OBVIOUS
  <2>1. V!Next \/ UNCHANGED vaultVars
    BY DEF hostVars, HostNext, OfSocket, OfKillSwitch, OfConfig, OfVault, OfDevice, OfLog, OfStream
  <2>2. A!Next \/ UNCHANGED streamVars
    BY DEF hostVars, HostNext, OfSocket, OfKillSwitch, OfConfig, OfVault, OfDevice, OfLog, OfStream
  <2> QED
    BY <2>1, <2>2, IntakeIsSound, VaultInvariance, StreamInvariance
<1>3. VaultInv /\ StreamInv => IntakeIsBounded
  BY DEF VaultInv, StreamInv, IntakeIsBounded
<1> QED
  BY <1>1, <1>2, <1>3, PTL DEF HostSpec
===============================================================================
