------------------------------ MODULE PlaneProofs ------------------------------
(* What a proxy enforces is what its plane signed: the policy it pulls, and the kill-set's   *)
(* expiry, for any succession of bundles and sets, any timing of the loops, any refused      *)
(* write and any restart. A course of the plane is one of the kill-set and one of the policy *)
(* (PlaneIsBoth), so what is proved of the kill-set alone, first, holds of it as well.       *)
EXTENDS MCPlane, TLAPS

-------------------------------------------------------------------------------
(* The fleet kill-set, for every set of agents, every succession of signed sets and every    *)
(* timing of the refresh loop.                                                               *)

\* What is in memory and on disk is a signed set, and the same one while up.
Holdings ==
  /\ signed \subseteq Sets
  /\ file \in Sets \union {Empty}
  /\ store \in Sets \union {Empty}
  /\ Up => store = file

\* A loop that sleeps was checked at most Longest ago, one that pulls Timeout more.
Margin == IF loop.at = "pulling" THEN Longest + Timeout ELSE Longest

Timing ==
  /\ now \in Nat
  /\ loop \in [at : {"down", "sleeping", "pulling"}, until : Nat]
  /\ DOMAIN state = {"version", "count", "expires", "pulledAt"}
  /\ state.pulledAt \in Nat
  /\ Up => now <= loop.until
  /\ Up /\ FailClosed /\ ~closed => loop.until <= state.pulledAt + MaxAge + Margin

-----------------------------------------------------------------------------

(* Longest is the longest of the jittered refresh periods (run.ts, tick()). *)
LEMMA LongestIsLongest == Longest \in Nat /\ \A d \in Delays : d \in Nat /\ d <= Longest
  BY SetsAssumption DEF Longest

(* Every set and the empty one carry a version that can be compared.       *)
LEMMA VersionsAreNumbers == \A s \in Sets \union {Empty} : s.version \in Nat
  BY SetsAssumption DEF Empty

(* A verified set is a signed one, not below the floor it was checked with. *)
LEMMA VerifiedIsSigned ==
  ASSUME NEW s, NEW least, signed \subseteq Sets, Verifies(s, least)
  PROVE  s \in Sets /\ s.version >= least
  BY DEF Verifies

-----------------------------------------------------------------------------

(* The set in memory is the one on disk while the proxy is up: through     *)
(* every pull, refused write, crash and restart.                           *)
THEOREM HoldingsInductive == Spec => []Holdings
<1>1. Init => Holdings
  BY DEF Init, Holdings, Up
<1>2. Holdings /\ [Next]_vars => Holdings'
  <2> SUFFICES ASSUME Holdings, [Next]_vars PROVE Holdings'
    OBVIOUS
  <2>1. ASSUME NEW s \in Sets, Sign(s) PROVE Holdings'
    BY <2>1 DEF Sign, Holdings, Up
  <2>2. ASSUME NEW s \in Sets, BootPulled(s) PROVE Holdings'
    BY <2>2 DEF BootPulled, Replace, KeepCached, Holdings, Up
  <2>3. ASSUME NEW s \in Sets, Pulled(s) PROVE Holdings'
    <3>1. Up
      BY <2>3 DEF Pulled, Up
    <3>2. file' = store' /\ store' \in {s, store}
      BY <2>3, <3>1 DEF Pulled, Replace, KeepCached, Holdings
    <3> QED BY <2>3, <3>2 DEF Pulled, Holdings
  <2>4. ASSUME BootUnpulled PROVE Holdings'
    BY <2>4 DEF BootUnpulled, disk, Holdings, Up
  <2>5. ASSUME Pull PROVE Holdings'
    BY <2>5 DEF Pull, disk, Holdings, Up
  <2>6. ASSUME Rejected PROVE Holdings'
    BY <2>6 DEF Rejected, disk, Holdings, Up
  <2>7. ASSUME Pass PROVE Holdings'
    BY <2>7 DEF Pass, Holdings, Up
  <2>8. ASSUME Crash PROVE Holdings'
    BY <2>8 DEF Crash, Holdings, Up
  <2>9. ASSUME UNCHANGED vars PROVE Holdings'
    BY <2>9 DEF vars, disk, Holdings, Up
  <2> QED BY <2>1, <2>2, <2>3, <2>4, <2>5, <2>6, <2>7, <2>8, <2>9 DEF Next
<1> QED BY <1>1, <1>2, PTL DEF Spec

(* FleetRevocationStore: a restart enforces what was enforced before it.   *)
THEOREM RestartKeepsTheSet == Spec => []EnforcedIsPersisted
<1>1. Holdings => EnforcedIsPersisted
  BY DEF Holdings, EnforcedIsPersisted
<1> QED BY <1>1, HoldingsInductive, PTL

-----------------------------------------------------------------------------

(* One step: the file changes only to a set of a newer version.            *)
LEMMA FileOnlyAdvances ==
  ASSUME Holdings, [Next]_vars
  PROVE  file' = file \/ file'.version > file.version
<1>1. ASSUME NEW s \in Sets, BootPulled(s) PROVE file' = file \/ file'.version > file.version
  <2>1. s.version >= file.version /\ s.version \in Nat /\ file.version \in Nat
    BY <1>1, VersionsAreNumbers DEF BootPulled, Verifies, Holdings
  <2>2. file' = file \/ (file' = s /\ s.version # file.version)
    BY <1>1 DEF BootPulled, Replace, KeepCached
  <2> QED BY <2>1, <2>2
<1>2. ASSUME NEW s \in Sets, Pulled(s) PROVE file' = file \/ file'.version > file.version
  <2>1. store = file
    BY <1>2 DEF Pulled, Holdings, Up
  <2>2. s.version >= file.version /\ s.version \in Nat /\ file.version \in Nat
    BY <1>2, <2>1, VersionsAreNumbers DEF Pulled, Verifies, Holdings
  <2>3. file' = file \/ (file' = s /\ s.version # file.version)
    BY <1>2, <2>1 DEF Pulled, Replace, KeepCached
  <2> QED BY <2>2, <2>3
<1>3. CASE \E s \in Sets : Sign(s)
  BY <1>3 DEF Sign
<1>4. CASE BootUnpulled \/ Pull \/ Rejected \/ Pass \/ Crash \/ UNCHANGED vars
  BY <1>4 DEF BootUnpulled, Pull, Rejected, Pass, Crash, vars, disk
<1> QED BY <1>1, <1>2, <1>3, <1>4 DEF Next

(* docs/quickstart.md: an agent leaves the fleet's kill-set only by a set  *)
(* of a newer version, whatever the plane serves, refuses or replays.      *)
THEOREM ReplayRestoresNobody == Spec => OnlyANewerSetRestores
<1>1. ASSUME Holdings, [Next]_vars
      PROVE  [\A a \in file.agents \ file'.agents : file'.version > file.version]_vars
  BY <1>1, FileOnlyAdvances
<1> QED BY <1>1, HoldingsInductive, PTL DEF Spec, OnlyANewerSetRestores

-----------------------------------------------------------------------------

(* After the check and the new timer of any pull, the loop ends its sleep  *)
(* before the set can be too old by more than a period.                    *)
LEMMA CheckedAndAsleep ==
  ASSUME Timing, Sleep, now' = now, Check(state'), state'.pulledAt \in Nat,
         DOMAIN state' = {"version", "count", "expires", "pulledAt"}
  PROVE  Timing'
<1> USE LongestIsLongest, SetsAssumption
<1>1. PICK d \in Delays : loop' = [at |-> "sleeping", until |-> now + d]
  BY DEF Sleep
<1>2. loop'.at = "sleeping" /\ loop'.until = now + d /\ d \in Nat /\ d <= Longest /\ now \in Nat
  BY <1>1 DEF Timing
<1>3. loop' \in [at : {"down", "sleeping", "pulling"}, until : Nat]
  BY <1>1, <1>2
<1>4. Margin' = Longest
  BY <1>2 DEF Margin, Longest
<1>5. ASSUME FailClosed, ~closed' PROVE now <= state'.pulledAt + MaxAge
  <2>1. ~StaleState(state', now)
    BY <1>5 DEF Check
  <2> QED BY <2>1, <1>2 DEF StaleState
<1>6. FailClosed /\ ~closed' => loop'.until <= state'.pulledAt + MaxAge + Longest
  BY <1>2, <1>5
<1> QED BY <1>2, <1>3, <1>4, <1>6 DEF Timing, Up

(* The loop always looks before the bound has passed.                      *)
THEOREM TimingInductive == Spec => []Timing
<1> USE LongestIsLongest, SetsAssumption
<1>1. Init => Timing
  BY DEF Init, Timing, Mirror, Empty, Up
<1>2. Timing /\ [Next]_vars => Timing'
  <2> SUFFICES ASSUME Timing, [Next]_vars PROVE Timing'
    OBVIOUS
  <2>1. ASSUME NEW s \in Sets, Sign(s) PROVE Timing'
    BY <2>1 DEF Sign, Timing, Up, Margin, Longest
  <2>2. ASSUME NEW s \in Sets, BootPulled(s) PROVE Timing'
    <3>1. state'.pulledAt \in Nat /\ DOMAIN state' = {"version", "count", "expires", "pulledAt"}
      BY <2>2 DEF BootPulled, Mirror, Timing
    <3> QED BY <2>2, <3>1, CheckedAndAsleep DEF BootPulled
  <2>3. ASSUME NEW s \in Sets, Pulled(s) PROVE Timing'
    <3>1. now \in Nat /\ state.pulledAt \in Nat /\ DOMAIN state = {"version", "count", "expires", "pulledAt"}
      BY DEF Timing
    <3>2. state'.pulledAt \in {now, state.pulledAt} /\ DOMAIN state' = {"version", "count", "expires", "pulledAt"}
      <4>1. CASE state' = [state EXCEPT !.pulledAt = now, !.version = s.version]
        BY <4>1, <3>1
      <4>2. CASE state' = Mirror(s, now)
        BY <4>2 DEF Mirror
      <4>3. CASE state' = state
        BY <4>3, <3>1
      <4> QED BY <2>3, <4>1, <4>2, <4>3 DEF Pulled
    <3> QED BY <2>3, <3>1, <3>2, CheckedAndAsleep DEF Pulled
  <2>4. ASSUME BootUnpulled PROVE Timing'
    <3>1. state'.pulledAt \in Nat /\ DOMAIN state' = {"version", "count", "expires", "pulledAt"}
      BY <2>4 DEF BootUnpulled, Mirror
    <3> QED BY <2>4, <3>1, CheckedAndAsleep DEF BootUnpulled, disk
  <2>5. ASSUME Pull PROVE Timing'
    <3>1. /\ loop.at = "sleeping" /\ loop.until = now /\ now \in Nat
          /\ loop' = [at |-> "pulling", until |-> now + Timeout]
          /\ now' = now /\ state' = state /\ closed' = closed
      BY <2>5 DEF Pull, disk, Timing
    <3>2. Up /\ Margin = Longest /\ Margin' = Longest + Timeout
      BY <3>1 DEF Up, Margin, Longest
    <3>3. Up' /\ loop'.until = now + Timeout
      BY <3>1 DEF Up
    <3>4. FailClosed /\ ~closed => now <= state.pulledAt + MaxAge + Longest
      BY <3>1, <3>2 DEF Timing
    <3> QED BY <3>1, <3>2, <3>3, <3>4 DEF Timing
  <2>6. ASSUME Rejected PROVE Timing'
    <3>1. state'.pulledAt \in Nat /\ DOMAIN state' = {"version", "count", "expires", "pulledAt"}
      BY <2>6 DEF Rejected, Timing
    <3> QED BY <2>6, <3>1, CheckedAndAsleep DEF Rejected, disk
  <2>7. ASSUME Pass PROVE Timing'
    <3>1. now' = now + 1 /\ (Up => now + 1 <= loop.until)
      BY <2>7 DEF Pass, Timing
    <3> QED BY <2>7, <3>1 DEF Pass, Timing, Up, Margin, Longest
  <2>8. ASSUME Crash PROVE Timing'
    BY <2>8 DEF Crash, Timing, Up
  <2>9. ASSUME UNCHANGED vars PROVE Timing'
    BY <2>9 DEF vars, disk, Timing, Up, Margin, Longest
  <2> QED BY <2>1, <2>2, <2>3, <2>4, <2>5, <2>6, <2>7, <2>8, <2>9 DEF Next
<1> QED BY <1>1, <1>2, PTL DEF Spec

(* run.ts, checkRevocationStaleness(): under fail_closed nothing is let    *)
(* through more than a period and a fetch timeout after the set became too *)
(* old, whatever the plane does.                                           *)
THEOREM StaleIsDenied == Spec => []StaleDeniesAll
<1>1. Timing => StaleDeniesAll
  BY LongestIsLongest, SetsAssumption DEF Timing, StaleDeniesAll, Margin
<1> QED BY <1>1, TimingInductive, PTL

-------------------------------------------------------------------------------
(* The plane. *)

\* A version that is signed again is signed for as long.
OneExpiry == \A s, t \in Sets : s.version = t.version => s.expires = t.expires

-------------------------------------------------------------------------------

\* The two subsystems share nothing that moves: each takes its own steps or none.
LEMMA PlaneIsBoth == PlaneSpec => Spec /\ P!Spec
<1>1. PlaneInit => Init /\ P!Init
  BY DEF PlaneInit
<1>2. [OfKillSet(Next) \/ OfPolicy(P!Next)]_planeVars => [Next]_vars /\ [P!Next]_(P!vars)
  BY DEF OfKillSet, OfPolicy, planeVars, policyVars, P!vars, P!world
<1> QED
  BY <1>1, <1>2, PTL DEF PlaneSpec, Spec, P!Spec

-------------------------------------------------------------------------------
(* The expiry of the kill-set. *)

\* The mirror shows the expiry of what is enforced.
MirrorsExpiry == Up => state.expires = store.expires

ExpiryTimed ==
  Up /\ FailClosed /\ ~closed /\ store.expires # 0 => loop.until <= store.expires + Margin

ExpiryInv == Holdings /\ Timing /\ MirrorsExpiry /\ ExpiryTimed

\* After the check that ends a pull, the loop looks again before a period has passed.
LEMMA CheckedForExpiry ==
  ASSUME Sleep, now \in Nat, Check(state'), state'.expires = store'.expires,
         store'.expires \in Nat
  PROVE  MirrorsExpiry' /\ ExpiryTimed'
<1>1. PICK d \in Delays : loop' = [at |-> "sleeping", until |-> now + d]
  BY DEF Sleep
<1>2. loop'.until = now + d /\ loop'.at = "sleeping" /\ d \in Nat /\ d <= Longest /\ Longest \in Nat
  BY <1>1, LongestIsLongest
<1>3. Margin' = Longest
  BY <1>2 DEF Margin, Longest
<1>4. ASSUME FailClosed, ~closed', store'.expires # 0 PROVE now <= store'.expires
  <2>1. ~StaleState(state', now)
    BY <1>4 DEF Check
  <2> QED
    BY <1>4, <2>1 DEF StaleState
<1> QED
  BY <1>2, <1>3, <1>4 DEF MirrorsExpiry, ExpiryTimed

\* A set of the version in force is signed for as long as what is in force.
LEMMA SameVersionSameExpiry ==
  ASSUME OneExpiry, NEW s \in Sets, NEW t \in Sets \cup {Empty}, s.version = t.version
  PROVE  s.expires = t.expires
<1>1. s.version # 0
  BY SetsAssumption
<1>2. t \in Sets
  BY <1>1 DEF Empty
<1> QED
  BY <1>2 DEF OneExpiry

\* Every step of the kill-set keeps the mirror's expiry and the loop's next look.
LEMMA ExpiryStep ==
  ASSUME OneExpiry, ExpiryInv, Holdings', Timing', [Next]_vars
  PROVE  MirrorsExpiry' /\ ExpiryTimed'
<1> USE LongestIsLongest
<1>1. now \in Nat /\ file \in Sets \cup {Empty} /\ store \in Sets \cup {Empty} /\ (Up => store = file)
  BY DEF ExpiryInv, Timing, Holdings
<1>2. store' \in Sets \cup {Empty} /\ store'.expires \in Nat
  BY SetsAssumption DEF Holdings, Empty
<1>3. ASSUME NEW s \in Sets, Sign(s) PROVE MirrorsExpiry' /\ ExpiryTimed'
  BY <1>3 DEF Sign, ExpiryInv, MirrorsExpiry, ExpiryTimed, Up, Margin, Longest
<1>4. ASSUME NEW s \in Sets, BootPulled(s) PROVE MirrorsExpiry' /\ ExpiryTimed'
  <2>1. state'.expires = store'.expires
    <3>1. CASE s.version = file.version /\ store' = file /\ state' = Mirror(s, now)
      BY <1>1, <3>1, SameVersionSameExpiry DEF Mirror
    <3>2. CASE store' = s /\ state' = Mirror(s, now)
      BY <3>2 DEF Mirror
    <3>3. CASE store' = file /\ state' = Mirror(file, 0)
      BY <3>3 DEF Mirror
    <3> QED
      BY <1>4, <3>1, <3>2, <3>3 DEF BootPulled, Replace, KeepCached
  <2> QED
    BY <1>1, <1>2, <1>4, <2>1, CheckedForExpiry DEF BootPulled
<1>5. ASSUME NEW s \in Sets, Pulled(s) PROVE MirrorsExpiry' /\ ExpiryTimed'
  <2>1. Up /\ state.expires = store.expires /\ DOMAIN state = {"version", "count", "expires", "pulledAt"}
    BY <1>5 DEF Pulled, Up, ExpiryInv, MirrorsExpiry, Timing
  <2>2. state'.expires = store'.expires
    <3>1. CASE state' = [state EXCEPT !.pulledAt = now, !.version = s.version] /\ store' = store
      BY <2>1, <3>1
    <3>2. CASE store' = s /\ state' = Mirror(s, now)
      BY <3>2 DEF Mirror
    <3>3. CASE store' = store /\ state' = state
      BY <2>1, <3>3
    <3> QED
      BY <1>5, <3>1, <3>2, <3>3 DEF Pulled, Replace, KeepCached
  <2> QED
    BY <1>1, <1>2, <1>5, <2>2, CheckedForExpiry DEF Pulled
<1>6. CASE BootUnpulled
  <2>1. state'.expires = store'.expires
    BY <1>6 DEF BootUnpulled, Mirror
  <2> QED
    BY <1>1, <1>2, <1>6, <2>1, CheckedForExpiry DEF BootUnpulled
<1>7. CASE Pull
  <2>1. /\ loop.at = "sleeping" /\ loop.until = now /\ loop' = [at |-> "pulling", until |-> now + Timeout]
        /\ UNCHANGED <<store, state, closed>>
    BY <1>7 DEF Pull
  <2>2. Up /\ Margin = Longest /\ Margin' = Longest + Timeout /\ loop'.until = now + Timeout
    BY <2>1 DEF Up, Margin, Longest
  <2>3. Timeout \in Nat
    BY SetsAssumption
  <2> QED
    BY <1>1, <1>2, <2>1, <2>2, <2>3 DEF ExpiryInv, MirrorsExpiry, ExpiryTimed
<1>8. CASE Rejected
  <2>1. state'.expires = store'.expires
    BY <1>8 DEF Rejected, ExpiryInv, MirrorsExpiry, Up
  <2>2. Check(state')
    BY <1>8 DEF Rejected, Check, disk
  <2> QED
    BY <1>1, <1>2, <1>8, <2>1, <2>2, CheckedForExpiry DEF Rejected
<1>9. CASE Pass \/ UNCHANGED vars
  BY <1>9 DEF Pass, vars, disk, ExpiryInv, MirrorsExpiry, ExpiryTimed, Up, Margin, Longest
<1>10. CASE Crash
  BY <1>10 DEF Crash, MirrorsExpiry, ExpiryTimed, Up
<1> QED
  BY <1>3, <1>4, <1>5, <1>6, <1>7, <1>8, <1>9, <1>10 DEF Next

\* Under fail_closed nothing is let through long after the expiry of what is enforced.
LEMMA ExpiryStays ==
  ASSUME OneExpiry
  PROVE  Spec => []ExpiredDeniesAll
<1>1. Init => MirrorsExpiry /\ ExpiryTimed
  BY DEF Init, MirrorsExpiry, ExpiryTimed, Up
<1>2. Holdings /\ Timing /\ MirrorsExpiry /\ ExpiryTimed /\ Holdings' /\ Timing' /\ [Next]_vars
        => MirrorsExpiry' /\ ExpiryTimed'
  BY ExpiryStep DEF ExpiryInv
<1>3. Holdings /\ Timing /\ ExpiryTimed => ExpiredDeniesAll
  <2> SUFFICES ASSUME Holdings, Timing, ExpiryTimed, Up, FailClosed, ~closed, store.expires # 0
               PROVE  now <= store.expires + Longest + Timeout
    BY DEF ExpiredDeniesAll
  <2>1. now \in Nat /\ loop.until \in Nat /\ now <= loop.until
    BY DEF Timing
  <2>2. store.expires \in Nat /\ Longest \in Nat /\ Timeout \in Nat
    BY SetsAssumption, LongestIsLongest DEF Holdings, Empty
  <2>3. loop.until <= store.expires + Margin /\ Margin \in {Longest, Longest + Timeout}
    BY DEF ExpiryTimed, Margin
  <2> QED
    BY <2>1, <2>2, <2>3
<1> QED
  BY <1>1, <1>2, <1>3, HoldingsInductive, TimingInductive, PTL DEF Spec

-------------------------------------------------------------------------------
(* The policy. *)

PolicyTyped ==
  /\ puller \in [at : {"down", "off", "sleeping", "pulling", "digesting"}, left : Nat]
  /\ age \in Nat /\ denying \in BOOLEAN /\ refused \in Nat
  /\ floorFile \in Nat /\ floor \in Nat /\ highest \in Nat

\* The age at which the loop looks, by where it is: asleep it will, pulling it ends in time.
PolicyMargin ==
  CASE puller.at = "pulling" -> Longest + Timeout
    [] puller.at = "sleeping" -> Longest
    [] OTHER -> 0

\* A proxy that found no org token never looks.
LooksInTime ==
  P!Up /\ puller.at # "off" /\ FailClosed /\ ~denying => age + puller.left <= MaxAge + PolicyMargin

\* The digest is the running policy's, but for an unsigned refresh that awaits it; and what is
\* remembered was decided under the one or the other.
MemoryIsDated ==
  /\ P!Up /\ puller.at # "digesting" => digest = running.content
  /\ ~P!Up => remembered = {}
  /\ ~notifies => settling = {} /\ remembered \subseteq {running.content, digest}

\* The floor was adopted, and while no write has failed it is the highest ever adopted.
FloorIsKnown ==
  /\ floorFile <= highest /\ floor <= highest
  /\ refused = 0 => floorFile = highest /\ (P!Up => floor = highest)
  /\ ~keyed => \A b \in published : b.version = 0
  /\ P!Up /\ refused = 0 => running.version \in {0} \cup highest .. MaxVersion

PolicyInv == PolicyTyped /\ LooksInTime /\ MemoryIsDated /\ FloorIsKnown

\* The periods are numbers, with a longest one.
LEMMA Periods ==
  /\ MaxAge \in Nat /\ Timeout \in Nat /\ Longest \in Nat
  /\ P!Longest = Longest /\ P!Never \in Nat /\ P!Never = MaxAge + Longest + Timeout + 1
  /\ \A d \in Delays : d \in Nat /\ d <= Longest
<1>1. P!Longest = Longest
  BY DEF P!Longest, Longest
<1> QED
  BY <1>1, LongestIsLongest, SetsAssumption DEF P!Never

\* Nothing was ever pulled.
LEMMA PolicyStarts == P!Init => PolicyInv
<1> SUFFICES ASSUME P!Init PROVE PolicyInv
  OBVIOUS
<1>1. /\ puller = [at |-> "down", left |-> 0] /\ age = P!Never /\ denying = FALSE /\ refused = 0
      /\ floorFile = 0 /\ floor = 0 /\ highest = 0 /\ published = {}
      /\ remembered = {} /\ settling = {}
  BY DEF P!Init
<1>2. ~P!Up
  BY <1>1 DEF P!Up
<1>3. PolicyTyped
  BY <1>1, Periods DEF PolicyTyped
<1>4. LooksInTime /\ MemoryIsDated
  BY <1>1, <1>2 DEF LooksInTime, MemoryIsDated
<1>5. FloorIsKnown
  BY <1>1, <1>2 DEF FloorIsKnown
<1> QED
  BY <1>3, <1>4, <1>5 DEF PolicyInv

\* The loop goes to sleep after its check.
LEMMA PolicyAsleep ==
  ASSUME P!Sleep, age' \in Nat, denying' \in BOOLEAN, FailClosed /\ ~denying' => age' <= MaxAge
  PROVE  /\ puller' \in [at : {"down", "off", "sleeping", "pulling", "digesting"}, left : Nat]
         /\ puller'.at = "sleeping" /\ P!Up' /\ LooksInTime'
<1>1. PICK d \in Delays : puller' = [at |-> "sleeping", left |-> d]
  BY DEF P!Sleep
<1>2. puller'.at = "sleeping" /\ puller'.left = d /\ d \in Nat /\ d <= Longest
  BY <1>1, Periods
<1>3. PolicyMargin' = Longest
  BY <1>2 DEF PolicyMargin, Longest
<1>4. LooksInTime'
  <2> SUFFICES ASSUME FailClosed, ~denying' PROVE age' + puller'.left <= MaxAge + PolicyMargin'
    BY DEF LooksInTime
  <2>1. age' <= MaxAge /\ age' \in Nat
    OBVIOUS
  <2>2. puller'.left \in Nat /\ puller'.left <= Longest
    BY <1>2
  <2>3. MaxAge \in Nat /\ Longest \in Nat
    BY Periods
  <2> QED
    BY <1>3, <2>1, <2>2, <2>3
<1> QED
  BY <1>1, <1>2, <1>4 DEF P!Up

\* A verified bundle is adopted before anything is served.
LEMMA BootPulledKeeps ==
  ASSUME PolicyInv, NEW b \in P!Bundle, P!BootPulled(b) PROVE PolicyInv'
<1>1. /\ b \in published /\ b.version >= floorFile
      /\ running' = b /\ digest' = b.content /\ floor' = b.version /\ floorFile' = b.version
      /\ highest' = (IF b.version > highest THEN b.version ELSE highest) /\ age' = 0
      /\ denying' = FALSE /\ P!Sleep /\ ~P!Up
      /\ UNCHANGED <<keyed, notifies, published, refused, remembered, settling>>
  BY Periods DEF P!BootPulled, P!CheckStaleness, P!world
<1>2. b.version \in Nat /\ b.version <= MaxVersion
  BY DEF P!Bundle
<1>3. /\ puller' \in [at : {"down", "off", "sleeping", "pulling", "digesting"}, left : Nat]
      /\ puller'.at = "sleeping" /\ P!Up' /\ LooksInTime'
  <2>1. age' \in Nat /\ denying' \in BOOLEAN
    BY <1>1, Periods, SetsAssumption
  <2>2. FailClosed /\ ~denying' => age' <= MaxAge
    BY <1>1, Periods
  <2>3. P!Sleep
    BY <1>1
  <2> QED
    BY <2>1, <2>2, <2>3, PolicyAsleep
<1>4. PolicyTyped'
  BY <1>1, <1>2, <1>3 DEF PolicyInv, PolicyTyped
<1>5. MemoryIsDated'
  BY <1>1, <1>3 DEF PolicyInv, MemoryIsDated
<1>6. FloorIsKnown'
  BY <1>1, <1>2, <1>3 DEF PolicyInv, FloorIsKnown, PolicyTyped
<1> QED
  BY <1>3, <1>4, <1>5, <1>6 DEF PolicyInv

\* Nothing came: the local file, or nothing at all.
LEMMA BootUnpulledKeeps ==
  ASSUME PolicyInv, P!BootUnpulled PROVE PolicyInv'
<1>1. /\ running' = P!LocalPolicy /\ digest' = Local /\ floor' = floorFile /\ age' = P!Never
      /\ P!Sleep /\ ~P!Up
      /\ UNCHANGED <<keyed, notifies, published, refused, floorFile, highest, remembered, settling>>
  BY DEF P!BootUnpulled, P!world
<1>2. denying' = FailClosed
  BY SetsAssumption DEF P!BootUnpulled, P!CheckStaleness
<1>3. /\ puller' \in [at : {"down", "off", "sleeping", "pulling", "digesting"}, left : Nat]
      /\ puller'.at = "sleeping" /\ P!Up' /\ LooksInTime'
  <2>1. age' \in Nat /\ denying' \in BOOLEAN
    BY <1>1, <1>2, Periods, SetsAssumption
  <2>2. FailClosed /\ ~denying' => age' <= MaxAge
    BY <1>2
  <2>3. P!Sleep
    BY <1>1
  <2> QED
    BY <2>1, <2>2, <2>3, PolicyAsleep
<1>4. running'.content = Local /\ running'.version = 0
  BY <1>1 DEF P!LocalPolicy
<1>5. PolicyTyped'
  <2>1. age' \in Nat /\ denying' \in BOOLEAN
    BY <1>1, <1>2, Periods, SetsAssumption
  <2> QED
    BY <1>1, <1>3, <2>1 DEF PolicyInv, PolicyTyped
<1>6. MemoryIsDated'
  BY <1>1, <1>3, <1>4 DEF PolicyInv, MemoryIsDated
<1>7. FloorIsKnown'
  BY <1>1, <1>3, <1>4 DEF PolicyInv, FloorIsKnown, PolicyTyped
<1> QED
  BY <1>3, <1>5, <1>6, <1>7 DEF PolicyInv

\* No token: the local file, and no loop.
LEMMA BootTokenlessKeeps ==
  ASSUME PolicyInv, P!BootTokenless PROVE PolicyInv'
<1>1. /\ running' = P!LocalPolicy /\ digest' = Local /\ floor' = floorFile /\ age' = P!Never
      /\ denying' = FALSE /\ puller' = [at |-> "off", left |-> 0] /\ ~P!Up
      /\ UNCHANGED <<keyed, notifies, published, refused, floorFile, highest, remembered, settling>>
  BY DEF P!BootTokenless, P!world
<1>2. puller'.at = "off" /\ P!Up'
  BY <1>1 DEF P!Up
<1>3. running'.content = Local /\ running'.version = 0
  BY <1>1 DEF P!LocalPolicy
<1>4. PolicyTyped' /\ LooksInTime'
  BY <1>1, <1>2, Periods DEF PolicyInv, PolicyTyped, LooksInTime
<1>5. MemoryIsDated'
  BY <1>1, <1>2, <1>3 DEF PolicyInv, MemoryIsDated
<1>6. FloorIsKnown'
  BY <1>1, <1>2, <1>3 DEF PolicyInv, FloorIsKnown, PolicyTyped
<1> QED
  BY <1>4, <1>5, <1>6 DEF PolicyInv

\* A start that ends leaves the floor where it was.
LEMMA BootExitsKeeps ==
  ASSUME PolicyInv, NEW b \in P!Bundle, P!BootExits(b) PROVE PolicyInv'
<1>1. /\ refused' \in {refused, refused + 1} /\ ~P!Up
      /\ UNCHANGED <<keyed, notifies, published, puller, floorFile, floor, running, denying, digest, age,
                     remembered, settling, highest>>
  BY DEF P!BootExits, P!Verified
<1>2. ~P!Up'
  BY <1>1 DEF P!Up
<1>3. refused \in Nat /\ refused' \in Nat /\ (refused' = 0 => refused = 0)
  BY <1>1 DEF PolicyInv, PolicyTyped
<1>4. PolicyTyped' /\ LooksInTime'
  BY <1>1, <1>2, <1>3 DEF PolicyInv, PolicyTyped, LooksInTime
<1>5. MemoryIsDated' /\ FloorIsKnown'
  BY <1>1, <1>2, <1>3 DEF PolicyInv, MemoryIsDated, FloorIsKnown
<1> QED
  BY <1>4, <1>5 DEF PolicyInv

\* The signed refresh: memory of another policy goes before the new one is served.
LEMMA AdoptedKeeps ==
  ASSUME PolicyInv, NEW b \in P!Bundle, P!Adopted(b) PROVE PolicyInv'
<1>1. /\ b \in published /\ b.version >= floor
      /\ running' = b /\ denying' = FALSE /\ digest' = b.content /\ age' = 0
      /\ remembered' = (IF P!Forgets(b) THEN {} ELSE remembered)
      /\ highest' = (IF b.version > highest THEN b.version ELSE highest)
      /\ floor' = b.version /\ P!Sleep /\ puller.at = "pulling"
      /\ UNCHANGED <<keyed, notifies, published, settling>>
  BY DEF P!Adopted, P!Acceptable, P!Accept, P!world
<1>2. \/ b.version > floor /\ floorFile' = b.version /\ refused' = refused
      \/ b.version <= floor /\ floorFile' = floorFile /\ refused' = refused
      \/ b.version > floor /\ floorFile' = floorFile /\ refused' = refused + 1
  BY DEF P!Adopted, P!Accept, P!world
<1>3. b.version \in Nat /\ b.version <= MaxVersion
  BY DEF P!Bundle
<1>4. /\ puller' \in [at : {"down", "off", "sleeping", "pulling", "digesting"}, left : Nat]
      /\ puller'.at = "sleeping" /\ P!Up' /\ LooksInTime'
  <2>1. age' \in Nat /\ denying' \in BOOLEAN
    BY <1>1, Periods, SetsAssumption
  <2>2. FailClosed /\ ~denying' => age' <= MaxAge
    BY <1>1, Periods
  <2>3. P!Sleep
    BY <1>1
  <2> QED
    BY <2>1, <2>2, <2>3, PolicyAsleep
<1>5. P!Up /\ digest = running.content
  BY <1>1 DEF P!Up, PolicyInv, MemoryIsDated
<1>6. PolicyTyped'
  <2>1. PolicyTyped
    BY DEF PolicyInv
  <2>2. refused' \in Nat /\ floorFile' \in Nat
    BY <1>2, <1>3, <2>1 DEF PolicyTyped
  <2>3. floor' \in Nat /\ highest' \in Nat /\ age' \in Nat /\ denying' \in BOOLEAN
    BY <1>1, <1>3, <2>1 DEF PolicyTyped
  <2> QED
    BY <1>4, <2>2, <2>3 DEF PolicyTyped
<1>7. MemoryIsDated'
  BY <1>1, <1>4, <1>5 DEF PolicyInv, MemoryIsDated, P!Forgets
<1>8. FloorIsKnown'
  BY <1>1, <1>2, <1>3, <1>4, <1>5 DEF PolicyInv, FloorIsKnown, PolicyTyped
<1> QED
  BY <1>4, <1>6, <1>7, <1>8 DEF PolicyInv

\* The unsigned refresh serves first, and then awaits the digest.
LEMMA SwappedKeeps ==
  ASSUME PolicyInv, NEW b \in P!Bundle, P!Swapped(b) PROVE PolicyInv'
<1>1. /\ b \in published /\ ~keyed
      /\ running' = b /\ denying' = FALSE /\ age' = 0 /\ puller.at = "pulling"
      /\ puller' = [at |-> "digesting", left |-> 0]
      /\ UNCHANGED <<keyed, notifies, published, refused, floorFile, floor, digest, remembered, settling, highest>>
  BY DEF P!Swapped, P!Acceptable, P!world
<1>2. b.version = 0 /\ P!Up /\ P!Up' /\ puller'.at = "digesting" /\ puller'.left = 0
  BY <1>1 DEF PolicyInv, FloorIsKnown, P!Up
<1>3. digest = running.content
  BY <1>1, <1>2 DEF PolicyInv, MemoryIsDated
<1>4. PolicyTyped'
  BY <1>1 DEF PolicyInv, PolicyTyped
<1>5. PolicyMargin' = 0
  BY <1>2 DEF PolicyMargin
<1>6. LooksInTime'
  BY <1>1, <1>2, <1>5, Periods DEF LooksInTime
<1>7. MemoryIsDated'
  BY <1>1, <1>2, <1>3 DEF PolicyInv, MemoryIsDated
<1>8. FloorIsKnown'
  BY <1>1, <1>2 DEF PolicyInv, FloorIsKnown
<1> QED
  BY <1>4, <1>6, <1>7, <1>8 DEF PolicyInv

\* A pull begins, fails, or ends in its digest.
LEMMA RefreshKeeps ==
  ASSUME PolicyInv, P!Pull \/ P!Rejected \/ P!Digested PROVE PolicyInv'
<1>1. UNCHANGED <<keyed, notifies, published, refused, floorFile, floor, running, age, settling, highest>>
  BY DEF P!Pull, P!Rejected, P!Digested, P!world
<1>2. CASE P!Pull
  <2>1. /\ puller = [at |-> "sleeping", left |-> 0] /\ puller' = [at |-> "pulling", left |-> Timeout]
        /\ UNCHANGED <<denying, digest, remembered>>
    BY <1>2 DEF P!Pull
  <2>2. /\ P!Up /\ P!Up' /\ PolicyMargin = Longest /\ PolicyMargin' = Longest + Timeout
        /\ puller.left = 0 /\ puller'.left = Timeout
    BY <2>1 DEF P!Up, PolicyMargin, Longest
  <2>3. PolicyTyped' /\ LooksInTime'
    BY <1>1, <2>1, <2>2, Periods DEF PolicyInv, PolicyTyped, LooksInTime
  <2>4. MemoryIsDated' /\ FloorIsKnown'
    BY <1>1, <2>1, <2>2 DEF PolicyInv, MemoryIsDated, FloorIsKnown
  <2> QED
    BY <2>3, <2>4 DEF PolicyInv
<1>3. CASE P!Rejected
  <2>1. puller.at = "pulling" /\ P!Sleep /\ UNCHANGED <<digest, remembered>> /\ P!Up
        /\ denying' = (denying \/ (FailClosed /\ P!Stale))
    BY <1>3 DEF P!Rejected, P!Up
  <2>2. FailClosed /\ ~denying' => age' <= MaxAge
    <3> SUFFICES ASSUME FailClosed, ~denying' PROVE age' <= MaxAge
      OBVIOUS
    <3>1. ~P!Stale
      BY <2>1
    <3> QED
      BY <1>1, <3>1, Periods DEF P!Stale, PolicyInv, PolicyTyped
  <2>3. denying' \in BOOLEAN /\ age' \in Nat
    BY <1>1, <2>1, Periods DEF PolicyInv, PolicyTyped
  <2>4. /\ puller' \in [at : {"down", "off", "sleeping", "pulling", "digesting"}, left : Nat]
        /\ puller'.at = "sleeping" /\ P!Up' /\ LooksInTime'
    BY <2>1, <2>2, <2>3, PolicyAsleep
  <2>5. PolicyTyped' /\ MemoryIsDated' /\ FloorIsKnown'
    BY <1>1, <2>1, <2>3, <2>4 DEF PolicyInv, PolicyTyped, MemoryIsDated, FloorIsKnown
  <2> QED
    BY <2>4, <2>5 DEF PolicyInv
<1>4. CASE P!Digested
  <2>1. /\ puller.at = "digesting" /\ digest' = running.content /\ P!Sleep /\ P!Up /\ denying' = denying
        /\ remembered' = (IF running.content # digest THEN {} ELSE remembered)
    BY <1>4 DEF P!Digested, P!Up
  <2>2. PolicyMargin = 0
    BY <2>1 DEF PolicyMargin
  <2>3. FailClosed /\ ~denying' => age' <= MaxAge
    BY <1>1, <2>1, <2>2, Periods DEF PolicyInv, PolicyTyped, LooksInTime
  <2>4. /\ puller' \in [at : {"down", "off", "sleeping", "pulling", "digesting"}, left : Nat]
        /\ puller'.at = "sleeping" /\ P!Up' /\ LooksInTime'
    BY <1>1, <2>1, <2>3, PolicyAsleep DEF PolicyInv, PolicyTyped
  <2>5. PolicyTyped' /\ MemoryIsDated' /\ FloorIsKnown'
    BY <1>1, <2>1, <2>4 DEF PolicyInv, PolicyTyped, MemoryIsDated, FloorIsKnown
  <2> QED
    BY <2>4, <2>5 DEF PolicyInv
<1> QED
  BY <1>2, <1>3, <1>4

\* Every step of the distribution keeps the invariant.
LEMMA PolicyStep ==
  ASSUME PolicyInv, [P!Next]_(P!vars) PROVE PolicyInv'
<1>1. CASE P!Refresh
  BY <1>1, RefreshKeeps, AdoptedKeeps, SwappedKeeps DEF P!Refresh
<1>2. CASE P!Boot
  BY <1>2, BootPulledKeeps, BootUnpulledKeeps, BootTokenlessKeeps, BootExitsKeeps DEF P!Boot
<1>3. ASSUME NEW b \in P!Bundle, P!Publish(b) PROVE PolicyInv'
  <2>1. /\ published' = published \cup {b} /\ (~keyed => b.version = 0)
        /\ UNCHANGED <<keyed, notifies, refused, floorFile, puller, floor, running, denying, digest, age,
                       remembered, settling, highest>>
    BY <1>3 DEF P!Publish
  <2>2. PolicyTyped' /\ LooksInTime' /\ MemoryIsDated'
    BY <2>1 DEF PolicyInv, PolicyTyped, LooksInTime, MemoryIsDated, PolicyMargin, P!Up, Longest
  <2>3. FloorIsKnown'
    BY <2>1 DEF PolicyInv, FloorIsKnown, P!Up
  <2> QED
    BY <2>2, <2>3 DEF PolicyInv
<1>4. CASE P!Decide \/ \E c \in Contents \cup {Local} : P!Resume(c)
  <2>1. P!Up /\ UNCHANGED <<keyed, notifies, published, refused, floorFile, puller, floor, running, denying, digest,
                            age, highest>>
    BY <1>4 DEF P!Decide, P!Resume, P!world
  <2>2. ~notifies => settling' = {} /\ remembered' \subseteq remembered \cup {running.content}
    BY <1>4 DEF P!Decide, P!Resume, PolicyInv, MemoryIsDated
  <2>3. PolicyTyped' /\ LooksInTime' /\ FloorIsKnown'
    BY <2>1 DEF PolicyInv, PolicyTyped, LooksInTime, FloorIsKnown, PolicyMargin, P!Up, Longest
  <2>4. MemoryIsDated'
    BY <2>1, <2>2 DEF PolicyInv, MemoryIsDated, P!Up
  <2> QED
    BY <2>3, <2>4 DEF PolicyInv
<1>5. CASE P!Pass
  <2>1. /\ P!Up /\ puller.left > 0 /\ puller' = [puller EXCEPT !.left = @ - 1]
        /\ age' = (IF age < P!Never THEN age + 1 ELSE P!Never)
        /\ UNCHANGED <<keyed, notifies, published, refused, floorFile, floor, running, denying, digest, remembered,
                       settling, highest>>
    BY <1>5 DEF P!Pass, P!world
  <2>2. puller'.at = puller.at /\ puller'.left = puller.left - 1 /\ age' \in Nat /\ age' <= age + 1
    BY <2>1, Periods DEF PolicyInv, PolicyTyped
  <2>3. PolicyTyped'
    BY <2>1, <2>2 DEF PolicyInv, PolicyTyped
  <2>4. PolicyMargin' = PolicyMargin /\ P!Up' /\ PolicyMargin \in Nat
    BY <2>1, <2>2, Periods DEF PolicyMargin, P!Up, Longest
  <2>5. LooksInTime'
    BY <2>1, <2>2, <2>4, Periods DEF PolicyInv, PolicyTyped, LooksInTime
  <2>6. MemoryIsDated' /\ FloorIsKnown'
    BY <2>1, <2>2, <2>4 DEF PolicyInv, MemoryIsDated, FloorIsKnown
  <2> QED
    BY <2>3, <2>5, <2>6 DEF PolicyInv
<1>6. CASE P!Crash
  <2>1. /\ puller' = [at |-> "down", left |-> 0] /\ remembered' = {} /\ settling' = {}
        /\ UNCHANGED <<keyed, notifies, published, refused, floorFile, floor, running, denying, digest, age, highest>>
    BY <1>6 DEF P!Crash
  <2>2. ~P!Up'
    BY <2>1 DEF P!Up
  <2> QED
    BY <2>1, <2>2 DEF PolicyInv, PolicyTyped, LooksInTime, MemoryIsDated, FloorIsKnown
<1>7. CASE UNCHANGED P!vars
  BY <1>7 DEF P!vars, P!world, PolicyInv, PolicyTyped, LooksInTime, MemoryIsDated, FloorIsKnown, PolicyMargin,
              P!Up, Longest
<1> QED
  BY <1>1, <1>2, <1>3, <1>4, <1>5, <1>6, <1>7 DEF P!Next

\* What the invariant says of the policy in force.
LEMMA PolicyIsFollowed ==
  PolicyInv => P!StaleIsClosed /\ P!MemoryFollowsPolicy /\ P!FloorIsEarned /\ P!RollbackNeedsAFault
<1> SUFFICES ASSUME PolicyInv
             PROVE  P!StaleIsClosed /\ P!MemoryFollowsPolicy /\ P!FloorIsEarned /\ P!RollbackNeedsAFault
  OBVIOUS
<1>1. P!StaleIsClosed
  <2>1. PolicyMargin \in {0, Longest, Longest + Timeout}
    BY DEF PolicyMargin
  <2> QED
    BY <2>1, Periods DEF PolicyInv, PolicyTyped, LooksInTime, P!StaleIsClosed
<1>2. P!MemoryFollowsPolicy
  BY DEF PolicyInv, MemoryIsDated, P!MemoryFollowsPolicy
<1>3. P!FloorIsEarned /\ P!RollbackNeedsAFault
  BY DEF PolicyInv, FloorIsKnown, P!FloorIsEarned, P!RollbackNeedsAFault
<1> QED
  BY <1>1, <1>2, <1>3

\* What a proxy that found its org token enforces is what its plane signed: under fail_closed no
\* policy outlives its age bound by more than a period and a fetch timeout, and no kill-set its
\* expiry. And of any proxy: nothing is remembered from under another policy, the floor is earned,
\* also by starts that end early, and a rollback takes a refused write.
THEOREM PlaneStaysFollowed ==
  ASSUME OneExpiry
  PROVE  PlaneSpec => []PlaneIsFollowed
<1>1. P!Spec => []PolicyInv
  BY PolicyStarts, PolicyStep, PTL DEF P!Spec
<1>2. PolicyInv /\ ExpiredDeniesAll => PlaneIsFollowed
  BY PolicyIsFollowed DEF PlaneIsFollowed
<1>3. Spec => []ExpiredDeniesAll
  BY ExpiryStays
<1> QED
  BY <1>1, <1>2, <1>3, PlaneIsBoth, PTL

\* So what holds of the kill-set alone holds of a proxy and its plane.
THEOREM PlaneKeepsTheKillSet ==
  PlaneSpec => []EnforcedIsPersisted /\ []StaleDeniesAll /\ OnlyANewerSetRestores
  BY PlaneIsBoth, RestartKeepsTheSet, StaleIsDenied, ReplayRestoresNobody, PTL
===============================================================================
