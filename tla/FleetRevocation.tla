--------------------------- MODULE FleetRevocation ---------------------------
(***************************************************************************)
(* The fleet kill-set: FleetRevocationStore and its file                   *)
(* (revocation/store.ts), verifyRevocationSet(), the startup pull of       *)
(* cli/run.ts, refreshRevocationsOnce() (revocation/refresh.ts), and the   *)
(* staleness check that denies everything, as dispatch() reads them.       *)
(*                                                                         *)
(* The organisation signs sets, the plane serves any of them or nothing,   *)
(* a write may be refused, and the process may die and be started again.   *)
(* The clock is absolute because a signed set carries its expiry.          *)
(***************************************************************************)
EXTENDS Naturals, FiniteSets

CONSTANTS
  Agents,
  FailClosed,  \* on_revocation_stale: fail_closed, else warn
  MaxAge,      \* revocation_max_age_seconds, in ticks
  Delays,      \* revocation_refresh_seconds with its jitter, in ticks
  Timeout,     \* FETCH_TIMEOUT_MS, in ticks
  Sets,        \* the sets the organisation may sign: [version, agents, expires]
  SignsTwice,  \* it may sign one version twice
  MaxTime,     \* the end of the run (a bound)
  MaxFaults,   \* refused writes (a bound)
  MaxCrashes   \* restarts (a bound)

Versions == {s.version : s \in Sets}
Empty == [version |-> 0, agents |-> {}, expires |-> 0]

ASSUME SetsAssumption ==
  /\ Sets \subseteq [version : Nat \ {0}, agents : SUBSET Agents, expires : Nat]
  /\ Delays \subseteq Nat \ {0} /\ \E d \in Delays : \A e \in Delays : e <= d
  /\ FailClosed \in BOOLEAN
  /\ MaxAge \in Nat /\ Timeout \in Nat /\ MaxTime \in Nat

VARIABLES
  signed,    \* what the organisation has signed so far
  now, faults, crashes,
  file,      \* fleet-revocations.json
  store,     \* FleetRevocationStore: the set enforced, its version and expiry
  state,     \* revocationDistribution: version, count, expires, pulledAt
  closed,    \* revocationDistribution.staleClosed
  loop       \* the refresh loop: where it is, and until when

disk == <<signed, now, faults, crashes>>
vars == <<disk, file, store, state, closed, loop>>

\* 0 stands for no expiry, as 0 stands for a pull that never happened.
Longest == CHOOSE d \in Delays : \A e \in Delays : e <= d

Up == loop.at # "down"

Mirror(set, at) == [version |-> set.version, count |-> Cardinality(set.agents), expires |-> set.expires, pulledAt |-> at]

\* Age alone.
StaleByAge(s, t) == t - s.pulledAt > MaxAge \/ s.pulledAt = 0

\* isRevocationStale(): by age or by expiry.
StaleState(s, t) == t - s.pulledAt > MaxAge \/ s.pulledAt = 0 \/ (s.expires # 0 /\ t > s.expires)

TypeOK ==
  /\ signed \subseteq Sets
  /\ now \in 1..MaxTime
  /\ {file, store} \subseteq Sets \union {Empty}
  /\ state \in [version : Versions \union {0}, count : 0..Cardinality(Agents),
                expires : Nat, pulledAt : 0..now]
  /\ closed \in BOOLEAN
  /\ loop \in [at : {"down", "sleeping", "pulling"}, until : 0..(MaxTime + Longest + Timeout)]

Init ==
  /\ signed = {}
  /\ now = 1 /\ faults = 0 /\ crashes = 0
  /\ file = Empty /\ store = Empty
  /\ state = Mirror(Empty, 0)
  /\ closed = FALSE
  /\ loop = [at |-> "down", until |-> 0]

-----------------------------------------------------------------------------
Newest == CHOOSE v \in {s.version : s \in signed} \union {0} : \A s \in signed : s.version <= v

Sign(s) ==
  /\ s \in Sets \ signed
  /\ s.version = Newest + 1 \/ (SignsTwice /\ s.version = Newest)
  /\ signed' = signed \union {s}
  /\ UNCHANGED <<now, faults, crashes, file, store, state, closed, loop>>

\* verifyRevocationSet(): signed, and not below the floor.
Verifies(s, floor) == s \in signed /\ s.version >= floor

\* replace(): the file first, then memory.
Replace(s, was) ==
  /\ file' = s /\ store' = s
  /\ UNCHANGED faults

\* A replace() that has swapped memory when the disk refuses.
KeepCachedSwapped(s, was) ==
  /\ faults < MaxFaults
  /\ faults' = faults + 1
  /\ file' = was /\ store' = s

\* The disk refuses: the set in force stays in force.
KeepCached(s, was) ==
  /\ faults < MaxFaults
  /\ faults' = faults + 1
  /\ file' = was /\ store' = was

Sleep == \E d \in Delays : loop' = [at |-> "sleeping", until |-> now + d]

Check(s) == closed' = (FailClosed /\ StaleState(s, now))

-----------------------------------------------------------------------------
\* Startup, over what the file holds; the first pull overwrites the mirror with the
\* document it got, also when that version is already in force.

BootPulled(s) ==
  /\ ~Up /\ Verifies(s, file.version)
  /\ \/ /\ IF s.version = file.version THEN store' = file /\ UNCHANGED <<file, faults>> ELSE Replace(s, file)
        /\ state' = Mirror(s, now)
     \/ s.version # file.version /\ KeepCached(s, file) /\ state' = Mirror(file, 0)
  /\ Check(state')
  /\ Sleep
  /\ UNCHANGED <<signed, now, crashes>>

BootUnpulled ==
  /\ ~Up
  /\ store' = file
  /\ state' = Mirror(file, 0)
  /\ Check(state')
  /\ Sleep
  /\ UNCHANGED <<disk, file>>

-----------------------------------------------------------------------------
\* The refresh loop.

Pull ==
  /\ loop.at = "sleeping" /\ loop.until = now
  /\ loop' = [at |-> "pulling", until |-> now + Timeout]
  /\ UNCHANGED <<disk, file, store, state, closed>>

\* A refresh that takes a re-served version for a new one.
PulledAnew(s) ==
  /\ loop.at = "pulling" /\ Verifies(s, store.version)
  /\ Replace(s, store) /\ state' = Mirror(s, now)
  /\ Check(state')
  /\ Sleep
  /\ UNCHANGED <<signed, now, crashes>>

\* An unchanged version only advances the liveness clock; a refused write nothing.
Pulled(s) ==
  /\ loop.at = "pulling" /\ Verifies(s, store.version)
  /\ IF s.version = store.version
     THEN /\ state' = [state EXCEPT !.pulledAt = now, !.version = s.version]
          /\ UNCHANGED <<file, store, faults>>
     ELSE \/ Replace(s, store) /\ state' = Mirror(s, now)
          \/ KeepCached(s, store) /\ UNCHANGED state
  /\ Check(state')
  /\ Sleep
  /\ UNCHANGED <<signed, now, crashes>>

\* A loop that checks only after a good pull.
RejectedUnchecked ==
  /\ loop.at = "pulling"
  /\ Sleep
  /\ UNCHANGED <<disk, file, store, state, closed>>

\* Any failure keeps the cached set; the check runs all the same.
Rejected ==
  /\ loop.at = "pulling"
  /\ Check(state)
  /\ Sleep
  /\ UNCHANGED <<disk, file, store, state>>

Pass ==
  /\ now < MaxTime
  /\ Up => now < loop.until
  /\ now' = now + 1
  /\ UNCHANGED <<signed, faults, crashes, file, store, state, closed, loop>>

Crash ==
  /\ Up /\ crashes < MaxCrashes
  /\ crashes' = crashes + 1
  /\ loop' = [at |-> "down", until |-> 0]
  /\ UNCHANGED <<signed, now, faults, file, store, state, closed>>

Next ==
  \/ \E s \in Sets : Sign(s) \/ BootPulled(s) \/ Pulled(s)
  \/ BootUnpulled \/ Pull \/ Rejected
  \/ Pass \/ Crash

Spec == Init /\ [][Next]_vars

\* What dispatch() refuses of the fleet set.
CutOff(a) == Up /\ (closed \/ a \in store.agents)

-----------------------------------------------------------------------------

(* A restart enforces what was enforced before it: the set in memory is    *)
(* the one on disk at every moment a process could die, whatever the disk  *)
(* refused and the plane served.                                           *)
EnforcedIsPersisted == Up => store = file

(* docs/quickstart.md: nobody un-revokes the fleet by replaying an older   *)
(* set, by serving the current version with other content, by an outage or *)
(* a restart: an agent leaves the set in force only by a newer version.    *)
OnlyANewerSetRestores ==
  [][\A a \in file.agents \ file'.agents : file'.version > file.version]_vars

(* With on_revocation_stale: fail_closed no request is let through later   *)
(* than one refresh period and one fetch timeout after the set became too  *)
(* old.                                                                    *)
StaleDeniesAll ==
  Up /\ FailClosed /\ ~closed => now <= state.pulledAt + MaxAge + Longest + Timeout

(* The same for a set whose signed expiry has passed.                      *)
ExpiredDeniesAll ==
  Up /\ FailClosed /\ ~closed /\ store.expires # 0 => now <= store.expires + Longest + Timeout

\* What a document or a comment says and the code does not do: README.md, section 4.

(* revocation/refresh.ts: whoever serves the endpoint must not be able to  *)
(* move the staleness clock or the gauge away from what is enforced.       *)
MirrorsTheStore ==
  Up => /\ state.version = store.version
        /\ state.count = Cardinality(store.agents)
        /\ state.expires = store.expires
=============================================================================
