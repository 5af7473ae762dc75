-------------------------- MODULE PolicyDistribution --------------------------
(***************************************************************************)
(* A proxy whose policy_source is a plane: the startup pull of cli/run.ts, *)
(* the refresh loop with its staleness check, refreshOnce() and            *)
(* refreshUnsignedOnce() of distribution/refresh.ts, the anti-rollback     *)
(* floor of distribution/version-store.ts and PolicyStore's closed slot.   *)
(*                                                                         *)
(* Around it: an organisation that signs bundles, a plane that serves any  *)
(* of them, or nothing, a disk that may refuse a write, a process that may *)
(* die, and humans whose decisions are remembered.  Time is counted in     *)
(* relative clocks that saturate, so nothing bounds the length of a run.   *)
(*                                                                         *)
(* refresh_seconds is not 0 here: then there is no loop at all, and the    *)
(* schema refuses a max_age_seconds, so that nothing is ever stale.        *)
(***************************************************************************)
EXTENDS Naturals, FiniteSets

CONSTANTS
  Modes,        \* whether policy_source.public_key may be set: a subset of BOOLEAN
  FailClosed,   \* on_stale: fail_closed, else warn
  Notifiers,    \* whether a notifier may be configured: a subset of BOOLEAN
  MaxAge,       \* max_age_seconds, in ticks
  Delays,       \* refresh_seconds with its jitter, in ticks
  Timeout,      \* FETCH_TIMEOUT_MS, in ticks
  Contents,     \* what a bundle may hold
  Uncompilable, \* contents that do not compile
  Undeclared,   \* contents whose profiles do not merge over the default
  Local,        \* the local policy.yaml
  MaxVersion,   \* versions the organisation signs (a bound on the run)
  MaxFaults,    \* refused writes (a bound on the run)
  MaxCrashes    \* restarts (a bound on the run)

TimingAssumption ==
  /\ MaxAge \in Nat \ {0}
  /\ Delays \subseteq Nat \ {0} /\ Delays # {}
  /\ Timeout \in Nat \ {0}

VARIABLES
  signed,     \* policy_source.public_key is set, for as long as this runs
  notifies,   \* a notifier is configured, so awaitApproval() awaits it
  published,  \* bundles the organisation has signed
  floorFile,  \* policy-version on disk
  faults, crashes,
  loop,       \* the refresh loop: where it is, and the ticks it may stay there; "off" if
              \* this start found no org token
  floor,      \* PolicyVersionStore.version
  running,    \* the bundle PolicyStore.def was compiled from
  closed,     \* PolicyStore.closed is set
  digest,     \* policyDistribution.digest
  age,        \* ticks since policyDistribution.lastVerifiedPullAt
  remembered, \* policies under which the decisions in approval memory were made
  settling,   \* policies under which decisions were made that await their announcement
  highest     \* history: the highest version ever adopted

world == <<signed, notifies, published, faults, crashes>>
vars == <<world, floorFile, loop, floor, running, closed, digest, age, remembered, settling, highest>>

Longest == CHOOSE d \in Delays : \A e \in Delays : e <= d

\* An age that can only be reached by a loop that missed its check.  A proxy that
\* never pulled has it: lastVerifiedPullAt is the epoch.
Never == MaxAge + Longest + Timeout + 1

Bundle == [version : 0..MaxVersion, content : Contents]
LocalPolicy == [version |-> 0, content |-> Local]

Up == loop.at # "down"
Stale == age > MaxAge

TypeOK ==
  /\ signed \in Modes /\ notifies \in Notifiers
  /\ published \subseteq Bundle
  /\ floorFile \in 0..MaxVersion /\ floor \in 0..MaxVersion /\ highest \in 0..MaxVersion
  /\ loop \in [at : {"down", "off", "sleeping", "pulling", "digesting"}, left : 0..(Longest + Timeout)]
  /\ running \in Bundle \union {LocalPolicy}
  /\ closed \in BOOLEAN
  /\ digest \in Contents \union {Local}
  /\ age \in 0..Never
  /\ remembered \subseteq Contents \union {Local}
  /\ settling \subseteq Contents \union {Local}

Init ==
  /\ signed \in Modes /\ notifies \in Notifiers
  /\ published = {}
  /\ floorFile = 0 /\ floor = 0 /\ highest = 0
  /\ faults = 0 /\ crashes = 0
  /\ loop = [at |-> "down", left |-> 0]
  /\ running = LocalPolicy /\ digest = Local
  /\ closed = FALSE
  /\ age = Never
  /\ remembered = {} /\ settling = {}

-----------------------------------------------------------------------------
\* The organisation and the plane.

Newest == CHOOSE v \in {b.version : b \in published} \union {0} : \A b \in published : b.version <= v

\* A new version, or the newest one again with other content; what is not signed has no
\* version and brings no profiles.
Publish(b) ==
  /\ IF signed THEN b.version \in {Newest, Newest + 1} \ {0}
               ELSE b.version = 0 /\ b.content \notin Undeclared
  /\ published' = published \union {b}
  /\ UNCHANGED <<signed, notifies, faults, crashes, floorFile, loop, floor, running, closed, digest, age, remembered, settling, highest>>

\* verifyPolicyBundle() refuses what is below the floor; the store what does not
\* compile or merge.
Usable(b) == b.content \notin Uncompilable \union Undeclared

AcceptableUnfloored(b) == b \in published /\ Usable(b)

Acceptable(b) == b \in published /\ b.version >= floor /\ Usable(b)

-----------------------------------------------------------------------------
\* Startup.

Sleep == \E d \in Delays : loop' = [at |-> "sleeping", left |-> d]

CheckStaleness(pulled) == closed' = (FailClosed /\ ~pulled)

\* A verified bundle is adopted and its version burnt before the proxy serves.
BootPulled(b) ==
  /\ ~Up /\ b \in published /\ b.version >= floorFile /\ Usable(b)
  /\ running' = b /\ digest' = b.content
  /\ floor' = b.version /\ floorFile' = b.version
  /\ highest' = IF b.version > highest THEN b.version ELSE highest
  /\ age' = 0
  /\ CheckStaleness(TRUE)
  /\ Sleep
  /\ UNCHANGED <<world, remembered, settling>>

\* No answer, or one that verification or the compiler refuses: with fail_closed, the loop's
\* first check closes before anything is served.
BootUnpulled ==
  /\ ~Up
  /\ running' = LocalPolicy /\ digest' = Local
  /\ floor' = floorFile
  /\ age' = Never
  /\ CheckStaleness(FALSE)
  /\ Sleep
  /\ UNCHANGED <<world, floorFile, highest, remembered, settling>>

\* No org token in the vault.  With a pinned key the start ends; without one it serves the local
\* file, and neither the loop nor its staleness check ever runs.
BootTokenless ==
  /\ ~Up /\ ~signed
  /\ running' = LocalPolicy /\ digest' = Local
  /\ floor' = floorFile
  /\ age' = Never /\ closed' = FALSE
  /\ loop' = [at |-> "off", left |-> 0]
  /\ UNCHANGED <<world, floorFile, highest, remembered, settling>>

Verified(b) == ~Up /\ signed /\ b \in published /\ b.version >= floorFile /\ b.content \notin Uncompilable

\* A start that burns the version before it looks at the profiles.
BootExitsBurnt(b) ==
  /\ Verified(b) /\ b.content \in Undeclared
  /\ crashes < MaxCrashes /\ crashes' = crashes + 1
  /\ floorFile' = b.version
  /\ UNCHANGED <<signed, notifies, published, faults, loop, floor, running, closed, digest, age, remembered, settling, highest>>

\* A verified bundle ends the start, before its version is burnt: its profiles do not merge, or
\* the disk refuses the floor.
BootExits(b) ==
  /\ Verified(b)
  /\ \/ b.content \in Undeclared /\ faults' = faults
     \/ /\ b.content \notin Undeclared /\ b.version > floorFile
        /\ faults < MaxFaults /\ faults' = faults + 1
  /\ crashes < MaxCrashes /\ crashes' = crashes + 1
  /\ UNCHANGED <<signed, notifies, published, floorFile, loop, floor, running, closed, digest, age, remembered, settling, highest>>

-----------------------------------------------------------------------------
\* The refresh loop.

Pull ==
  /\ loop = [at |-> "sleeping", left |-> 0]
  /\ loop' = [at |-> "pulling", left |-> Timeout]
  /\ UNCHANGED <<world, floorFile, floor, running, closed, digest, age, remembered, settling, highest>>

\* PolicyVersionStore.accept(): memory first, then the disk, which may refuse.
Accept(version) ==
  /\ floor' = version
  /\ \/ version > floor /\ floorFile' = version /\ UNCHANGED world
     \/ version <= floor /\ UNCHANGED <<floorFile, world>>
     \/ /\ version > floor /\ faults < MaxFaults
        /\ faults' = faults + 1
        /\ UNCHANGED <<signed, notifies, floorFile, published, crashes>>

\* Only a new version clears the memory, whatever the digest.
ForgetsByVersion(b) == b.version # floor

\* onAdopted() runs for a new version, and for new content under an old one.
Forgets(b) == b.version # floor \/ b.content # digest

\* An adoption that leaves the deny-all in force.
AdoptedStillClosed(b) ==
  /\ loop.at = "pulling" /\ signed
  /\ Acceptable(b)
  /\ running' = b /\ digest' = b.content /\ age' = 0
  /\ remembered' = IF Forgets(b) THEN {} ELSE remembered
  /\ highest' = IF b.version > highest THEN b.version ELSE highest
  /\ Accept(b.version)
  /\ Sleep
  /\ UNCHANGED <<settling, closed>>

Adopted(b) ==
  /\ loop.at = "pulling" /\ signed
  /\ Acceptable(b)
  /\ running' = b /\ closed' = FALSE /\ digest' = b.content /\ age' = 0
  /\ remembered' = IF Forgets(b) THEN {} ELSE remembered
  /\ highest' = IF b.version > highest THEN b.version ELSE highest
  /\ Accept(b.version)
  /\ Sleep
  /\ UNCHANGED settling

\* The staleness check of a loop that skips it when a pull has failed.
RejectedUnchecked ==
  /\ loop.at = "pulling"
  /\ Sleep
  /\ UNCHANGED <<world, floorFile, floor, running, closed, digest, age, remembered, settling, highest>>

\* A pull that burns the version of what it could not use.
RejectedBurnt ==
  /\ loop.at = "pulling"
  /\ \E b \in published : ~Usable(b) /\ b.version > floor /\ floor' = b.version
  /\ closed' = (closed \/ (FailClosed /\ Stale))
  /\ Sleep
  /\ UNCHANGED <<world, floorFile, running, digest, age, remembered, settling, highest>>

\* Any failure keeps what is in force, and the clock runs on.
Rejected ==
  /\ loop.at = "pulling"
  /\ closed' = (closed \/ (FailClosed /\ Stale))
  /\ Sleep
  /\ UNCHANGED <<world, floorFile, floor, running, digest, age, remembered, settling, highest>>

\* The unsigned refresh swaps, and then awaits the digest.
Swapped(b) ==
  /\ loop.at = "pulling" /\ ~signed
  /\ Acceptable(b)
  /\ running' = b /\ closed' = FALSE /\ age' = 0
  /\ loop' = [at |-> "digesting", left |-> 0]
  /\ UNCHANGED <<world, floorFile, floor, digest, remembered, settling, highest>>

Digested ==
  /\ loop.at = "digesting"
  /\ digest' = running.content
  /\ remembered' = IF running.content # digest THEN {} ELSE remembered
  /\ Sleep
  /\ UNCHANGED <<world, floorFile, floor, running, closed, age, settling, highest>>

-----------------------------------------------------------------------------
\* Decisions, time, and the end of the process.

\* A human answers a static prompt, under the policy then in force; with a notifier the
\* answer may reach the memory only when the announcement of the prompt has returned.
Decide ==
  /\ Up
  /\ IF notifies THEN /\ settling' = settling \union {running.content}
                      /\ UNCHANGED remembered
                 ELSE /\ remembered' = remembered \union {running.content}
                      /\ UNCHANGED settling
  /\ UNCHANGED <<world, floorFile, loop, floor, running, closed, digest, age, highest>>

Resume(c) ==
  /\ Up /\ c \in settling
  /\ settling' = settling \ {c}
  /\ remembered' = remembered \union {c}
  /\ UNCHANGED <<world, floorFile, loop, floor, running, closed, digest, age, highest>>

Pass ==
  /\ Up /\ loop.left > 0
  /\ loop' = [loop EXCEPT !.left = @ - 1]
  /\ age' = IF age < Never THEN age + 1 ELSE Never
  /\ UNCHANGED <<world, floorFile, floor, running, closed, digest, remembered, settling, highest>>

Crash ==
  /\ Up /\ crashes < MaxCrashes
  /\ crashes' = crashes + 1
  /\ loop' = [at |-> "down", left |-> 0]
  /\ remembered' = {} /\ settling' = {}
  /\ UNCHANGED <<signed, notifies, published, faults, floorFile, floor, running, closed, digest, age, highest>>

Refresh == Pull \/ Rejected \/ Digested \/ \E b \in Bundle : Adopted(b) \/ Swapped(b)

Boot == BootUnpulled \/ BootTokenless \/ \E b \in Bundle : BootPulled(b) \/ BootExits(b)

Next ==
  \/ Refresh
  \/ Boot
  \/ \E b \in Bundle : Publish(b)
  \/ Decide \/ \E c \in Contents \union {Local} : Resume(c)
  \/ Pass \/ Crash

Spec == Init /\ [][Next]_vars

-----------------------------------------------------------------------------
\* Timers fire and fetches end; the process is started again when it died.
Running == WF_vars(Pass) /\ WF_vars(Refresh) /\ WF_vars(Boot)

NewestUsable == \A b \in published : b.version = Newest => Usable(b)

\* The plane answers with the newest version again and again.
PlaneServes == SF_vars(\E b \in published : b.version = Newest /\ (Adopted(b) \/ Swapped(b)))

LiveSpec == Spec /\ Running /\ PlaneServes

-----------------------------------------------------------------------------

(* docs/quickstart.md: with on_stale: fail_closed, a policy nothing has    *)
(* verified inside max_age_seconds is not enforced.  The check only runs   *)
(* with the refresh loop, so the bound is max_age plus one period and one  *)
(* fetch timeout; a proxy whose first pull was rejected serves nothing at  *)
(* all.  A proxy that found no org token has no loop: see UnpulledDenies.  *)
StaleIsClosed == Up /\ loop.at # "off" /\ FailClosed /\ ~closed => age <= MaxAge + Longest + Timeout

(* run.ts: "a policy change invalidates remembered decisions": what the    *)
(* memory holds was decided under the policy in force, whatever the plane  *)
(* re-publishes or re-serves - except while an unsigned refresh, which has *)
(* swapped already, awaits its digest, and except for answers that waited  *)
(* for a notifier when the policy changed.                                 *)
MemoryFollowsPolicy ==
  ~notifies /\ loop.at # "digesting" => remembered \subseteq {running.content}

(* Rejecting older versions: a proxy runs what is at least the highest     *)
(* version it ever adopted, or has fallen back to its local file, as long  *)
(* as every write of the floor has succeeded.                              *)
RollbackNeedsAFault == Up /\ faults = 0 => running.version \in {0} \union highest..MaxVersion

(* refreshOnce(): an authentic bundle that cannot be used burns no         *)
(* version - the floor, in memory and on disk, never passes what was       *)
(* adopted - or a legitimate re-publish of it would be refused forever.    *)
FloorIsEarned == floorFile <= highest /\ floor <= highest

(* A fleet converges without a restart: while the plane keeps serving a    *)
(* usable newest version, every proxy ends up running it, and one that had *)
(* swapped to deny-all opens again, unless it has been started without an  *)
(* org token.                                                              *)
Converges == []<>(NewestUsable /\ published # {} /\ loop.at # "off" => running.version = Newest /\ ~closed)

\* What a document or a comment says and the code does not do: README.md, section 4.

(* docs/quickstart.md: "A proxy that has never pulled counts as infinitely *)
(* stale", and with fail_closed it denies, whether or not a key is pinned. *)
UnpulledDenies == Up /\ FailClosed /\ age = Never => closed

(* docs/quickstart.md: "each proxy persists the highest version it has     *)
(* accepted and refuses anything below it".                                *)
NeverRollsBack == Up /\ running.version > 0 => running.version >= highest

(* docs/quickstart.md: at startup as on each refresh, a failed pull leaves *)
(* the last-good policy in force.                                          *)
LastGoodStays == Up /\ ~closed /\ highest > 0 => running.version > 0
=============================================================================
