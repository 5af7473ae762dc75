-------------------------------- MODULE MCPlane --------------------------------
(* One proxy and its plane: the kill-set it pulls (FleetRevocation) and the policy it pulls  *)
(* (PolicyDistribution).  Two loops of cli/run.ts on two files and two mirrors: they share   *)
(* the settings and nothing that moves, so a course is of one or of the other.               *)
EXTENDS FleetRevocation

CONSTANTS
  rogue, other,
  Modes, Notifiers, Contents, Uncompilable, Undeclared, Local, MaxVersion,
  PolicyCrashes

VARIABLES
  subject,  \* what this course is of: "killset" or "policy"
  keyed, notifies, published, floorFile, refused, restarts, puller,
  floor, running, denying, digest, age, remembered, settling, highest

policyVars == <<keyed, notifies, published, floorFile, refused, restarts, puller, floor,
                running, denying, digest, age, remembered, settling, highest>>
planeVars == <<subject, vars, policyVars>>

P == INSTANCE PolicyDistribution WITH
  signed <- keyed, faults <- refused, crashes <- restarts, loop <- puller, closed <- denying,
  MaxCrashes <- PolicyCrashes

ASSUME PolicyTiming == P!TimingAssumption

Set(v, agents, expires) == [version |-> v, agents |-> agents, expires |-> expires]

\* Cut one off, sign that version again with nobody in it, then cut both off, then restore
\* the first.  Signed again with another expiry, ExpiredDeniesAll does not hold: see
\* MirrorsTheStore.
SignedSets ==
  {Set(1, {rogue}, 5), Set(1, {}, 5), Set(2, {rogue, other}, 6), Set(2, {}, 6), Set(3, {other}, 0)}

\* A notifier delays answers alike under either refresh: it is configured under the unsigned one.
PlaneInit ==
  /\ Init /\ P!Init
  /\ notifies => ~keyed
  /\ \/ subject = "policy"
     \/ subject = "killset" /\ keyed

OfKillSet(A) == subject = "killset" /\ A /\ UNCHANGED <<subject, policyVars>>
OfPolicy(A) == subject = "policy" /\ A /\ UNCHANGED <<subject, vars>>

\* The fairness of PolicyDistribution, which a course of the kill-set owes nothing.
PlaneSpec ==
  /\ PlaneInit /\ [][OfKillSet(Next) \/ OfPolicy(P!Next)]_planeVars
  /\ WF_planeVars(OfPolicy(P!Pass))
  /\ WF_planeVars(OfPolicy(P!Refresh))
  /\ WF_planeVars(OfPolicy(P!Boot))
  /\ SF_planeVars(OfPolicy(\E b \in published :
                    b.version = P!Newest /\ (P!Adopted(b) \/ P!Swapped(b))))

\* What a proxy enforces is what its plane signed, no older than it once was, no longer
\* than it was signed for, and with nothing remembered from under another policy.
PlaneIsFollowed ==
  /\ P!StaleIsClosed
  /\ P!MemoryFollowsPolicy
  /\ P!FloorIsEarned
  /\ P!RollbackNeedsAFault
  /\ ExpiredDeniesAll

\* Converges of PolicyDistribution: a fleet converges without a restart.
FleetConverges == subject = "policy" => P!Converges
=============================================================================
