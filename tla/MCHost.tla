-------------------------------- MODULE MCHost --------------------------------
(* The machine a proxy runs on: who owns the agents' socket (SocketMode), the list of cut-off *)
(* agents (KillSwitch), grenz.yaml and the age vault (ConfigWrites), a credential read from a *)
(* vault elsewhere (VaultCache), a command that waits for the plane's approval (DeviceFlow),  *)
(* what watches the log (Observers), and an answer on its way to the agent (AnswerStream).    *)
(* They share no state, so a course is of one of them.                                        *)
EXTENDS SocketMode

CONSTANTS
  Agents, Proxy, Commands, Torn, KillInodes,
  Ids, Ups, Clis, Mints, OrgKey, OtherKey, ConfigInodes, bot, new,
  Callers, Values, Absent, Failed, Ttl, Timeout, Horizon,
  MinInterval, MaxInterval, MinLifetime, MaxLifetime, MaxFailures, Offers, LastSecond,
  Watched, Keys, MaxKeys, RiskWindow, PerDenial, DenialCap, RateFrom, RateBonus, DistinctFrom, PerDistinct,
  ElevatedAt, HighAt, LastTick, MaxRequests,
  MaxBytes, ChunkSizes, MaxBody

VARIABLES
  subject,  \* what this course is of
  file, ktmp, data, phase, listed, cmd, job, promised, cleared,
  config, tmp, disk, vault, cli, mint, up, live, wanted, stale, mixed,
  secret, last, cache, flight, caller, now,
  at, second, deadline, interval, failures, wakes, code, asked, lost,
  tick, open, log, through, canary, levels, sent, flushes, crossed, observed, told,
  limit, answer, head, flagged, produced, sentBytes

killVars == <<file, ktmp, data, phase, listed, cmd, job, promised, cleared>>
configVars == <<config, tmp, disk, vault, cli, mint, up, live, wanted, stale, mixed>>
vaultVars == <<secret, last, cache, flight, caller, now>>
flowVars == <<at, second, deadline, interval, failures, wakes, code, asked, lost>>
watchVars == <<tick, open, log, through, canary, levels, sent, flushes, crossed, observed, told>>
streamVars == <<limit, answer, head, flagged, produced, sentBytes>>
hostVars == <<subject, vars, killVars, configVars, vaultVars, flowVars, watchVars, streamVars>>

K == INSTANCE KillSwitch WITH
  Clis <- Commands, Inodes <- KillInodes, tmp <- ktmp, live <- listed

\* grenz.yaml as `grenz init` leaves it.
FirstText ==
  [agents |-> {[id |-> bot, token |-> None, decoy |-> FALSE]}, ups |-> [u \in Ups |-> "absent"], plane |-> FALSE]

F == INSTANCE ConfigWrites WITH Inodes <- ConfigInodes

V == INSTANCE VaultCache

D == INSTANCE DeviceFlow WITH tick <- second, LastTick <- LastSecond

\* The candidate agrees, is stricter, or is looser.
Compared == {<<"allow", "allow">>, <<"allow", "deny">>, <<"deny", "require_approval">>}

O == INSTANCE Observers WITH Agents <- Watched, Verdicts <- Compared

A == INSTANCE AnswerStream WITH sent <- sentBytes

ASSUME KillSwitchIsSound == K!OverlapAssumption /\ K!ProxyAssumption /\ K!FileAssumption
ASSUME FilesAreSound == F!ConfigAssumption
ASSUME IntakeIsSound == V!VaultAssumption /\ A!StreamAssumption
ASSUME WaitAndWatchAreSound == D!FlowAssumption /\ O!ObserverAssumption

\* What the other courses start from: one state each.
AtRest ==
  /\ subject # "socket" => path = None
  /\ subject # "vault" => secret = Absent
  /\ subject # "stream" => limit = [bytes |-> MaxBody + 1, exceed |-> "truncate"]

HostInit ==
  /\ Init /\ K!Init /\ F!Init /\ V!Init /\ D!Init /\ O!Init /\ A!Init
  /\ subject \in {"socket", "killswitch", "config", "vault", "device", "log", "stream"}
  /\ AtRest

OfSocket(Act) == subject = "socket" /\ Act /\ UNCHANGED <<subject, killVars, configVars, vaultVars, flowVars, watchVars, streamVars>>
OfKillSwitch(Act) == subject = "killswitch" /\ Act /\ UNCHANGED <<subject, vars, configVars, vaultVars, flowVars, watchVars, streamVars>>
OfConfig(Act) == subject = "config" /\ Act /\ UNCHANGED <<subject, vars, killVars, vaultVars, flowVars, watchVars, streamVars>>
OfVault(Act) == subject = "vault" /\ Act /\ UNCHANGED <<subject, vars, killVars, configVars, flowVars, watchVars, streamVars>>
OfDevice(Act) == subject = "device" /\ Act /\ UNCHANGED <<subject, vars, killVars, configVars, vaultVars, watchVars, streamVars>>
OfLog(Act) == subject = "log" /\ Act /\ UNCHANGED <<subject, vars, killVars, configVars, vaultVars, flowVars, streamVars>>
OfStream(Act) == subject = "stream" /\ Act /\ UNCHANGED <<subject, vars, killVars, configVars, vaultVars, flowVars, watchVars>>

HostNext ==
  \/ OfSocket(Next) \/ OfKillSwitch(K!Next) \/ OfConfig(F!Next)
  \/ OfVault(V!Next) \/ OfDevice(D!Next) \/ OfLog(O!Next) \/ OfStream(A!Next)

\* The fairness of SocketMode and of DeviceFlow.
HostSpec ==
  /\ HostInit /\ [][HostNext]_hostVars
  /\ \A p \in Proxies : WF_hostVars(OfSocket(Step(p)))
  /\ WF_hostVars(OfDevice(D!Tick)) /\ WF_hostVars(OfDevice(D!Ask)) /\ WF_hostVars(OfDevice(D!Answer))

\* What the operator was told about an agent holds, and a proxy can always start from the
\* list: CutOffSurvives, RestoresAreKept and NeverLeftTorn of KillSwitch.
WordIsKept == K!CutOffSurvives /\ K!RestoresAreKept /\ K!NeverLeftTorn

\* grenz.yaml is what the reported changes amount to, and loads: NothingIsLost and
\* StillLoads of ConfigWrites.
FileIsKept == F!NothingIsLost /\ F!StillLoads

\* `grenz connect` waits within bounds, and grenz.yaml names no vault key that is not there:
\* PaceIsKept of DeviceFlow and SourceHasItsToken of ConfigWrites.
ConnectIsSafe == D!PaceIsKept /\ F!SourceHasItsToken

\* Reports, canary and alerts say what was logged: CountedOnce, CanaryIsHonest and
\* DangerIsTold of Observers.
WatchersAreHonest == O!WatchersAreHonest

\* A stale socket is recovered from and a wait for approval ends: Recovers of SocketMode and
\* FlowEnds of DeviceFlow.
NoneWaitsForEver == Recovers /\ D!FlowEnds

\* A credential is no older than its time to live and an answer no longer than its cap:
\* AnswersAreRecent of VaultCache and CapHolds of AnswerStream.
IntakeIsBounded == V!AnswersAreRecent /\ A!CapHolds
===============================================================================
