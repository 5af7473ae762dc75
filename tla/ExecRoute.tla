------------------------------ MODULE ExecRoute ------------------------------
(***************************************************************************)
(* The shell guard: POST /exec in the daemon (proxy/exec-route.ts and      *)
(* server.ts handleExec) and the process that asks it (cli/hook.ts) before *)
(* the agent's runtime runs a command.  The runtime has a timeout of its   *)
(* own, and runs the command when that one fires first.                    *)
(*                                                                         *)
(* A target is the folded line, and a glob the set of lines it matches; a  *)
(* line with an unresolved part has the target Unknown, which no glob of   *)
(* the engine or of a scope matches.                                       *)
(***************************************************************************)
EXTENDS PolicyEngine, BashAdapter, TLC

CONSTANTS
  Bash,          \* BASH_TOOL
  Lines,         \* what an agent may ask to run
  Asks,          \* who asks under which policy: see Principal
  Ttl,           \* how long an approval is held
  IdleTimeout,   \* how long the daemon's listener keeps a silent connection
  Grace,         \* added to the TTL by hookTimeoutMs()
  MinTimeout, MaxTimeout,
  HostTimeout    \* when the runtime stops waiting for the hook

\* hook.ts:60: the hook answers before the runtime stops waiting for it.
ASSUME TimeoutsAssumption ==
  /\ {Ttl, IdleTimeout, Grace, MinTimeout, MaxTimeout, HostTimeout} \subseteq Nat
  /\ MaxTimeout < HostTimeout

ASSUME LinesAssumption == \A text \in Lines : text \in Seq(Command) /\ \A i \in DOMAIN text : Proper(text[i])

\* Who asks: the policy and the limits that hold of it, the scopes it is confined to, those
\* of its delegation chain included, and what it has spent.
Principal(p) ==
  /\ \A t \in DOMAIN p.policy : p.policy[t] \in Grant
  /\ p.limits.weights \in Seq([on : SUBSET Actions, weight : Nat])
  /\ p.limits.perHour \in Nat /\ p.spent \in Nat

ASSUME AsksAssumption == \A p \in Asks : Principal(p)

VARIABLES
  line, who,     \* what is asked, and of whom
  daemon,        \* "down", "up", "held", "allowed", "denied"
  elapsed,       \* since the hook was started
  tool,          \* the hook's answer: "pending", "proceed", "block"; "expired" if it gave none
  ran,           \* the command has run
  tripped        \* the tripwire has revoked the actor

execVars == <<line, who, daemon, elapsed, tool, ran, tripped>>

\* An empty set of targets does not confine.
Scope == [actions : SUBSET Actions, targets : SUBSET Targets]

-----------------------------------------------------------------------------
\* decideExec().

TargetOf(m) == IF m.unresolved THEN Unknown ELSE m.target

Beyond(scope, m) ==
  \/ m.action \notin scope.actions
  \/ scope.targets # {} /\ (m.unresolved \/ m.target \notin scope.targets)

OutOfScope(p, mapping) == \E m \in Range(mapping), s \in Range(p.scopes) : Beyond(s, m)

Tripped(p, mapping) == \E m \in Range(mapping) : Trips(p.limits.wires, m.action, m.target)

\* One unresolved command makes no other one unresolved, and none resolved.
Verdicts(p, mapping) == {Evaluate(p.policy, Bash, m.action, TargetOf(m)) : m \in Range(mapping)}

\* combineExec(): deny wins, then a prompt.
CombineExec(p, mapping) ==
  LET decisions == {v.decision : v \in Verdicts(p, mapping)}
  IN IF "deny" \in decisions THEN "deny"
     ELSE IF "require_approval" \in decisions THEN "require_approval" ELSE "allow"

ExecCost(p, mapping) == FoldSeq(LAMBDA m, sum : sum + ActionCost(p.limits.weights, m.action), 0, mapping)

\* The decision of handleExec() up to the human: the gates in their order.
DecideExec(p, text) ==
  LET mapping == MapBashCommand(text)
  IN IF Undecidable(text) \/ OutOfScope(p, mapping) \/ Tripped(p, mapping) THEN "deny"
     ELSE IF CombineExec(p, mapping) # "deny" /\ ~WithinCeiling(p.limits.perHour, p.spent, ExecCost(p, mapping))
          THEN "deny" ELSE CombineExec(p, mapping)

-----------------------------------------------------------------------------
\* hookTimeoutMs(): long enough for a human, short enough for the runtime.

\* A hook that waits for as long as an approval may take.
HookTimeoutOfTtl(ttl) == Max({MinTimeout, ttl + Grace})

HookTimeout(ttl) == Min({MaxTimeout, Max({MinTimeout, ttl + Grace})})

ExecInit ==
  /\ line \in Lines /\ who \in Asks
  /\ daemon \in {"up", "down"}
  /\ elapsed = 0 /\ tool = "pending" /\ ran = FALSE /\ tripped = FALSE

\* The hook reaches a daemon and is answered at once, or put on hold.
Post ==
  /\ tool = "pending" /\ daemon = "up"
  /\ LET d == DecideExec(who, line)
     IN daemon' = CASE d = "deny" -> "denied" [] d = "allow" -> "allowed" [] OTHER -> "held"
  /\ tripped' = (/\ ~Undecidable(line) /\ ~OutOfScope(who, MapBashCommand(line))
                 /\ Tripped(who, MapBashCommand(line)))
  /\ UNCHANGED <<line, who, elapsed, tool, ran>>

\* A human answers a prompt that is still held.
Answer(yes) ==
  /\ daemon = "held" /\ elapsed < Ttl
  /\ daemon' = IF yes THEN "allowed" ELSE "denied"
  /\ UNCHANGED <<line, who, elapsed, tool, ran, tripped>>

Expire ==
  /\ daemon = "held" /\ elapsed >= Ttl
  /\ daemon' = "denied"
  /\ UNCHANGED <<line, who, elapsed, tool, ran, tripped>>

\* The daemon dies: every connection to it closes.
Die ==
  /\ daemon \in {"up", "held"}
  /\ daemon' = "down"
  /\ UNCHANGED <<line, who, elapsed, tool, ran, tripped>>

\* ask(): only an explicit allow, heard in full, lets the command proceed.
Hear ==
  /\ tool = "pending" /\ daemon \in {"allowed", "denied", "down"}
  /\ tool' \in IF daemon = "allowed" THEN {"proceed", "block"} ELSE {"block"}
  /\ UNCHANGED <<line, who, daemon, elapsed, ran, tripped>>

\* Its own timer, or the listener closing a silent connection; the daemon
\* withdraws the prompt of a client that is gone.
GiveUp ==
  /\ tool = "pending"
  /\ \/ elapsed >= HookTimeout(Ttl)
     \/ daemon = "held" /\ elapsed >= IdleTimeout
  /\ tool' = "block"
  /\ daemon' = IF daemon = "held" THEN "denied" ELSE daemon
  /\ UNCHANGED <<line, who, elapsed, ran, tripped>>

\* The runtime: it runs what the hook does not block, and what the hook is too
\* late to block.
Run ==
  /\ ~ran
  /\ \/ tool = "proceed" /\ UNCHANGED tool
     \/ tool = "pending" /\ elapsed >= HostTimeout /\ tool' = "expired"
  /\ ran' = TRUE
  /\ UNCHANGED <<line, who, daemon, elapsed, tripped>>

\* A unit of time is longer than a timer is late.
Pass ==
  /\ elapsed < HostTimeout
  /\ tool = "pending" /\ elapsed < HookTimeout(Ttl)
  /\ elapsed' = elapsed + 1
  /\ UNCHANGED <<line, who, daemon, tool, ran, tripped>>

Done == (tool = "block" \/ ran) /\ UNCHANGED execVars

ExecNext == Post \/ Answer(TRUE) \/ Answer(FALSE) \/ Expire \/ Die \/ Hear \/ GiveUp \/ Run \/ Pass \/ Done

-----------------------------------------------------------------------------

Mapped == ~Undecidable(line)
SafeHere == SafeVarsUsable(line)
RunsOf(i, value) == Program(Expand(line[i].words, SafeHere, value))

\* What a variable may hold.  The guard refuses `env` whatever word after it looks like an
\* assignment, an argument of the program too: such a value is left out.
Values(c) == Tokens \ (Flags \union IF Env \in Range(Texts(c.words)) THEN Assignments ELSE {})

(* What is named is what runs: of a line the guard does not refuse, every  *)
(* command ends in the program its action names, whatever the variables    *)
(* hold, and that program is no shell reading source the guard never saw.  *)
(* Chains of more wrappers than the guard follows, and a shell given the   *)
(* print flag, are left out.                                               *)
NamesWhatRuns ==
  Mapped => \A i \in DOMAIN line, value \in Tokens \ Flags :
    LET program == RunsOf(i, value)
    IN Followed(line[i], SafeHere) =>
         /\ program[1].text = MapBashCommand(line)[i].action
         /\ program[1].text \notin AlwaysRefuse
         /\ ReadsSource(program) => PrintFlag \in Range(Texts(program))

(* An argument nobody knows yet proves nothing: a line with a variable is  *)
(* allowed only if every value of it would be, save those that a scoped    *)
(* rule or tripwire stops or asks about.                                   *)
UnknownProvesNothing ==
  Mapped /\ DecideExec(who, line) = "allow" =>
    \A i \in DOMAIN line : \A value \in Values(line[i]) :
      LET known == Known(line[i], SafeHere, value)
          action == Binary(line[i], SafeHere)
          target == Target(known)
          grant == who.policy[Bash]
      IN \/ Trips(who.limits.wires, action, target)
         \/ AnyMatch(grant.deny \o grant.approve, action, target, "require_approval")
         \/ DecideExec(who, <<known>>) = "allow"

(* The guard fails closed: a command runs only if the daemon has allowed   *)
(* it - never because the daemon is down, dies, or keeps the hook waiting  *)
(* for longer than the runtime waits for the hook.                         *)
HookFailsClosed == ran => daemon = "allowed" /\ tool = "proceed"

\* What a document or a comment says and the code does not do: README.md, section 4.

(* adapters/bash.ts:749, MAX_WRAPPER_DEPTH: how deep a chain of wrappers   *)
(* is followed before it is called opaque.                                 *)
DeepIsOpaque == Mapped => \A i \in DOMAIN line : Followed(line[i], SafeHere)

(* adapters/bash.ts:657: a shell is let through only with a flag that makes *)
(* it print and exit, where no program runs at all.                        *)
PrintFlagRunsNothing ==
  Mapped => \A i \in DOMAIN line :
    Followed(line[i], SafeHere) => ~ReadsSource(RunsOf(i, line[i].words[1].text))
=============================================================================
