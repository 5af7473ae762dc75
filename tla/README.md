# A verification of grenz

Grenz is a credential broker that stands between AI agents and the services they
act on. An agent holds a GRENZ_TOKEN and nothing else; `grenz run` authenticates
it, decides every action against a policy, puts a human in the loop where the
policy asks for one, injects the real credential and forwards the request. The
code is TypeScript on Bun: one process, one event loop, several files beside it,
and other `grenz` processes (commands, a second proxy) that touch the same files.

This directory specifies that system in TLA+. Every module is written from the
source under `src/`; the code is the reference, and where a document, a comment
or a test says something else, the model follows the code and the disagreement is
stated as a formula that fails (see "Where code and documents disagree").

Contents

1. The system and its components
2. What is modelled, module by module
3. The runs: questions, bounds, fairness
4. Where code and documents disagree
5. What is proved
6. What is only model-checked
7. What is not modelled, and why
8. The plan

Run a check with `tlc -config X.cfg M` (the module of each configuration is in
`PROJECT.json` and in section 3) and a proof module with `tlapm M.tla`.

## 1. The system and its components

Paths are below `src/proxy/src/`.

**How they interact.** `cli/run.ts` loads the configuration, the policy, the
stores and the vault, pulls the signed policy and the signed kill-set if they are
configured, opens one or two listeners (`run/socket.ts`) and starts timers for
the refresh loops. A request enters `dispatch()` in `proxy/server.ts`, a chain of
gates that reads every store below it and awaits five times: the hash of the
token, the body, the human (`awaitApproval()`, with two awaits of its own), the
vault and the upstream. Anything else may run at each of these awaits: other
requests, admin calls (`proxy/console.ts`), timers, a policy reload, a
disconnect. Commands of the `grenz` binary either call the admin API or, when no
proxy answers, work on the files themselves.

| Component | State | Operations | What is hard | What makes it correct |
|---|---|---|---|---|
| Approval broker `approvals/broker.ts` | map of held approvals, a timer each, a promise each | create, approveBy, deny, cancel, expire, drain | decisions, timers, disconnects and the drain cross each other | quorum of different approvers; decided once; no timer without an entry; every held request is answered |
| Approval gate and memory `proxy/server.ts` awaitApproval, `approvals/memory.ts` | remembered decisions with a window and a cap | recall, remember, clear, hold, resume | two awaits, a client that leaves in either, a memory that is swept and evicted | released only by a decision made for it; a refusal is sticky; nothing approved for nobody |
| Request pipeline `proxy/server.ts`, `proxy/forward.ts` | one row per request, hourly spend read from the rows | authenticate, the gates, forward, bill | five awaits between check and act | what is performed is what the snapshot decided; the cut-off holds; the log bills what it says was forwarded, waives only what would have been stopped |
| Verdict `proxy/server.ts`, `policy/*`, `adapters/mcp.ts` | none (a function of policy and request) | combine, grant, break-glass, schedule, first use, step-up, overlay, flow, pin | a batch is collapsed to one representative; eight gates rewrite one verdict in turn | batching launders nothing; no gate masks a stricter one |
| Policy distribution `distribution/*`, `policy/source.ts`, `policy/store.ts` | the policy in force, the anti-rollback floor and its file, the liveness clock | startup pull, refresh, adopt, close, reopen | a plane that lies or is silent, a disk that refuses, restarts | a stale proxy closes; no rollback; the fleet converges |
| Fleet kill-set `revocation/*` | signed set in memory and on disk, its mirror for metrics and staleness | startup pull, refresh, adopt | replays, double-signed versions, crashes | only a newer signed set restores an agent; stale denies all |
| Local kill-switch `revoke/store.ts`, `cli/revoke.ts` | list of revoked ids, in memory and in a file shared by processes | revoke, restore, load, persist | whole-file rewrites by processes that do not lock | a reported revocation is enforced and survives |
| Delegation `delegate/store.ts`, `proxy/auth.ts` | tree of sub-tokens with scope and expiry | mint (by agent, sub-token, operator), resolve, purge | check, await, await, act; agents that change under their children | attenuation; the cascade; bounds |
| Admin tokens and roles `admin/*`, `proxy/console.ts` | named tokens, in memory and in a file | create, revoke, resolve | check, await, act on one name | a reported revocation holds; a quorum needs as many tokens |
| Socket mode `run/socket.ts` | what the path names; who holds the admin port | inspect, probe, unlink, stage, link, listen | several processes, system call by system call | the admin port and the agents' socket lead to one proxy |
| Policy engine `policy/evaluate.ts`, `compile.ts`, `lint.ts`, `diff.ts` | none | evaluate, maxima, ceilings, overlays, tripwires, lint, diff, blast radius | precedence, null and unresolved targets, a second implementation in the tools | each clause errs to the safe side; the tools say what the engine does |
| Policy rewriting `policy/decay.ts`, `cli/policy.ts`, `policy/history-store.ts` | `policy.yaml`, snapshots, the log they read | decay, shrinkwrap, record, roll back, watch | evidence may be missing; snapshots are pruned as they are made | what is in use is kept; a rollback can be undone if its snapshot was taken |
| Adapters `adapters/*`, `policy/safe-defaults.ts` | none | map a request to actions and targets, classify, generate a policy | tables that must agree, order of rows, spellings, batches | what cannot be taken back is asked about, however it is spelled |
| Session facts `flow/*`, `pin/*` | facts per session, capped | record, evaluate, fold a batch, reload | facts are recorded after the answer, requests overlap | a source taints what follows it; a pivot is seen |
| Approval relay `notify/relay.ts`, shutdown of `cli/run.ts` | poll loops | announce, poll, settle, abort, drain, exit | long polls against TTL, quorum, disconnect | no verdict is invented; nobody is left without an answer |
| Grants and windows `grant/store.ts`, `breakglass/store.ts` | timed records in memory and a file | open, list, cut, purge | expiry, kill-switch, restart, open prompts | nothing outlives its hour |
| Explain `explain/report.ts` | none | the verdict, once more | two implementations of eight gates | it says what dispatch() does |
| Shell guard `proxy/exec-route.ts`, `cli/hook.ts`, `adapters/bash.ts` | a held command; the hook's and the runtime's timeouts | verdict for a command line | what a line runs is not what it says; four timeouts race | what runs is what was named; undecidable is refused |
| Configuration writes `config/atomic-write.ts`, `cli/rotate.ts`, `cli/decoy.ts`, `cli/connect.ts`, `cli/add.ts` | `grenz.yaml`, the age vault | mint, rotate, decoy, connect, add | several writers, two disciplines, deaths | no change is lost, the file loads |
| Vault cache `vault/hashicorp-vault.ts` | cached secret, shared fetch | get | a rotation under the cache | a rotated secret is used after its window |
| Device flow `cli/device-flow.ts` | deadline, interval, failures | start, sleep, ask, answer | lost answers, back-off, late sleeps | it keeps its pace and it ends |
| Observers `telemetry/stats.ts`, `canary/store.ts`, `risk/score.ts` | window, counts, levels | flush, record, check | rows are written later than they are dated | nothing is counted twice; danger is announced once |
| Answers `proxy/forward.ts`, `response/cap.ts` | a counting stream | head, chunk, end | lengths that are declared and are not | not one byte over the cap |
| Policy editor `src/console/` permissions, policy, setup pages | what each page loaded | read, change, save, review | stale pages, two tabs, edits by hand, a watch | a label is what the engine decides; a save keeps the rest |

The rest of the tree (rendering, scaffolding, the other pages of
the web console) is listed in `PROJECT.json` with the reason it is left out, and
the hazards of the code at their lines under `hazards`.

## 2. What is modelled, module by module

The general rule: **code between two awaits is one action**, because it is one
turn of the event loop. Where a function awaits, it is cut there and its local
variables become state. System calls of different processes interleave, so in
`KillSwitch` and `SocketMode` each system call is an action. Action and operator
names follow the code's functions; `map` in `PROJECT.json` gives the lines.

Operators commented "Faulty variant" (in the first modules: a comment that says
what it omits) are not used by any specification. Each is a plausible bug: with
its body in place of the definition below it, the property named in
`PROJECT.json` under `mutants` fails.

**QuorumDecision** — the abstract promise of an approval broker: a question is
asked once, needs the consent of `need` different humans, may be closed without
one, and is never reopened. **ApprovalBroker** is `broker.ts`: `entries` is the
map, `record` the approval records, `timers` the armed timeouts, `outcome` what
each promise was resolved with. Votes are a sequence, as in the code; the
refinement maps them to the set of their labels.

**ApprovalGate** extends the broker with `awaitApproval()`: `stage` says which of
its two awaits a call is in, `memory` is `approvals/memory.ts` with its window
(`horizon`), its cap and its insertion order. The broker's actions are used as
they are, so a decision, a timer or the drain can fall into either await.
**RelayApproval** extends the gate: a headless proxy announces each held request
to a relay and polls it, one loop a request, beside the console; and the process
drains and exits 150 ms later. The relay is one approver of the broker.
**MCRelay** runs the three one after the other, in three courses.

**RequestPipeline** is `dispatch()` for `/u/<upstream>`: one action per stretch
between awaits (`Arrive`, `Authenticated`, `BodyRead`, ...), with the local and
the fleet kill-switch, the policy snapshot, decoys, tripwires, body inspection,
the budget read and the log row in the order of the code. Under `--shadow` every verdict is
forwarded, and `Waived` is `shadowVerdict`: the row of a request that the policy would have
denied or asked about is free, one that it allows is billed, and counts against the budget,
as in enforcing mode. The approval gate is
reduced to a yes or a no, the verdict to what the policy says of the request:
those are `ApprovalGate` and `BatchVerdict`. **MCPipeline** fixes the scenarios.

**BatchVerdict** is the function from (policy, request) to verdict that
`dispatch()` computes before it asks a human: `combine()`, the quorum, JIT
grants, break-glass, schedule, first use, step-up, overlay, flow and pin, each as
an operator, in code order. Globs are the sets they match. Its specification
sends requests one after the other past the approval memory. **ExplainReport**
extends it with the second implementation of the same verdict, and
**TimedWindows** with the two stores of permits, whose records end by time, by the
kill-switch or with a restart while requests under them are open. **MCBatch**
holds the policies: every combination of gates.

**PolicyEngine** is `policy/*.ts`: compilation, the clauses of `evaluate()` with
the null and the unresolved target, weights, ceilings, overlays, tripwires and
caps; the linter, the diff and the blast radius are operators beside it, so that
what a tool says of a draft is compared with what the engine decides.
**PolicyAuthoring** is the file: edits, the watch, the console, snapshots and
rollback, decay and shrinkwrap over a log that loses its oldest rows. The snapshots are
a sequence, newest first as `history.ts` sorts them; the names of one second are sorted
by hash, so that a new one may stand anywhere among those of its second. The disk may
refuse a snapshot (`Stored`): `record()` says so to nobody, and `Rollback` goes on, as the
command does. **WireAdapters**
is the way from a request to its actions and targets: the ordered table of
`adapters/github.ts` over paths with and without superfluous slashes, the tool tables of
Linear and Slack over names as they may be spelled, the messages of an MCP body, the
risk classes and the policy that `grenz protect` generates from them. **MCPolicy**
holds the texts, the drafts and the requests, and says beside them which requests
cannot be taken back, told from the request alone (a method and a path, or the verb of
a tool).

**SessionFacts** has the flow and the pin store, the two gates that read them and the
recording after the answer, with requests in flight and reloads; the history `given` counts
the facts of each session, and the gates are held to what they saw as long as a store has
been given no more than it keeps. **BashAdapter** maps a parsed command line to actions, or
refuses it, and says beside that what a shell would run; its loops over wrappers are
`Iterate`, and the lines asked about are `Proper`, they have a command word and no flag with
a variable in it; **ExecRoute** extends it and `PolicyEngine` with the gates of POST /exec,
the hold for a human, the hook and the runtime that runs the command when its own timeout
fires first. **MCSession** composes the two halves.

**PolicyDistribution** is a proxy and its plane: `Boot` (startup pull, with the
fall-back to the local file), `BootExits` (a verified bundle whose profiles do not merge, or
whose floor the disk refuses, ends the start), `BootTokenless` (an unsigned `policy_source`
and no org token in the vault: the local file, and no loop ever after), `Pass` (the timer:
staleness check and pull), `Refresh` in its outcomes, the floor in memory and on disk. A
signed proxy without a token ends before it serves, which is no step. Signatures are
membership in the set of bundles the organisation signed. Time is kept as
saturating ages, so runs are unbounded in length. **FleetRevocation** is the same
loop for the signed kill-set, with the absolute clock that signed expiries need,
and with the *mirror* (`revocationDistribution`) that the gate and `/metrics` read
beside the store. **MCPlane** composes the two and holds the sets.

**AdminTokens** is the token store and the routes that use it, with the votes cast under
tokens' names; `MintOpen`, `MintCheck` and `MintStore` are the three stretches of a mint.
**Delegation** is the tree of sub-tokens: `AuthAgent` or `AuthGrant`, `Body` and `Store` are
the three stretches of a mint, with the resolution walk of `auth.ts`, expiry, purge,
restart, and agents that are narrowed, re-pointed or deleted. `line` is a history variable
that remembers a grant's ancestors after they are purged, and keeps ids different.
**MCAccess** composes the two.

Seven modules describe one machine, and **MCHost** composes them. **SocketMode** is
who owns the agent socket, system call by system call. **KillSwitch** is
`revocations.json`: the file and the temporary name are inodes, a rewrite is
truncate, write, rename, and the writers are the running proxy, its tripwires and
the commands that found no proxy. **ConfigWrites** is `grenz.yaml` in the same
manner, with the proxy's mutex and comparison, and with the age vault that is
written in place. **VaultCache** is the HashiCorp cache with a fetch that several
callers share. **DeviceFlow** is `grenz connect` waiting for a human in a browser.
**Observers** is what watches the log: statistics, the canary, risk alerts.
**AnswerStream** is an answer on its way to the agent, chunk by chunk.

**CapabilityView** is the plain-language view of the bash grant
(`src/console/lib/capabilities.ts`, `review.ts`) next to the engine's verdicts, over
commands and globs that are sequences of words (`Anything` is an entry without targets);
`Lower` takes a word's case away, because the engine matches targets of deny and
require_approval in any case and those of allow as written;
**ConsoleEditor** is the pages that hold such a view, the two handlers of
`/console/policy` cut at their await, edits by hand and the watch. **MCEditor**
composes them.

**Courses.** Where components share no state, an MC module chooses at the start
which of them a behaviour is about (`subject`, `course`), and the others stay where
they are: their state spaces add up instead of multiplying, and each property of
the run is about its own course. The actions of an instanced component
(`K!Next`, `P!Pass`) appear as one disjunct of the composition, wrapped in its
`Of...` operator.

History variables (`highest`, `cutOff`, `promised`, `cleared`, `line`, `voters`,
`issued`, `cut`, `used`, `crossed`, `shown`, `overtaken`, `mixed`, `given`, `performed`) record what
happened for the properties; no guard reads them, except that `AdminTokens` uses
`issued`, and `Delegation` `line`, to keep random tokens and ids different.

## 3. The runs: questions, bounds, fairness

Each of these must find no error. The sizes are distinct states.

| Run (module, configuration) | Question | Bounds, and why they are enough |
|---|---|---|
| approvals (MCRelay, Approvals; 0.7 M) | dual control and the refinement of QuorumDecision; what may release a request, what is remembered, what a disconnect does; what a relay can do; who the shutdown leaves without an answer | 2 requests and one slot, so that capacity and eviction happen with the second; approvers are a human and the relay. Course *broker*: quorum arguments 0..3 (0 is clamped, 3 is more than there are approvers). Course *memory*: 2 identities, one memory entry. Course *relay*: quorum 2 for one request and 1 for the other, which may be remembered |
| pipeline (MCPipeline, RequestPipeline; 1.3 M) | every kind of request against every gate; two requests crossing; `--shadow`; how far check-then-bill overshoots | five scenarios: 1 request of any kind; 2 over a tripwire, a decoy and two prompts; 2 under `--shadow` with secrets and wires; 2 under `--shadow` of policies that allow and deny, against a limit of 2; 3 of cost 1 and 2, two of them open, under a limit of 2 |
| verdict (MCBatch, BatchVerdict; 1.5 M) | batching buys nothing; no gate masks another; explain agrees; permits end | batches of 1 and 2 members over 2 actions and 2 targets, all combinations of gates (any pair of a batch's members is such a batch); permits: 2 grants and a window, a cap of 1, clock to 3, prompts held over one tick |
| policy (MCPolicy, PolicyAuthoring; 0.2 M) | what decay, shrinkwrap, rollback, lint, diff and blast radius promise; whether adapters and generated defaults ask before what cannot be taken back | 2 tools, an MCP notification the vocabulary does not list, a target in two spellings, log of 2 rows over 3 ticks, 2 snapshots, any of which the disk may refuse, 3 files of evidence (one peer of this agent, one of another agent, one own export); drafts of every pair of small rules. Requests: every method on paths of up to 3 segments under a repository and 2 beside it (every row of the table is the first that fits one of them), with one slash too many at each place; every tool of the tables and an unknown one in 4 spellings; bodies of up to 2 messages |
| session (MCSession, SessionFacts; 1.4 M) | no flow or pivot goes unseen; what runs is what was named; the guard fails closed | 3 sessions in a chain, 3 requests of which 2 are open, a cap of 2 facts, one tick, one reload; command lines of 1 to 3 words, of two commands, and wrapper chains of 4 words over a depth of 2; approval TTL 2 and every smaller timeout 1, under a runtime that waits 3 |
| plane (MCPlane, Plane; 0.4 M) | staleness, floors, memory, replays, double-signed versions, outages, expiry, restarts, convergence | policy: signed and unsigned, a notifier under the unsigned one, 2 versions, 4 contents of which one does not compile and one has profiles that do not merge, 1 refused write, 1 restart (the second start finds all that the first can have left), with and without an org token, any length. Kill-set: 3 versions, two of them signed twice, 9 ticks (more than four periods), 1 refused write, 2 restarts |
| host (MCHost, Host; 0.6 M) | one proxy a path; a reported word is kept; grenz.yaml keeps every change and loads; connect ends; observers are honest; caches and caps | socket: 3 processes, deaths, one start at a time. Kill-switch: 3 agents, 2 commands, deaths between any two calls, commands one at a time; 5 inodes are more than can be in use at once. grenz.yaml: 2 commands that may overlap and die, 2 mints, 2 ids, 1 upstream. Cache: 2 callers, a rotation, time to live 2, 4 ticks. Device flow: interval 1..3, lifetime 3..5, 2 failures, 9 seconds (beyond the last deadline). Observers: 2 requests, 2 keys with room for 1, 3 ticks. Answers: caps 1, 3 or none, chunks 1, 2, 4 (below, at and over each cap), 6 bytes |
| access (MCAccess, Access; 0.9 M) | a reported word on a token holds; attenuation, the cascade, bounds | tokens: 2 secrets beside the bootstrap one, 1 name, 1 refused write, 2 restarts, one mint at a time. Sub-tokens: 4 ids, 2 mints in flight, depth cap 2 and capacity 2 (each can be exceeded by one), an expiry while mints are open, a restart |
| editor (MCEditor, ConsoleEditor; 1.3 M) | a row says what the engine decides; a change changes only that; the review holds what it flags; saves | about 1000 grants of up to 2 entries, one catalogue capability of each kind; commands and targets in either case, also of a slice's second word and of an argument; 2 tabs in 4 pairs of pages, 2 edits, hand edits that change the grant, the rest, or both |

and three must find what section 4 says: **socket_race** (SocketMode, SocketRace: 2
processes starting together over a stale socket), **tokens_twins** (MCAccess,
TokensTwins: two overlapping mints) and **policy_kept** (MCPolicy, PolicyKept: decay
of a grant whose use the vocabulary does not list).

A property of a run is often a conjunction: an MC module's `OnlyHumansRelease`,
`PlaneIsFollowed`, `WordIsKept` and the like name the parts, which the component's
module defines, and the comment says which parts they are. The type invariants of
the modules, and `HeldIffTimed`, `NoIdleQuorum` and `DecidedOnce` of the broker, can be
added to the configurations as they stand; the last three are theorems.

`CHECK_DEADLOCK FALSE` stands where a run ends because its clients, ids or ticks
are used up. Symmetry is used for delegation ids and mints in flight, in a run
without liveness properties; no definition compares those values. Bounds that cap a
run (crashes, faults, ticks, versions) are constants named `Max...`, `Last...` or
`Horizon`, and appear in guards of environment actions only. A larger instance of
the observers (3 requests, 4 ticks; 22 M states) was run once and passed.

What the bounds and the composition leave out, run by run:

- *host*: starts do not overlap (`socket_race` shows why), nor do the offline
  commands of the kill-switch (section 4). No two timers fire in one millisecond.
  Weights and thresholds of the risk score are scaled down. Backpressure is not
  modelled, and an answer without an encoding is as long as it declared.
- *policy*: a clock tick separates truncations of the log, and at most `MaxSnapshots`
  texts are recorded in one second (the code keeps 50, named by the second); one
  rewrite and one export a course. A rollback's own write, by a rename, is not refused.
- *plane*: `refresh_seconds` is positive (with 0 there is no loop, and no bound is checked).
  What is said of the age bound is said of proxies that found their token; of the others
  see `UnpulledDenies` in section 4.
- *editor*: a page gives up only when its handler is done; one read of the watch at
  a time; `fs.watch` is taken to report every change, which is generous after the console's
  own rename, because the watch is on the file and not on its directory.
- *session*: a variable expands to one word that is no option, and not to an assignment
  behind `env` (the guard refuses every such line, known or not, so these values are left
  out of `UnknownProvesNothing`); `--` is not told apart; the parse tree is flat.

**Fairness.** Each is weak fairness on something the runtime does by itself:

- the TTL timer of a held approval fires (`setTimeout`); nobody owes a decision;
- the announcement comes back, because `slack.ts` and `relay.ts` put a timeout of
  4 s on it; a resolved promise resumes its owner; a poll of the relay ends within
  its timeout - all of it as long as the process lives;
- the refresh timer fires, the fetch ends within its timeout, and a dead proxy is
  started again (for `FleetConverges` only);
- a process that is starting goes on with its next system call (`SocketMode`);
- the device flow wakes up, asks, and gets an answer or an error. `device-flow.ts`
  gives its fetch no timeout, so that a question ends at all is an assumption about
  the network.

One strong fairness assumption concerns the environment: for `FleetConverges`, a
plane that is asked again and again answers again and again with the newest version.
Nothing is assumed of humans, clients or operators.

## 4. Where code and documents disagree

Three disagreements are runs of their own, with the quotation and the line in
`PROJECT.json` under `findings`:

| Run | What it shows |
|---|---|
| tokens_twins | two overlapping mints give one name to two tokens, and revoking the name reaches one |
| socket_race | of two processes racing over a stale socket, one unlinks what the other has just published |
| policy_kept | an action that was forwarded within the window loses its allow in a decay that passes its own verification |

The modules state the others as formulas at their end. They do not hold; adding one
to the configuration named (under the name of the instance where there is one, such
as `K!` in MCHost or `P!` in MCPlane), with the change given, makes TLC print the trace.

| Formula, in configuration | The document, and what the code does |
|---|---|
| `RevokedFetchNothing`, RequestPipeline | README.md:779 "every request from that moment, before any ... credential fetch. It takes effect mid-flight": the kill-switch is read once, at `server.ts:957`; a request admitted before `grenz revoke` still fetches the credential |
| `NeverForTheDeparted`, RequestPipeline | README.md:546 "an action is never performed for a requester that has already left": after the approval gate nobody looks at the abort signal, `server.ts:1518` |
| `UnforwardedNeverPerformed`, RequestPipeline | comment at `server.ts:1628` "it never reached the upstream": an upstream that acts and drops the connection takes the same branch, and is billed nothing |
| `CeilingHolds`, RequestPipeline | README.md:276 "the default ceiling every agent gets": read at `server.ts:1469`, billed after the answer; `OvershootIsBounded` says by how much at most |
| `GrantNeverOverridesDeny`, BatchVerdict | README.md:1104 a grant "can **never** override an explicit `deny`": `server.ts:1192` looks at the first denied member of a batch only |
| `BatchTriggersOverlay`, BatchVerdict | README.md:299 an MCP batch "always triggers a scoped rule": `server.ts:1321` matches each member with its own target |
| `MemoryIsExact`, BatchVerdict with `Contents = {c1, c2}` | README.md:625 "Scope is exact": over MCP the key holds a tool name and three members, no arguments, `adapters/mcp.ts:78` |
| `MemoryFollowsPolicy` without its exceptions, Plane | comment at `run.ts:664` "a policy change invalidates remembered decisions": not those that wait for the notifier, nor during the digest of an unsigned refresh, `refresh.ts:192` |
| `UnpulledDenies`, Plane | docs/quickstart.md:597-599 "A proxy that has **never** pulled counts as infinitely stale ... the proxy starts and denies rather than quietly serving the local `policy.yaml`": where an unsigned `policy_source` finds no org token in the vault the start falls through to the local file (`run.ts:206-209`), and there is no loop to check its age (`run.ts:646`) |
| `NeverRollsBack`, Plane | docs/quickstart.md:662 "refuses anything below it": `version-store.ts:47` raises the floor in memory first and never retries a refused write |
| `LastGoodStays`, Plane with `FailClosed = FALSE` | docs/quickstart.md:670-673 "At startup and on each refresh ... leaves the **last-good policy in force**": a start during an outage uses the local file, `run.ts:252` |
| `MirrorsTheStore`, Plane | comment at `revocation/refresh.ts:55`: a double-signed version moves the mirror at startup, `run.ts:341`, and with another expiry `ExpiredDeniesAll` fails |
| `CutOffSurvives`, Host with `Overlap = TRUE` | README.md:789 "survives a restart": two processes rewrite the whole file over each other, `revoke/store.ts:76` |
| `NeverLeftTorn`, Host with `Overlap = TRUE` | `revoke/store.ts:95`: one temporary name for all writers |
| `RevokedMintsNothing`, Access | docs/quickstart.md:472 "Revoke an operator instantly": a mint open at that moment still hands out a token, `console.ts:929` |
| `NeverMoreThanTheAgent`, Access with every profile in `Confs` | `delegate/store.ts:11`: a child keeps the profile of its mint, `auth.ts:175` |
| `StoreIsBounded`, Access | `delegate/store.ts:33` "Bounds memory/disk": expired grants are dropped at the next start only, `store.ts:145` |
| `ListIsHonest`, Access | `console.ts:731` "dead if it (or its parent) has been revoked": a grandchild of a revoked grant is listed as live |
| `DrainAnswersAll`, Approvals | comment at `run.ts:932` "Release held approvals ... flush those responses": the server accepts for 150 ms more, and what is held after the drain is cut off by the exit |
| `ExplainCannotDrift`, BatchVerdict | comment at `explain/report.ts:6-7` "the explanation cannot drift from enforcement": where the schedule already asks, `first_use: deny` denies in dispatch() and the headline says ask; break-glass windows are not read at all |
| `EndedAtOnce`, BatchVerdict | `cli/break-glass.ts:8-10` "for a bounded TTL ... To end a window early": a prompt opened under it can be approved after its end |
| `StoresAreBounded`, BatchVerdict | `grant/store.ts:24` "Bounds memory/disk": records that have run out are dropped at the next start only |
| `RollbackLosesNothing`, PolicyAuthoring (as a PROPERTY) | comment at `cli/policy.ts:329` "Snapshot the current file first so the rollback is itself reversible", and README.md:475-476: `record()` returns `saved: false` for a refused write (`history-store.ts:57-77`), which `cli/policy.ts:331` does not look at before it overwrites the file |
| `ShrinkwrapOnlyTightens`, PolicyAuthoring | `policy/shrinkwrap.ts:5` "it only ever tightens": an allow of some targets becomes an allow of the action with any target |
| `DecayOnlyTightens`, PolicyAuthoring | `policy/decay.ts:7` "It only ever tightens": an ask matches its targets in any case and an allow does not, so that a demoted rule asks about a spelling that was denied |
| `FirstIsMostRecent`, PolicyAuthoring (as a PROPERTY) | `policy/history-store.ts:80` "Snapshots newest-first, index 1 = most recent": a save from the console records the text it replaces and the one it writes in one second, and names of one second are in the order of their hashes, `history.ts:47` |
| `DefaultsOnlyAsk`, PolicyAuthoring | `policy/safe-defaults.ts:8-9` "a default can't break the agent mid-task — it can only ask" (`wrap/protect-outcome.ts:36` "nothing here can DENY"): for MCP upstreams no rule covers `session:*` and `tools:list`, which `adapters/mcp.ts:31` says a policy has to allow for an agent to connect at all; `grenz protect` offers GitHub only |
| `NormalizingOnlySharpens`, PolicyAuthoring | comment at `adapters/github.ts:82` "Normalizing only ever makes an `$`-anchored rule match where a coarse fallback did": `GET /orgs/` is an `org:read` as sent and an `api:read` without its slash |
| `PinsSurviveReload`, SessionFacts | `run.ts:510` "NOT cleared on --watch reload" (and `pin/store.ts:6` says that a reload clears): a fact names its rule by position, so another list of rules reads it under another rule |
| `DeepIsOpaque`, SessionFacts | `adapters/bash.ts:749` "before it is called opaque": past the limit the wrapper itself is named, not refused |
| `PrintFlagRunsNothing`, SessionFacts | `adapters/bash.ts:657` "a print-and-exit flag, where no program runs at all": the flag is accepted anywhere among the arguments, also behind the name of a script |
| `MintsSurvive`, Host | `config/atomic-write.ts:7` "201, it survives restart": a command that read the file before the mint renames its own text over it |
| `NeverHalfWritten`, Host | `cli/rotate.ts:53` "a crash never leaves a half-written config": one temporary name; the other command's rename may take it half-written |
| `ConnectDropsNothing`, Host | `cli/connect.ts:312-314` "a stale copy would silently drop anything changed while this command waited": given a URL it waits at a prompt after its read |
| `BackoffStopsAtDeadline`, Host | `cli/device-flow.ts:128` "never past the ceiling or the deadline": only the ceiling is applied; it sleeps past the deadline and asks once more |
| `WindowsAreHalfOpen`, Host | `telemetry/stats.ts:79` "every report covers `[end of the last report, now)`": the query includes both ends |
| `NoGapIsLeft`, Host | `telemetry/stats.ts:75` on "a gap that is never sent": a row is dated at its arrival and written at its end, so a request in flight across a report is in none |
| `OversizedIsRefused`, Host | docs/quickstart.md:299 under `deny` "an oversized response is refused ... when the upstream declares a content-length": the declared length is that of the encoded body, the cap counts decoded bytes |
| `NothingIsClobbered`, ConsoleEditor | comment at `proxy/console.ts:392` "refuse rather than clobber the policy file": two saves may both read before either writes |
| `CleanPageIsSaved`, ConsoleEditor | the pages reset `dirty` when a save has succeeded, also if a row was changed while it was under way |
| `ReviewNeverWidens(g, log)`, ConsoleEditor (over `draft` and `ReviewLogs`) | comment at `console/lib/review.ts:104` "the review never proposes widening something it just told you to look at": the catalogue's default may be wider than what the policy says |
| `AllowsAreAnchored(g)`, ConsoleEditor | `console/lib/capabilities.ts:418` "Allows are anchored to a target": not the one made from an unscoped block |
| `ChangeCompiles(g)`, ConsoleEditor | `console/lib/capabilities.ts:9`: a change can leave a text that does not compile; the daemon refuses it |
| `NothingIsWidened(g)`, ConsoleEditor | `console/lib/capabilities.ts:19` "Nothing is widened by accident ... moves its existing targets between clauses verbatim": the engine reads targets of deny and require_approval in any case (`policy/compile.ts:268-273`), so that an allow of `cat key` moved to ask takes `cat KEY` from denied to a human |
| `RuntimeWordsStay(g)`, ConsoleEditor | `console/lib/capabilities.ts:19` "Nothing is widened by accident": a command whose words are only known at run time is decided by its binary's other rules |

Some more, met while modelling and stated by no formula: batches are logged under
`batch:N`, so that they leave no evidence of use (`request-log.ts:281`) and shrinkwrap
writes the label as an action; `safe-defaults.ts:93-94` calls deletes "already denied
above" where they ask; the linter's
`unreachable_weight` does not read `per_agent` limits, `exec_allow_unscoped` does not
report an allow of `*`, and a pattern outside the vocabulary is called dead; the blast
radius understates an auto-allow without a target under a scoped approval; decay of an
allow with `on_unresolved` gives a candidate that does not compile; POST /exec skips
the schedule, step-up, first-use, overlay, flow and pin gates, JIT grants and
break-glass; a mint of an admin token whose write fails answers with an error and
leaves the token live until the next start.

## 5. What is proved

TLC decides the instances above; the theorems below hold for every value of the
constants that satisfies the named assumptions of the modules. Each component has
its inductive invariant, and each safety theorem is that invariant's consequence. A
theorem about a composition (`RelaySpec`, `HostSpec`, `AccessSpec`, `PlaneSpec`) needs
the invariant of the course it is about only: the others leave its variables alone.

**RelayApprovalProofs**, the broker. The inductive invariant `IInv` is type correctness,
`HeldIffTimed` (entries, timers and unresolved promises are the same set) and a
tally that says of every id: while it is held its votes are different and short
of the quorum, and once it is approved the labels of its votes are at least the
quorum and include the one that decided. `QuorumMet` alone is not inductive: the
vote that settles a request relies on the earlier ones being different, which only
the tally of the *held* ones says. From `IInv` follow `BrokerTypeOK`,
`BrokerQuorumMet`, `BrokerHeldIffTimed`, the action property `BrokerDecidedOnce`,
and `BrokerImplementsDecision`: every behaviour of the broker is one of
`QuorumDecision`. The lemmas `VotersFinite`, `VotersAppend` and `VoteTally` relate
the sequence of votes to the cardinality of its range. Assumed: quorum arguments
are naturals, and "nobody" is not an approver.

**RelayApprovalProofs**, the gate and the relay. Three layers, each on the one below.
`GateInv` adds to the broker's `IInv` what relates a call's stage to the broker's record: a
call is waiting just when it has a record, its answer is the one its promise was resolved
with (`Resolved`, `Calls`), and each remembered decision was a human's, of a request that
one human may decide (`Remembered`). From it: `GateReleasesByHumans`, `GateSparesTheVoid`
(an action property: no fresh yes for a client that has gone) and `GateImplementsDecision`.
`RelayInv` adds the poll loops (`Loops`, `LoopsEndWithTheCall`: the relay has one voice a
request, and it ends with the call) and the end of the process (`Drained`).
`RelayImplementsGate` shows that the relay and the shutdown only add callers to the gate, so
that what the gate promises of its steps is kept (`RelayKeepsThePromise`);
`RelayReleasesByHumans` and `ShutdownAnswers` are the run's `OnlyHumansRelease` and
`DrainedAreAnswered`. Assumed besides: the quorums a policy may ask for are among the
broker's arguments.

**RequestPipelineProofs.** Any requests, agents, decoys, policies and costs. The invariant
follows each request down the stages of `dispatch()`: what its snapshot has decided by then
(`Progress`, `ActionAllowed`, `BodyAllowed`), who it is known to be (`Known`), that one
whose agent was cut off when it arrived, and has been ever since, is not past that check,
unless it is over, and was not performed (`CutOffWaits`), and that the rows say no more than
what happened: a row that claims a forward is of a request that was performed, its bill is
the full cost when the verdict was allow, under `--shadow` too, and nothing where it was waived. The snapshot is what makes it go through: `policy[id]` is fixed at one place,
and nothing an operator does later changes it. From it: `PerformedIsDecided`,
`RefusalsAreKept` (`CutOffHolds` and `DecoysLookUnknown`) and `LogClaimsNoMore`.

`BillStaysBounded` is the property `OvershootIsBounded`: an agent's bill passes the limit
it was let through under by `Slack` at most, the dearest cost times the requests that can
be open beside one. The bill alone is not inductive, because a request is let through on
what was billed before and adds to it later. `Reserved` says it of every set of requests
that have passed the budget gate and are not billed yet: the bill and their costs together
stay within `Slack` of the limit of one of them, or of one that is billed, or nothing is
owed. A sum over a set of requests is a fold; that it grows by what is added to the set is
shown by induction on its size. Assumed: finitely many requests and costs
(`LogAssumption`).

**BatchProofs.** Batches of any length, any policy (any combination of gates), any course
of the permits. `BatchesLaunderNothing` goes through `combine()` and the eight gates one
by one: each of them keeps the order in which one verdict is as strict as another, and the
representative of a batch is at least as strict as any member. `TheReportFollows` walks
the second implementation of the gates beside the first. `PermitsStayScoped` needs
`PermitInv`: permits in memory and on disk began in the past (`Dated`), a permit under which
a prompt is held was live, and not cut, when the prompt was opened (`Prompts`), and a dead
process holds no prompt; `EndedMeansEnded` is the part that is kept for its own sake. Assumed:
`BatchAssumption`, `TimedAssumption`.

**PlaneProofs**, the kill-set. Two independent invariants. `Holdings`: memory and
disk hold signed sets, the same one while the proxy is up; it gives
`RestartKeepsTheSet`, and with the lemma that the file only ever changes to a
verified newer set, `ReplayRestoresNobody`. `Timing`: the loop's next deadline is
never later than the last verified pull plus the age bound plus a margin, where
the margin is the longest period while asleep and a fetch timeout more while
pulling; this is what `StaleIsDenied` needs, since the property itself does not
know where the loop is. Assumed: periods are positive naturals with a longest
one; the age bound and the timeout are naturals.

**PlaneProofs**, the policy. `PlaneIsBoth`: a course of the plane is one of the kill-set and one of
the policy, so the theorems above hold of it (`PlaneKeepsTheKillSet`). For the policy,
`PolicyInv` has the same argument about time (`LooksInTime`, with a third place where
the loop may be, awaiting its digest, and no time passes), the dating of the memory
(`MemoryIsDated`: what is remembered was decided under the running policy or under the
one the digest still names, and these differ only in that place), and the floor
(`FloorIsKnown`: while no write has failed, memory, file and the highest version ever
adopted agree). `PlaneStaysFollowed` is the whole of `PlaneIsFollowed`, under
`OneExpiry`: a version that is signed again is signed for as long. Of a proxy that started
without a token (its loop is `off`) the argument about time says nothing, as the property
does; the rest of the invariant holds of it as well. The condition is
needed: without it the mirror the check reads shows another expiry than the set that
is enforced, `MirrorsTheStore` in section 4.

**HostProofs.** Any number of processes, commands, agents, callers and ticks.
`WordStaysKept` follows the kill-switch file inode by inode. `KillInv` says which job serves
which command (`OneAtATime`, `CommandsFollow`, `JobsFollow`), how much of a rewrite is in
the temporary file, so that a rename publishes a whole list (`Whole`), that the proxy's
memory is the file's list but for the write under way (`InMemory`), and that no list,
written or about to be, breaks what was promised (`WordKept`). It assumes `~Overlap`, one
command or start at a time, and needs it: `CutOffSurvives` and `NeverLeftTorn` in section 4.
`FileStaysKept` and half of `ConnectStaysSafe` rest on `ConfigInv`: every text that is
renamed into place loads (`WholeLoads`), the commands and mints under way started from a
text that is still there or will be noticed (`StepsFit`), nobody writes beside the holder of
the temporary name (`OneWriter`), what was reported is in the file (`NothingLost`), and the
vault has a key before the file names the plane (`KeyPrecedes`). As the property says, this
ends when a stale copy is written or two commands share a file. `FlowInv` bounds the device
flow's pace, and `IntakeStaysBounded` follows from `VaultInv` (what is cached the backend
held at most one fetch before) and `StreamInv` (bytes counted are bytes passed on).
`WatchersStayHonest` has an invariant for each observer. The window of the statistics: the
log is finite and dated, a request has one row or is still open (`OneRow`, `Awaited`), and
how often a row was counted follows from how far the reports have come (`Reported`). The
canary (`CanaryInv`): each cell counts the requests seen that diverge as it says, and while
there is room every one that diverges has a cell (`CellsCount`). The alerts (`ToldInv`): the
level kept is the last one told, and no level is told twice in a row. Assumed: times, caps
and limits are numbers, failures and agents are not values.

**AccessProofs.** *Sub-tokens.* The way up from a grant is a recursive function over
the store, up to `MAX_DEPTH`. That it exists for every cap, and what becomes of it when
a record is added or purged, is shown by counting up the hops (`CountUp`, from the
well-foundedness of the naturals). `ChainIsSound` says of a grant that its way up ends
within the cap at a grant an agent minted; that all hops have its root and profile and
live at least as long; and that its history is exactly its root and its hops.
`GrantInv` says it of every record and of every mint in flight whose parent was
checked two awaits ago (`Pending`): the clamp of the lifetime keeps a purge from taking
an ancestor, and the cap leaves room for the hop that is coming. `RoomForAll` counts: the
live ones and the mints in flight pass the capacity by the number of requests less one.
From it: `AttenuationStays` (cascade, narrower than the parent, within the agent's
scope, bounded) and `GrantsStayLive`, for any depth and capacity. *Operators.* The file
is what the memory has been (`IsOlder`: the first of its records, the same but for later
revocations), what was reported is in the file, and the names of the votes are the image
of the secrets they were cast with (`VotesAreNamed`), so that a quorum of names takes a
quorum of secrets: `TokensStayHonoured`. Assumed: numbers where numbers are meant,
finitely many mints at once, the bootstrap secret is none of the minted ones.

**EditorProofs.** Any tabs, texts, edits and review logs. *Saves.* `EditorInv` is
what pages and handlers may rest on: a page edits the grant of the text it loaded
(`Bases`), a handler that has read the file has read what it still is, unless that is
known to be overtaken, and a text that the console wrote is in force or the watch has
still to come to it (`Watched`). From it `SettledIsSaved` (`ServedIsSaved`) and the action property
`SavesAreContained` (`SavesKeepOthers`). *The view.* `EveryLabelIsHonest`,
`EveryChangeIsContained` and `EveryReviewHolds` hold of every grant of finite lists with
finitely many globs, not only of those that are reached; the properties `LabelsAreHonest`,
`ChangeDoesOnlyThat` and `FlaggedIsHeld` follow. They rest on what the engine says of a
command, told by the lists a rule that matches it is in (`VerdictIs`), on which row claims
which entry (`ClaimIs`, `OwnerIs`), and on what a change takes from the lists and puts there
(`Remaining`, `Moved`, `Added`). A target that moves between an allow and the other two lists
matches other spellings than before (`CoverCarries`), so that `EveryChangeIsContained` has an
exception: a command of the capability, or of none, that spells a moved target in another
case (`Respelt`) may come to be asked about, or be asked about no longer, and is let through
only by what the page shows as written; `OthersAreDecided` and `DeniedStays` bound it, and
`NothingIsWidened` in section 4 says
what is lost. A review applies its changes one after the other: a fold
over a set, by induction on its size. Assumed: `CommandsAssumption`, `WordsAssumption`,
`EditorAssumption`.

**SessionPolicyProofs**, the session. `FactsInv` says that the stores hold what has been
answered: each fact an answer gave, while no more were given than a store keeps
(`SourcesKept`, `UnitsKept`, `Counted`), and no pin that no answer gave (`UnitsEarned`).
From it `FactsAreKept` (`SessionsAreGated`) for any chains, caps and overlaps. `HookInv`
bounds the hook's own time below the runtime's: `TheHookFailsClosed`. Of a command line of
any length, with any wrappers: `ChainIsRun` shows by induction on the wrappers followed
that the adapter reads a chain of them as the shell runs it, although it does not know what
the variables hold, and `WhatRunsIsNamed` follows; `KnownIsAllowed` takes one command of an
allowed list through every gate of the exec route a second time, alone and with its value
known, and `AnUnknownProvesNothing` follows. Assumed: `RulebooksAssumption`,
`SessionsAssumption`, `TimeoutsAssumption`, `AdapterAssumption`, `LinesAssumption`,
`AsksAssumption`, `WordsAssumption`.

**SessionPolicyProofs**, the policy. `EveryAdviceIsSound` says of every text, of any length,
what the run says of its drafts, whatever the adapters' tables: the null target the tools
ask about bounds every target (`NullTargetIsHonest`); what the linter flags as shadowed,
dominated, unreachable or inert may go without any request deciding or costing otherwise
(`ShadowsAreIdle`, by way of the first rule that covers it, `DominatedPricesAreIdle`,
`UnreachableIsOutOfReach`, `InertIsIdle`, `CapsCover`); and of a shell's grant no binary that
is allowed whatever its arguments goes unseen. The last holds of patterns that each name
binaries only, none, or everything, as the drafts of the run do. `DecayStaysSafe`
(`DecayIsSafe`) rests on `PolicyInv`: texts are written ones, the log and the evidence are
finite and dated, and an action performed is in the log unless all of the log is younger
(`Seen`), which is what a cut at the front keeps true, and what `Covered` turns into "not
within the window". `DecayOfOne` tells what becomes of one action, rule by rule, and needs
nothing of the check that the command makes before it writes: `Verified` is a second line
of defence. `RollbacksStayReversible` (`RollbackIsReversible`) is that pruning
never takes the text just recorded, as long as no more are recorded in one second than are
kept (`Paced`); it is said of a rollback whose own snapshot the disk took, whatever it
refused before (of the other see `RollbackLosesNothing` in section 4). Assumed:
`EngineAssumption`, `AuthoringAssumption`, `TextsAssumption`, `EvidenceAssumption`, and
`Reviewable` of a text under review.

**HostProofs**, the socket. `AdminAndAgentsAgree`, under `Orderly`: starts do not
overlap, or no socket is ever left behind. The invariant says who owns the name
(`Owned`), that whoever is about to unlink is about to unlink nobody's socket
(`StaleSeen`), and per circumstance either that one process at most is starting
(`Alone`) or that nothing dead is ever found (`NobodyDied`). `StaleSeen` is what a
second process breaks in `socket_race`, so the condition is needed.

The proofs use SMT, Zenon and the temporal prover; nothing is assumed besides the
modules' named assumptions and the conditions stated above.

## 6. What is only model-checked

- Liveness (`EveryAskReturns`, `FleetConverges`, `NoneWaitsForEver`): fairness and
  ENABLED are out of the prover's reach.
- The half of `ToolsAreHonest` about the adapters and the generated defaults
  (`AdaptersAreHonest`): it is about tables as they stand, and a run over every row, tool
  and spelling says as much as a proof would. `EveryAdviceIsSound` is the other half.
- The expected violations: a counterexample proves itself.

Each other property of a run is a theorem above, under the conditions stated there.

## 7. What is not modelled, and why

- Data: the text of a request and of an action, globs, regular expressions, YAML, the shell grammar,
  formatting. What matters of them is the set they match or the verdict they give.
  In the linter `e*` is not told from `exec:*`; its keys of overlays and its "did you
  mean" are left out. The truncation of heredoc bodies is left out.
- Cryptography: a signature is membership in the set of what was signed, a hash
  is injective, a random token is fresh.
- Profile merging (`policy/merge.ts`), the scores of `risk` and the report of `policy
  test`; renderers, scaffolding and the other console pages: they read.
- `PolicyAuthoring` and the linter take an adapter's tables as constants (`Vocabulary`,
  `Emits`): small ones, of which one omits what the adapter emits. The display label of
  a batch is in `BatchVerdict` only.
- The clock is monotone; a wall clock that jumps back is not considered. Power loss
  (what fsync is for) is not either: a death keeps what the system calls have done.
- A refused write in `KillSwitch` and `Delegation` (in `AdminTokens`,
  `PolicyDistribution`, `FleetRevocation` and `TimedWindows` it is modelled).
- Of `grenz add` its half in policy.yaml; of `connect` and `rotate` `--force` and the
  telemetry block.
- What the bodies of requests contain, beyond whether they hold a secret.
- The relay, the policy plane and HashiCorp Vault are not in this repository; they
  appear as environments that may answer anything they were once given, or nothing.

## 8. The plan

Done: the modules above, and the proofs of section 5. In this order, next:

1. An abstract kill-switch (a set that commands change atomically) that `KillSwitch`
   implements while commands do not overlap, and an abstract configuration file that
   `ConfigWrites` implements while nobody writes in place.
2. Composition of `ApprovalGate` with `RequestPipeline`: the verdict that is resumed
   after a prompt against the second prompt of the same request.
3. The batches of `BatchVerdict` as what `MapMcp` of `WireAdapters` makes of a body, in
   place of its constants.
4. `BodyIsItsMessages` for bodies of any length.

A component keeps one run. What a planned module adds to a component that has one
already is composed into it and checked there, and its properties take the place of
shallower ones.
