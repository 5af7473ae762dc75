-------------------------------- MODULE MCPolicy --------------------------------
(* Instances of PolicyAuthoring: the policies of one upstream and its log, and,   *)
(* beside it, every small draft that the tools may be asked about.                *)
EXTENDS PolicyAuthoring, WireAdapters

CONSTANTS hub, shell, read, write, notify, batch, main, Main, dev, UsePart, TextPart

VARIABLE draft   \* a text under review, or the part of the instance that a run follows

Fold == [t \in Targets |-> IF t = Main THEN main ELSE t]
Known == [tool \in Tools |-> IF tool = hub THEN {read, write} ELSE {}]
Emitted == [tool \in Tools |-> IF tool = hub THEN {read, write, notify} ELSE {}]

NoLimits == [weights |-> <<>>, perHour |-> 0, perAgent |-> <<>>, perUpstream |-> <<>>,
             overlay |-> <<>>, wires |-> <<>>, caps |-> <<>>, flows |-> <<>>]

Text(deny, approve, allow) ==
  [grants |-> [tool \in {hub} |-> [deny |-> deny, approve |-> approve, allow |-> allow]], limits |-> NoLimits]

Managed ==
  {Text(<<>>, <<>>, <<Bare({read, write, notify, batch})>>),
   Text(<<>>, <<Scoped({write}, {dev})>>, <<Scoped({read, write}, {main}), Bare({read}), Scoped({write}, {dev})>>),
   Text(<<Scoped({write}, {Main})>>, <<>>, <<Scoped({read, write}, {main, dev}), Bare({notify})>>),
   Text(<<>>, <<[Bare({write}) EXCEPT !.ask = TRUE]>>, <<Bare({read})>>)}

\* One peer used "write" in the first tick: lately until the second one; and one exported
\* what another agent did.
Peers ==
  {{[ours |-> TRUE, last |-> [p \in Pairs |-> IF p = <<hub, write>> THEN 1 ELSE 0]],
    [ours |-> FALSE, last |-> [p \in Pairs |-> IF p = <<hub, read>> THEN 3 ELSE 0]]}}

\* Drafts: two rules of one list against one of each other list, every list in turn.
Scopes == {AnyTarget, {main}, {Main, dev}}
Rules == {[on |-> on, at |-> at, ask |-> FALSE] : on \in {{read}, {write}, {read, write}, {notify}}, at \in Scopes}
Some == {<<>>} \cup {<<r>> : r \in {Bare({write}), Scoped({read, write}, {main}), Scoped({write}, {Main, dev})}}
Two == {<<r, s>> : r \in Rules, s \in Rules}
Asked == {<<r>> : r \in {[s EXCEPT !.ask = TRUE] : s \in Rules}}

Weights == {<<[on |-> o, weight |-> w], [on |-> q, weight |-> v]>> :
              o \in {{read}, {read, write}}, q \in {{write}, {read, write}, {notify}}, w \in 1..3, v \in 1..3}

Limits ==
  {[NoLimits EXCEPT !.weights = w, !.perHour = h, !.perAgent = ("bot" :> 3), !.perUpstream = u] :
     w \in Weights, h \in {0, 2}, u \in {<<>>, (hub :> 1)}}
  \cup {[NoLimits EXCEPT !.overlay = o, !.wires = w, !.caps = c] :
     o \in Some, w \in Some \cup {<<Bare({read}), Scoped({write}, {dev})>>},
     c \in {<<>>, <<[rule |-> Bare({read, write}), bytes |-> 2, exceed |-> "truncate"],
                    [rule |-> Scoped({write}, {main}), bytes |-> 2, exceed |-> "deny"],
                    [rule |-> Scoped({read}, {dev}), bytes |-> 1, exceed |-> "truncate"]>>}}

  \cup {[NoLimits EXCEPT !.flows = <<[when |-> w, then |-> s]>>, !.caps = <<[rule |-> Bare(c), bytes |-> 1, exceed |-> "deny"]>>] :
     w \in {<<{read}>>, <<{notify}, {write}>>}, s \in {<<{write}, {notify}>>, <<{batch}>>, <<{read, notify}>>},
     c \in {{read}, {notify}, {write, notify}}}

\* Drafts of the shell's grant: there, reading and writing stand for two binaries, and the
\* second one runs what it is handed.
Binaries == {read, write}
Runs == {write}
ShellRules == {<<>>} \cup {<<[on |-> on, at |-> at, ask |-> FALSE]>> : on \in {{read}, {write}, Binaries, Actions},
                                                                  at \in Scopes \cup {Targets}}
ShellDrafts ==
  {[grants |-> [tool \in {shell} |-> [deny |-> d, approve |-> <<>>, allow |-> l \o m]], limits |-> NoLimits] :
     d \in ShellRules, l \in ShellRules, m \in ShellRules}

Drafts ==
  {Text(d, a, l) : d \in Two, a \in Some, l \in Some}
  \cup {Text(d, a, l) : d \in Some, a \in Two, l \in Some}
  \cup {Text(d, a, l) : d \in Some, a \in Some, l \in Two \cup Asked}
  \cup {[Text(<<>>, <<>>, <<Bare({read, write})>>) EXCEPT !.limits = l] : l \in Limits}
  \cup {[grants |-> <<>>, limits |-> NoLimits]}
  \cup ShellDrafts

ASSUME DraftsAssumption == \A text \in Drafts : Reviewable(text)

\* Requests to a GitHub upstream: what names a repository, and short paths beside it.
Below(segments, longest) == UNION {[1..n -> segments] : n \in 0..longest}
Paths ==
  {<<"repos", "octo", "octo">> \o rest :
     rest \in Below({"12", "octo", "actions", "pulls", "issues", "contents", "merge", "comments"}, 3)}
  \cup Below({"octo", "repos", "user", "orgs", "search"}, 2)
GitHubWires == {[type |-> "github", method |-> m, path |-> p] : m \in ReadMethods \cup WriteMethods, p \in Paths}

\* Messages to an MCP upstream: every tool that a table knows, and one it does not, in every
\* spelling; and bodies of up to two messages, of which the first is one of few.
ToolNames == (UNION Range(LinearTools)) \cup (UNION Range(SlackTools)) \cup Inherited \cup {<<"drop", "database">>}
Spelled == {[name |-> n, cased |-> c, prefixed |-> p] : n \in ToolNames, c \in BOOLEAN, p \in BOOLEAN}
CallOf(tool) == [method |-> ToolsCall, tool |-> tool]
Messages ==
  {CallOf(tool) : tool \in Spelled \cup {NoTool}}
  \cup {[method |-> m, tool |-> NoTool] :
           m \in {NoMethod, <<"initialize", Empty>>, <<"ping", Empty>>, <<"tools", "list">>, <<"resources", "read">>,
                  <<"notifications", "progress">>}}
First == {m \in Messages : m.tool.name \in {<<"get", "users">>, <<"save", "issue">>, <<"upload", "file">>, NoTool.name}}
Bodies == {<<>>} \cup {<<m>> : m \in Messages} \cup {<<f, m>> : f \in First, m \in Messages}
McpWires == {[type |-> t, method |-> "POST", body |-> b] : t \in {"linear", "slack", "mcp"}, b \in Bodies}

Wires == GitHubWires \cup McpWires

\* A run follows one of two courses: the log of an agent and what is written from it, or
\* the texts and their snapshots; a third part of the instance only reviews a draft.
MCInit ==
  /\ Init
  /\ draft \in Drafts \cup Wires \cup {UsePart, TextPart}
  /\ draft # TextPart => snapshots # <<>>
  /\ draft \notin {UsePart, TextPart} => file = Text(<<>>, <<>>, <<Bare({read, write, notify, batch})>>)

\* Bounds: one rewrite in such a course (what a second one would do is still judged), whose
\* snapshot the disk takes, and one export, of a log with a use in this tick, while it can
\* still matter.
UseStep ==
  /\ evidence' # evidence =>
       tick + 1 = LastTick /\ Len(snapshots) = 1 /\ \E r \in log : r.at = tick /\ r.reason # "refused"
  /\ IF file # active THEN Watch /\ snapshots' # snapshots
     ELSE /\ snapshots' = snapshots
          /\ file' # file =>
               /\ Len(snapshots) = 1
               /\ \/ \E mode \in {"demote", "drop"}, peers \in {NoPeer, Merged(evidence)} : Decay(mode, peers)
                  \/ Shrinkwrap

MCNext ==
  /\ draft \in {UsePart, TextPart}
  /\ Next
  /\ draft = UsePart => UseStep
  /\ draft = TextPart => log' = {} /\ evidence' = evidence
  /\ UNCHANGED draft

MCSpec == MCInit /\ [][MCNext]_<<vars, draft>>

Calls == {<<"call", tool>> : tool \in Spelled}
Preferences == {"normal", "strict"}
ByDefault(type, preference) == (hub :> CompileGrant(SafeDefaults(type, preference, Calls)))

\* The decision of a request: the strictest of its members', a refusal as a deny.
Strictest(policy, mapping) ==
  LET ranks == {Rank(Decide(policy, hub, mapping.actions[i], mapping.targets[i])) : i \in DOMAIN mapping.actions}
  IN CASE ranks = {} \/ 0 \in ranks -> "deny"
       [] ranks = {2} -> "allow"
       [] OTHER -> "require_approval"

\* What cannot be taken back, told from the request alone: a repository is deleted, its CI
\* is changed, a pull request is merged, or something is written that no row knows.
Irreversible(method, path) ==
  LET at(i, names) == Len(path) >= i /\ path[i] \in names
      repository == at(1, {"repos"}) /\ Len(path) >= 3
  IN /\ method \in WriteMethods
     /\ \/ ~repository
        \/ method = "DELETE" /\ Len(path) = 3
        \/ at(4, {"actions"})
        \/ method = "PUT" /\ at(4, {"pulls"}) /\ at(5, Numbers) /\ at(6, {"merge"})

\* The same path with a slash too many, which is not part of what it names.
Respelled(path) == {SubSeq(path, 1, i) \o <<Empty>> \o SubSeq(path, i + 1, Len(path)) : i \in 0..Len(path)}

\* What generated defaults promise of a GitHub request, however it is spelled: reading is
\* allowed, nothing is denied, and what cannot be taken back is asked about.
GitHubAsks(wire) ==
  \A preference \in Preferences : \A path \in {wire.path} \cup Respelled(wire.path) :
    LET decision == Strictest(ByDefault("github", preference), MapGitHub(wire.method, path))
        written == MapGitHub(wire.method, wire.path)
    IN /\ wire.method \in ReadMethods => decision = "allow"
       /\ Irreversible(wire.method, wire.path) => decision = "require_approval"
       /\ decision # "deny"
       /\ MapGitHub(wire.method, path).actions = written.actions

\* What the verb of a tool says it does, where a table of the upstream knows the tool.
IsKnown(type, tool) == MapTool(type, tool) # {}
IsReading(tool) == tool.name[1] \in {"get", "list", "search"}
IsRisky(tool) == tool.name[1] \in {"delete", "upload"}

\* What they promise of a tool call: no spelling of a known tool is decided otherwise than
\* its verb says, an unknown one is asked about, and nothing that is called is denied.
ToolCallAsks(type, tool) ==
  \A preference \in Preferences :
    Strictest(ByDefault(type, preference), MapMcp(type, "POST", <<CallOf(tool)>>)) =
      (CASE tool = NoTool \/ AnswersWithAnObject(type, tool) -> "deny"
         [] type = "mcp" /\ tool # NoTool -> "allow"
         [] OTHER -> IF ~IsKnown(type, tool) \/ IsRisky(tool) THEN "require_approval"
                     ELSE IF IsReading(tool) \/ preference = "normal" THEN "allow" ELSE "require_approval")

\* A body is its messages: it is refused where one of them would be, and each of the others
\* is judged in it by its own action and target.
BodyIsItsMessages(type, body) ==
  LET whole == MapMcp(type, "POST", body)
      alone(i) == MapMcp(type, "POST", <<body[i]>>)
  IN IF body = <<>> \/ \E i \in DOMAIN body : alone(i) = Unsupported THEN whole = Unsupported
     ELSE /\ Len(whole.actions) = Len(body) /\ Len(whole.targets) = Len(body)
          /\ \A i \in DOMAIN body : whole.actions[i] = alone(i).actions[1] /\ whole.targets[i] = alone(i).targets[1]

\* The tables agree: what an adapter emits has a risk class, and what has one is emitted.
TablesAgree == \A type \in DOMAIN RiskClasses : ActionVocabulary(type) \ TransportActions = RiskVocabulary(type)

AdaptersAreHonest(wire) ==
  /\ TablesAgree
  /\ IF wire.type = "github" THEN GitHubAsks(wire)
     ELSE /\ BodyIsItsMessages(wire.type, wire.body)
          /\ Len(wire.body) = 1 /\ wire.body[1].method = ToolsCall => ToolCallAsks(wire.type, wire.body[1].tool)

\* In every draft, what evaluate() answers for the null target bounds what it answers for any
\* target, so that policy diff and the blast radius miss nothing; what policy lint flags may
\* be removed or is as far out of reach as it says: ReachabilityIsHonest, LintIsSafeToFollow
\* and ExecLintIsSound. And what a request is taken for by its adapter is what it does, so
\* that generated defaults ask before whatever cannot be taken back: AdaptersAreHonest.
ToolsAreHonest ==
  /\ draft \in Wires => AdaptersAreHonest(draft)
  /\ draft \in Drafts =>
       /\ ReachabilityIsHonest(draft)
       /\ LintIsSafeToFollow(draft)
       /\ shell \in DOMAIN draft.grants => ExecLintIsSound(CompileGrant(draft.grants[shell]), Binaries, Runs)

-----------------------------------------------------------------------------
(* Said of the code and not so: a run that checks one of these is refuted. *)

\* safe-defaults.ts:8-9, "a default can't break the agent mid-task -- it can only ask": no rule
\* covers the messages that open an MCP session, and they are denied.
DefaultsOnlyAsk ==
  draft \in McpWires => \A preference \in Preferences :
    LET mapping == MapMcp(draft.type, "POST", draft.body)
    IN mapping # Unsupported => Strictest(ByDefault(draft.type, preference), mapping) # "deny"

\* github.ts:82-83, normalizing "only ever makes an anchored rule match where a coarse
\* fallback did": GET /orgs/ is an org:read as it is sent and an api:read without the slash.
NormalizingOnlySharpens ==
  draft \in GitHubWires => \A path \in {draft.path} \cup Respelled(draft.path) :
    LET action == ClassifyRequest(draft.method, path)
    IN action = ClassifyRequest(draft.method, NormalizeForMatch(path)) \/ action[1] \in {"repo", "api"}
=============================================================================
