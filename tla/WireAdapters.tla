----------------------------- MODULE WireAdapters -----------------------------
(***************************************************************************)
(* The upstream adapters of proxy/src/adapters, from a request to its      *)
(* actions and targets, and what is built on their vocabularies: the risk  *)
(* classes and the policy that grenz protect writes (safe-defaults.ts).    *)
(*                                                                         *)
(* An action "pr:merge" is the pair <<"pr", "merge">>, a path the sequence *)
(* of what stands between its slashes (Empty between two slashes, and      *)
(* after a last one), and an MCP tool its <<verb, noun>> with the two ways *)
(* of spelling that the adapters see through.                              *)
(***************************************************************************)
EXTENDS PolicyEngine, SequencesExt

-----------------------------------------------------------------------------
(* github.ts *)

Empty == ""
Numbers == {"12"}
Words == {"octo", "repos", "actions", "pulls", "issues", "comments", "contents", "merge", "user", "orgs", "search"}
Segment == Numbers \cup Words

ReadMethods == {"GET", "HEAD"}
WriteMethods == {"POST", "PUT", "PATCH", "DELETE"}

\* A row of the table: the regular expression as one set of segments after another, and
\* whether it ends there, goes on with any or no further segment, or needs one.
On(methods, path, tail, action) == [methods |-> methods, path |-> path, tail |-> tail, action |-> action]

Repo == <<{"repos"}, Segment, Segment>>
Under(names) == Repo \o <<names>>

GitHubRules == <<
  On({"DELETE"}, Repo, "ends", <<"repo", "delete">>),
  On({"GET"}, Under({"actions"}), "any", <<"actions", "read">>),
  On(WriteMethods, Under({"actions"}), "any", <<"actions", "write">>),
  On({"PUT"}, Under({"pulls"}) \o <<Numbers, {"merge"}>>, "ends", <<"pr", "merge">>),
  On({"POST"}, Under({"pulls"}), "ends", <<"pr", "create">>),
  On({"PATCH"}, Under({"pulls"}) \o <<Numbers>>, "ends", <<"pr", "update">>),
  On({"POST"}, Under({"issues", "pulls"}) \o <<Numbers, {"comments"}>>, "ends", <<"pr", "comment">>),
  On({"GET"}, Under({"pulls"}), "any", <<"pr", "read">>),
  On({"POST"}, Under({"issues"}), "ends", <<"issue", "create">>),
  On({"PATCH"}, Under({"issues"}) \o <<Numbers>>, "ends", <<"issue", "update">>),
  On({"GET"}, Under({"issues"}), "any", <<"issue", "read">>),
  On(WriteMethods, Under({"contents"}), "more", <<"repo", "write">>),
  On(ReadMethods, Repo, "any", <<"repo", "read">>),
  On(WriteMethods, Repo, "any", <<"repo", "write">>),
  On(ReadMethods, <<{"user"}>>, "any", <<"user", "read">>),
  On(ReadMethods, <<{"orgs"}>>, "more", <<"org", "read">>),
  On(ReadMethods, <<{"search"}>>, "more", <<"search", "read">>) >>

Fits(row, method, path) ==
  /\ method \in row.methods
  /\ Len(path) >= Len(row.path)
  /\ \A i \in DOMAIN row.path : path[i] \in row.path[i]
  /\ row.tail = "ends" => Len(path) = Len(row.path)
  /\ row.tail = "more" => Len(path) > Len(row.path)

\* Anchored rows then miss the path that has a slash too many, and a cheaper one takes it.
MatchAsSent(path) == path

NormalizeForMatch(path) == SelectSeq(path, LAMBDA segment : segment # Empty)

\* General rows that come before the precise ones.
ClassifyByTheLast(method, path) ==
  LET fits == {i \in DOMAIN GitHubRules : Fits(GitHubRules[i], method, path)} IN
  IF fits # {} THEN GitHubRules[Max(fits)].action
  ELSE <<"api", IF method \in ReadMethods THEN "read" ELSE "write">>

\* The first row that fits, or one of the two actions for what no row knows.
ClassifyRequest(method, path) ==
  LET fits == {i \in DOMAIN GitHubRules : Fits(GitHubRules[i], method, path)} IN
  IF fits # {} THEN GitHubRules[Min(fits)].action
  ELSE <<"api", IF method \in ReadMethods THEN "read" ELSE "write">>

\* A request that an adapter cannot read is refused before any policy is asked.
Unsupported == [actions |-> <<>>, targets |-> <<>>]
Mapped(actions, targets) == [actions |-> actions, targets |-> targets]

MapGitHub(method, path) ==
  IF method \notin ReadMethods \cup WriteMethods THEN Unsupported
  ELSE Mapped(<<ClassifyRequest(method, NormalizeForMatch(path))>>, <<path>>)

-----------------------------------------------------------------------------
(* linear.ts and slack.ts: the tools behind an action. *)

LinearTools ==
  LET Read(resource, names) == <<resource, "read">> :> names
      Write(resource, names) == <<resource, "write">> :> names
      Delete(resource, names) == <<resource, "delete">> :> names
      Of(verbs, nouns) == verbs \X nouns
  IN Read("issue", {<<"get", "issue">>, <<"list", "issues">>})
     @@ Write("issue", {<<"save", "issue">>})
     @@ Read("comment", {<<"list", "comments">>})
     @@ Write("comment", {<<"save", "comment">>})
     @@ Delete("comment", {<<"delete", "comment">>})
     @@ Read("project", {<<"get", "project">>, <<"list", "projects">>})
     @@ Write("project", {<<"save", "project">>})
     @@ Read("doc", {<<"get", "document">>, <<"list", "documents">>, <<"search", "documentation">>})
     @@ Write("doc", {<<"save", "document">>})
     @@ Read("milestone", {<<"get", "milestone">>, <<"list", "milestones">>})
     @@ Write("milestone", {<<"save", "milestone">>})
     @@ Read("status", {<<"get", "status_updates">>})
     @@ Write("status", {<<"save", "status_update">>})
     @@ Delete("status", {<<"delete", "status_update">>})
     @@ Read("attachment", {<<"get", "attachment">>})
     @@ Write("attachment", {<<"create", "attachment">>, <<"create", "attachment_from_upload">>,
                             <<"prepare", "attachment_upload">>})
     @@ Delete("attachment", {<<"delete", "attachment">>})
     @@ Read("diff", Of({"get"}, {"diff", "diff_threads"}))
     @@ Read("release", Of({"get"}, {"release", "release_note"})
                        \cup Of({"list"}, {"releases", "release_notes", "release_pipelines"}))
     @@ Write("release", Of({"save"}, {"release", "release_note"}))
     @@ Read("directory", Of({"get"}, {"team", "user", "issue_status", "agent_skill"})
                          \cup Of({"list"}, {"teams", "users", "cycles", "issue_labels", "issue_statuses",
                                             "project_labels", "agent_skills"}))
     @@ Write("directory", {<<"create", "issue_label">>})

SlackTools ==
  <<"channel", "read">> :> {<<"list", "channels">>}
  @@ <<"message", "read">> :> {<<"get", "channel_history">>, <<"get", "thread_replies">>, <<"get", "messages">>,
                               <<"search", "messages">>}
  @@ <<"message", "send">> :> {<<"post", "message">>, <<"send", "message">>, <<"reply", "to_thread">>}
  @@ <<"message", "update">> :> {<<"update", "message">>}
  @@ <<"reaction", "add">> :> {<<"add", "reaction">>}
  @@ <<"file", "upload">> :> {<<"upload", "file">>}
  @@ <<"directory", "read">> :> {<<"list", "users">>, <<"get", "users">>, <<"get", "user_profile">>}

\* The tables are plain objects: under such a name they answer with what every object has.
Inherited == {<<"constructor", Empty>>}

MapTool(type, tool) ==
  CASE type = "linear" -> {action \in DOMAIN LinearTools : ~tool.prefixed /\ tool.name \in LinearTools[action]}
    [] type = "slack" -> {action \in DOMAIN SlackTools : tool.name \in SlackTools[action]}
    [] type = "mcp" -> {}

AnswersWithAnObject(type, tool) ==
  /\ tool.name \in Inherited
  /\ type # "mcp"
  /\ type = "linear" => ~tool.prefixed

-----------------------------------------------------------------------------
(* mcp.ts *)

TransportActions == {<<"session", step>> : step \in {"initialize", "ping", "stream", "end"}} \cup {<<"tools", "list">>}

ToolsCall == <<"tools", "call">>
NoMethod == <<Empty, Empty>>
NoTool == [name |-> <<Empty, Empty>>, cased |-> FALSE, prefixed |-> FALSE]

\* The one action of a message, or none for a message that is refused: no object, no method,
\* or a call of no tool.
ActionForMessage(type, message) ==
  LET method == message.method
      tool == message.tool
  IN CASE method = ToolsCall ->
            IF tool = NoTool \/ AnswersWithAnObject(type, tool) THEN {}
            ELSE IF MapTool(type, tool) # {} THEN MapTool(type, tool) ELSE {<<"call", tool>>}
       [] method \in {<<"initialize", Empty>>, <<"ping", Empty>>} -> {<<"session", method[1]>>}
       [] method[1] = "notifications" -> {<<"notify", method[2]>>}
       [] method = NoMethod -> {}
       [] OTHER -> {method}

LabelForMessage(message) == IF message.method = ToolsCall THEN message ELSE [message EXCEPT !.tool = NoTool]

\* One action and one target for each message of the body; a body that is not JSON counts as
\* one without messages.
MapMcp(type, method, messages) ==
  CASE method = "GET" -> Mapped(<<<<"session", "stream">>>>, <<"GET stream">>)
    [] method = "DELETE" -> Mapped(<<<<"session", "end">>>>, <<"DELETE session">>)
    [] method = "POST" ->
         IF messages = <<>> \/ \E i \in DOMAIN messages : ActionForMessage(type, messages[i]) = {} THEN Unsupported
         ELSE Mapped([i \in DOMAIN messages |-> CHOOSE action \in ActionForMessage(type, messages[i]) : TRUE],
                     [i \in DOMAIN messages |-> LabelForMessage(messages[i])])
    [] OTHER -> Unsupported

-----------------------------------------------------------------------------
(* classify.ts, vocabulary.ts and safe-defaults.ts *)

Reads(resources) == {<<resource, "read">> : resource \in resources}
Writes(resources) == {<<resource, "write">> : resource \in resources}
Deletes(resources) == {<<resource, "delete">> : resource \in resources}

LinearWritable == {"issue", "comment", "doc", "project", "milestone", "status", "attachment", "directory", "release"}

RiskClasses ==
  [github |-> [safe |-> Reads({"repo", "pr", "issue", "user", "org", "search", "actions", "api"})
                        \cup {<<"pr", "create">>, <<"issue", "create">>},
               sensitive |-> {<<"pr", "comment">>, <<"issue", "update">>, <<"pr", "update">>, <<"repo", "write">>},
               destructive |-> Writes({"actions", "api"}) \cup {<<"pr", "merge">>, <<"repo", "delete">>},
               exfil |-> {}],
   linear |-> [safe |-> Reads(LinearWritable \cup {"diff"}),
               sensitive |-> Writes(LinearWritable),
               destructive |-> Deletes({"comment", "status", "attachment"}),
               exfil |-> {}],
   slack |-> [safe |-> Reads({"message", "channel", "directory"}),
              sensitive |-> {<<"reaction", "add">>, <<"message", "update">>, <<"message", "send">>},
              destructive |-> {},
              exfil |-> {<<"file", "upload">>}]]

RiskVocabulary(type) == UNION Range(RiskClasses[type])

\* The tables of classify.ts that hold an action; one that no table holds is destructive.
InClass(type, class, action) ==
  \/ action \in RiskClasses[type][class]
  \/ class = "destructive" /\ action \notin RiskVocabulary(type)

ActionVocabulary(type) ==
  CASE type = "github" -> {GitHubRules[i].action : i \in DOMAIN GitHubRules} \cup {<<"api", "read">>, <<"api", "write">>}
    [] type = "linear" -> DOMAIN LinearTools \cup TransportActions
    [] type = "slack" -> DOMAIN SlackTools \cup TransportActions

\* Moving data out taken for one more notable edit.
ApprovalIfIrreversible(type, preference, action) ==
  \/ InClass(type, "destructive", action)
  \/ preference = "strict" /\ action \in RiskClasses[type].sensitive \cup RiskClasses[type].exfil

NeedsApproval(type, preference, action) ==
  \/ InClass(type, "destructive", action)
  \/ InClass(type, "exfil", action)
  \/ preference = "strict" /\ InClass(type, "sensitive", action)

\* call:*, over the calls that a run knows.
SafeDefaults(type, preference, calls) ==
  LET asked == {action \in RiskVocabulary(type) : NeedsApproval(type, preference, action)} IN
  IF type = "mcp" THEN [NoGrant EXCEPT !.allow = <<Bare(calls)>>]
  ELSE [NoGrant EXCEPT !.approve = <<Bare(asked \cup (IF type \in {"slack", "linear"} THEN calls ELSE {}))>>,
                       !.allow = <<Bare(RiskVocabulary(type) \ asked)>>]
=============================================================================
