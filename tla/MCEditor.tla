-------------------------------- MODULE MCEditor --------------------------------
(* Instances of the console's policy editor: two pages over one small policy.yaml, *)
(* and, beside them, every small grant a page may be opened on.                    *)
EXTENDS ConsoleEditor

CONSTANTS tab1, tab2, Pages

VARIABLE draft   \* a grant under review, or Pages when the run follows the pages

\* The words of the grants below.
ASSUME WordsAssumption == {"cat", "key", "git", "status", "push", "x", "sudo", "PUSH"} \subseteq Words

\* Two words come in capitals.
LowerCase == [w \in Words |-> IF w = "PUSH" THEN "push" ELSE IF w = "KEY" THEN "key" ELSE w]

Cmds == {<<"cat">>, <<"cat", "key">>, <<"cat", "KEY">>, <<"ls", "x">>, <<"git", "status">>,
         <<"git", "push">>, <<"git", "PUSH">>, <<"git", "push", "x">>, <<"git", "PUSH", "x">>,
         <<"git", "gc">>, <<"gh", "repo">>, <<"curl", "x">>, <<"sudo", "x">>, <<"echo">>}
Sens == {<<"cat", "key">>, <<"cat", "KEY">>}
Status == Glob(<<"git", "status">>, "any")
Push == Glob(<<"git", "push">>, "any")
Shout == Glob(<<"git", "PUSH">>, "any")
PushX == Glob(<<"git", "push", "x">>, "exact")
Git == Glob(<<"git">>, "more")
Key == Glob(<<"cat", "key">>, "exact")
Plain(b) == {Glob(<<b>>, "exact"), Glob(<<b>>, "more")}
Entries == {Bare("cat"), Entry("cat", Plain("cat")), Entry("cat", {Key}), Bare("ls"), Bare("git"), Entry("git", {Push}), Entry("git", {Push, Status}),
  Entry("git", {PushX}), Entry("git", {Shout}), Entry("git", {Git, Status}), Bare(Every), Entry("sudo", Plain("sudo")), Bare("sudo"), Bare("echo")}
Asking == {[e EXCEPT !.ask = TRUE] : e \in {Entry("git", {Push, Status}), Entry("git", {Push}), Entry("cat", {Key})}}
Places == {<<"allow", e>> : e \in Entries \cup Asking} \cup {<<c, e>> : c \in {"require_approval", "deny"}, e \in Entries}
Grants == {[c \in DOMAIN NoGrant |-> {p[2] : p \in {q \in pick : q[1] = c}}] : pick \in {{p, q} : p \in Places, q \in Places} \cup {{}}}
ReviewLogs == {{<<"cat", "key">>, <<"sudo", "x">>}, {<<"cat">>, <<"git", "push">>, <<"git", "gc">>, <<"curl", "x">>}}

Start == [grant |-> [NoGrant EXCEPT !.allow = {Entry("git", {Push})}], rest |-> 0]
Hands == {[Start EXCEPT !.rest = 1],
          [Start EXCEPT !.grant.allow = {}, !.grant.require_approval = {[Entry("git", {Push}) EXCEPT !.ask = TRUE]}]}
Edited == {Bare("curl")}

MCInit ==
  /\ Init
  /\ draft \in Grants \cup {Pages}
  /\ <<page[tab1].kind, page[tab2].kind>> \in
       IF draft = Pages
       THEN {<<"permissions", "permissions">>, <<"permissions", "policy">>, <<"policy", "setup">>, <<"permissions", "setup">>}
       ELSE {<<"policy", "policy">>}

MCNext ==
  /\ draft = Pages
  /\ Next
  /\ UNCHANGED draft

MCSpec == MCInit /\ [][MCNext]_<<vars, draft>>

\* In every small grant, no row of the permissions page shows less than the engine gives.
LabelsAreHonest == draft # Pages => LabelIsHonest(draft)

\* In every small grant, moving a capability does that and nothing else.
ChangeDoesOnlyThat == draft # Pages => ChangeIsContained(draft)

\* In every small grant, what a review of the log proposes holds whatever it flags.
FlaggedIsHeld == draft # Pages => \A log \in Logs : ReviewHoldsTheFlagged(draft, log)
=============================================================================
