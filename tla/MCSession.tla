------------------------------- MODULE MCSession -------------------------------
(* Instances of SessionFacts and ExecRoute: an agent, a sub-token and one of its  *)
(* own, with one flow and one pin rule; and a shell with two wrappers.            *)
EXTENDS SessionFacts, ExecRoute

CONSTANTS agent, sub, leaf, read, post, merge, api, payroll, none,
          curl, sh, xargs, timeout, nice, env, cd, five, url, home, dashC, version, kill, odd, assign

Chain == [s \in Sessions |-> CASE s = agent -> {} [] s = sub -> {agent} [] s = leaf -> {sub, agent}]

M(action, unit) == [action |-> action, unit |-> unit]
\* A run sends requests of one family: the two gates share nothing but the decision.
Families ==
  [flows |-> {<<M(read, none)>>, <<M(post, none)>>, <<M(read, none), M(post, none)>>},
   pins |-> {<<M(merge, api)>>, <<M(merge, payroll)>>, <<M(merge, api), M(merge, payroll)>>}]
SomeBatches == UNION Range(Families)

Flow(effect) == [when |-> {read}, then |-> {post}, effect |-> effect, within |-> 0]
Pin == [on |-> {merge}, effect |-> "require_approval", within |-> 0]
Other == [on |-> {post}, effect |-> "deny", within |-> 0]
Books == {[flows |-> <<Flow("require_approval")>>, pins |-> <<Pin>>],
          [flows |-> <<Flow("deny")>>, pins |-> <<Other, Pin>>]}

-----------------------------------------------------------------------------

W(token) == [text |-> token, kind |-> "plain"]
Words ==
  {W(t) : t \in Tokens \ {url, home, cd}} \union
  {[text |-> url, kind |-> "var"], [text |-> home, kind |-> "safe"], [text |-> curl, kind |-> "glob"],
   [text |-> curl, kind |-> "runs"], [text |-> curl, kind |-> "lossy"]}
Chained == {W(nice), W(timeout), W(env), W(sh), W(curl), W(five)}
ASSUME WordsAssumption ==
  Words \union Chained \subseteq Word /\ url \notin Flags /\ home \notin Flags
Plain(words) == [prefix |-> <<>>, words |-> words, redirects |-> <<>>]

Options ==
  [w \in {timeout, nice} |->
     IF w = timeout THEN [bool |-> {}, value |-> {kill}, positionals |-> 1]
                    ELSE [bool |-> {}, value |-> {kill}, positionals |-> 0]]

\* Commands that a policy is asked about: plain, with an unknown, wrapped, redirected.
Curl(arg) == Plain(<<W(curl), arg>>)
Url == [text |-> url, kind |-> "var"]
Home == [text |-> home, kind |-> "safe"]
Simple == {Curl(W(five)), Curl(Url), Curl(Home), Plain(<<W(nice), W(curl), Url>>), Plain(<<W(cd), W(five)>>)}
Redirected ==
  {[Curl(W(five)) EXCEPT !.redirects = <<r>>] :
     r \in {[heredoc |-> FALSE, to |-> Url], [heredoc |-> FALSE, to |-> W(home)]} \union
           {[heredoc |-> TRUE, quoted |-> q, body |-> b] :
              q \in BOOLEAN, b \in {W(five), Url, [text |-> curl, kind |-> "runs"]}}}
Assigned == [Curl(Home) EXCEPT !.prefix = <<W(assign)>>]
Wrapping == Plain(<<W(env), W(curl), Url>>)
Single == Simple \union Redirected \union {Assigned, Wrapping}

\* Alone, or two in a list.
SomeLines == {<<c>> : c \in Single} \union
             {<<c, d>> : c \in Simple, d \in Simple} \union {<<>>}

\* The folded lines they have as targets, and those with the variable known.
FoldedLines ==
  {Target(c) : c \in Single} \union {Target(Known(c, safe, v)) : c \in Single, safe \in BOOLEAN, v \in {five}}
SameCase == [t \in Targets |-> t]
NoVocabulary == [t \in Tools |-> {}]

\* A glob may match the text of a variable; it proves nothing of its value.
OnlyFive == {<<curl, five>>, <<nice, curl, five>>, <<assign, curl, home>>, <<curl, five, ">", url>>}
Limits(wires, perHour) ==
  [weights |-> <<>>, perHour |-> perHour, perAgent |-> <<>>, perUpstream |-> <<>>,
   overlay |-> <<>>, wires |-> wires, caps |-> <<>>]
Asker(deny, approve, allow) ==
  [policy |-> Compile([t \in {Bash} |-> [deny |-> deny, approve |-> approve, allow |-> allow]]),
   scopes |-> <<>>, limits |-> Limits(<<>>, 0), spent |-> 0]
Askers ==
  LET some == {<<>>, <<Bare({curl})>>, <<Scoped({curl}, OnlyFive)>>}
      ask == [Scoped({curl}, OnlyFive) EXCEPT !.ask = TRUE]
      open == Asker(<<>>, <<>>, <<Bare(Actions)>>)
  IN {Asker(d, a, l) : d \in some, a \in some, l \in some \union {<<Bare({curl, cd})>>, <<ask>>}} \union
     {[open EXCEPT !.scopes = <<[actions |-> a, targets |-> t]>>] :
        a \in {Actions, {curl}}, t \in {{}, OnlyFive}} \union
     {[open EXCEPT !.limits = Limits(w, 1), !.spent = n] :
        w \in {<<>>, <<Scoped({curl}, OnlyFive)>>, <<Bare({cd})>>}, n \in {0, 1}}

-----------------------------------------------------------------------------

VARIABLE route   \* the part of the instance a run follows

Everything == <<factVars, execVars, route>>

Idle == /\ line = <<>> /\ who = Asker(<<>>, <<>>, <<>>) /\ daemon = "down" /\ elapsed = 0
        /\ tool = "block" /\ ran = FALSE /\ tripped = FALSE

Quiet == FactsInit /\ rules = CHOOSE b \in Rulebooks : TRUE

MCInit ==
  \/ route \in DOMAIN Families /\ FactsInit /\ Idle
  \/ route = "exec" /\ Quiet /\ ExecInit /\ daemon = "up"
  \/ /\ route = "adapter" /\ Quiet
     /\ \/ \E n \in 1..3 : \E words \in [1..n -> Words] : line = <<Plain(words)>>
        \/ \E words \in [1..4 -> Chained] : line = <<Plain(words)>>
     /\ who = Asker(<<>>, <<>>, <<>>) /\ daemon = "down" /\ elapsed = 0
     /\ tool = "block" /\ ran = FALSE /\ tripped = FALSE

MCNext ==
  /\ UNCHANGED route
  /\ \/ /\ route \in DOMAIN Families /\ FactsNext /\ UNCHANGED execVars
        /\ \A r \in DOMAIN flight' : flight'[r].batch \in Families[route]
     \/ route = "exec" /\ ExecNext /\ UNCHANGED factVars

MCSpec == MCInit /\ [][MCNext]_Everything

\* A sink after a source, and a pinned action after another unit, meet their rule in the
\* session that saw the first, whoever of the chain sends the second: SeenIsGated, PivotIsSeen.
SessionsAreGated == SeenIsGated /\ PivotIsSeen
=============================================================================
