----------------------------- MODULE CapabilityView -----------------------------
(***************************************************************************)
(* The plain-language view of the bash grant: how its rules are read as    *)
(* capabilities, how a capability is moved to another state, and what a    *)
(* review of the request log proposes (console/lib/capabilities.ts and     *)
(* review.ts), next to what the policy engine decides.                     *)
(*                                                                         *)
(* A command is a sequence of words and its first word is its binary. A    *)
(* glob is a literal beginning: "exact" ends there, "more" goes on after a *)
(* space ("cat *"), "any" goes on anyhow ("git push*"). The globs of deny  *)
(* and require_approval match in any case, those of allow as written.      *)
(***************************************************************************)
EXTENDS FiniteSets, SequencesExt

CONSTANTS
  Words,      \* what commands and globs are made of
  Lower,      \* [Words -> Words], a word without its case
  Commands,   \* the commands an agent sends
  Sensitive,  \* those of them that name a sensitive path
  AnyTarget, Unknown, Somewhere

Binaries == {c[1] : c \in Commands}
Every == "*"   \* the pattern exec:*

Clauses == <<"allow", "require_approval", "deny">>
States == {"allow", "ask", "block"}
StateOf == [allow |-> "allow", require_approval |-> "ask", deny |-> "block"]

\* One capability of each kind the catalogue has: whole binaries or the beginnings of
\* commands, harmless, kept for a human, off the machine, or never safe.
Catalogue ==
  [read    |-> [whole |-> {"cat", "ls"}, prefixes |-> {}, default |-> "allow", kind |-> "code"],
   local   |-> [whole |-> {}, prefixes |-> {<<"git", "status">>}, default |-> "allow", kind |-> "git"],
   publish |-> [whole |-> {}, prefixes |-> {<<"git", "push">>, <<"gh", "repo">>}, default |-> "ask", kind |-> "git"],
   network |-> [whole |-> {"curl"}, prefixes |-> {}, default |-> "ask", kind |-> "off-machine"],
   admin   |-> [whole |-> {"sudo"}, prefixes |-> {}, default |-> "block", kind |-> "never"]]
Caps == DOMAIN Catalogue

\* An entry of a list: the action exec:<on>, its globs or Anything, and on_unresolved.
Anything == {AnyTarget}
Entry(on, globs) == [on |-> on, globs |-> globs, ask |-> FALSE]
Bare(on) == Entry(on, Anything)

Glob(words, kind) == [words |-> words, kind |-> kind]
Globs == [words : Seq(Words), kind : {"exact", "more", "any"}]

Lowered(words) == [i \in DOMAIN words |-> Lower[words[i]]]

\* The catalogue is in lower case, and commands come in every spelling. What stands for any
\* target, or for one nobody knows, is none, no set of them and no glob.
ASSUME CommandsAssumption ==
  /\ \A cap \in Caps : Catalogue[cap].whole \subseteq Words /\ Catalogue[cap].prefixes \subseteq Seq(Words)
  /\ Commands \subseteq Seq(Words) \ {<<>>}
  /\ Lower \in [Words -> Words] /\ \A w \in Words : Lower[Lower[w]] = Lower[w]
  /\ \A cap \in Caps : \A p \in Catalogue[cap].prefixes : Lowered(p) = p
  /\ \A c \in Commands : \A u \in [DOMAIN c -> Words] : Lowered(u) = Lowered(c) => u \in Commands
  /\ {AnyTarget, Unknown, Somewhere} \intersect Commands = {}
  /\ \A targets \in SUBSET Commands : targets # AnyTarget
  /\ AnyTarget \notin Globs

\* A grant: the entries of each clause. Their order decides nothing.
NoGrant == [allow |-> {}, require_approval |-> {}, deny |-> {}]

-------------------------------------------------------------------------------
(* What the engine makes of it. *)

Glossed(glob, c) ==
  /\ IsPrefix(glob.words, c)
  /\ CASE glob.kind = "exact" -> Len(c) = Len(glob.words)
       [] glob.kind = "more" -> Len(c) > Len(glob.words)
       [] glob.kind = "any" -> TRUE

E == INSTANCE PolicyEngine WITH Tools <- {"bash"}, Actions <- Binaries, Targets <- Commands,
       Folded <- [c \in Commands |-> Lowered(c)], Vocabulary <- [tool \in {"bash"} |-> {}]

AsRule(entry) ==
  [on |-> IF entry.on = Every THEN Binaries ELSE {entry.on},
   at |-> IF entry.globs = Anything THEN AnyTarget
          ELSE {c \in Commands : \E g \in entry.globs : Glossed(g, c)},
   ask |-> entry.ask]

Source(grant) ==
  [tool \in {"bash"} |->
     [deny |-> SetToSeq({AsRule(e) : e \in grant.deny}),
      approve |-> SetToSeq({AsRule(e) : e \in grant.require_approval}),
      allow |-> SetToSeq({AsRule(e) : e \in grant.allow})]]

Compiles(grant) == ~E!Malformed(Source(grant))
Verdict(grant, c) == E!Decide(E!Compile(Source(grant)), "bash", c[1], c)
\* ... and when the words after the binary are only known at run time.
Unresolved(grant, binary) == E!Decide(E!Compile(Source(grant)), "bash", binary, Unknown)

RankOf == [allow |-> 2, ask |-> 1, require_approval |-> 1, block |-> 0, deny |-> 0]

-------------------------------------------------------------------------------
(* readCapabilities() *)

Mine(cap, entry) == {p \in Catalogue[cap].prefixes : p[1] = entry.on}

\* Faulty variant: a rule is claimed with all its targets for the first one that fits.
WholeRule(cap, entry) ==
  IF \E g \in entry.globs, p \in Mine(cap, entry) : IsPrefix(p, g.words) THEN entry.globs ELSE {}

\* The globs of an entry that begin as the capability's commands do.
Claimed(cap, entry) == {g \in entry.globs : \E p \in Mine(cap, entry) : IsPrefix(p, g.words)}

\* What a capability takes from an entry: all of it, some of its targets, or nothing.
ClaimOf(cap, entry) ==
  CASE entry.on \in Catalogue[cap].whole -> entry.globs
    [] entry.on \notin Catalogue[cap].whole ->
         IF entry.globs = Anything THEN {} ELSE Claimed(cap, entry)

Claims(cap, entry) == ClaimOf(cap, entry) # {}

ClausesOf(grant, cap) == {i \in 1..3 : \E e \in grant[Clauses[i]] : Claims(cap, e)}

Trivial(binary, glob) == glob.words = <<binary>>

\* A row: the most permissive clause that has a claim, and whether there are several.
Row(grant, cap) ==
  LET seen == ClausesOf(grant, cap)
      whole == {e \in UNION {grant[Clauses[i]] : i \in 1..3} : e.on \in Catalogue[cap].whole}
  IN [present |-> seen # {},
      mixed |-> Cardinality(seen) > 1,
      state |-> IF seen = {} THEN "block" ELSE StateOf[Clauses[Min(seen)]],
      narrowed |-> UNION {{g \in e.globs : ~Trivial(e.on, g)} : e \in {w \in whole : w.globs # Anything}}]

\* The entries no capability could name, or what is left of them.
Leftovers(grant, clause) ==
  LET unnamed == {e \in grant[clause] : \A cap \in Caps : e.on \notin Catalogue[cap].whole}
      rest(e) == IF e.globs = Anything THEN e ELSE [e EXCEPT !.globs = @ \ UNION {ClaimOf(cap, e) : cap \in Caps}]
  IN {rest(e) : e \in unnamed} \ {[e EXCEPT !.globs = {}] : e \in unnamed}

\* Blocking a whole binary throws away its scoping, and is asked about first.
LosesScope(grant, cap, state) == state = "block" /\ Row(grant, cap).narrowed # {}

-------------------------------------------------------------------------------
(* applyCapability() *)

Synthesize(cap) ==
  {Entry(b, {Glob(<<b>>, "exact"), Glob(<<b>>, "more")}) : b \in Catalogue[cap].whole}
  \cup {Entry(b, {Glob(p, "any") : p \in {q \in Catalogue[cap].prefixes : q[1] = b}}) :
          b \in {p[1] : p \in Catalogue[cap].prefixes}}

\* What stays of a list: entries without the targets that were claimed of them.
Remaining(cap, entries) ==
  {e \in entries : ~Claims(cap, e)}
  \cup {[e EXCEPT !.globs = @ \ ClaimOf(cap, e)] :
          e \in {f \in entries : Claims(cap, f) /\ f.on \notin Catalogue[cap].whole /\ f.globs # ClaimOf(cap, f)}}

\* What moves: whole entries as they stand, and of others the claimed targets alone.
Moved(cap, entries) ==
  {IF e.on \in Catalogue[cap].whole THEN e ELSE Entry(e.on, ClaimOf(cap, e)) : e \in {f \in entries : Claims(cap, f)}}

\* Faulty variant: rules of the state it leaves are only copied.
CopiesInstead(grant, cap, state) ==
  LET moved == UNION {Moved(cap, grant[Clauses[i]]) : i \in 1..3}
      clause == IF state = "allow" THEN "allow" ELSE "require_approval"
  IN IF state = "block"
     THEN [grant EXCEPT !.deny = @ \cup {Bare(b) : b \in Catalogue[cap].whole}]
     ELSE [grant EXCEPT ![clause] = @ \cup (IF moved # {} THEN moved ELSE Synthesize(cap))]

\* Moves a capability to a state. A whole binary is blocked by an unscoped deny, a slice
\* of one by having no rule at all.
ApplyCapability(grant, cap, state) ==
  LET moved == UNION {Moved(cap, grant[Clauses[i]]) : i \in 1..3}
      kept == [clause \in DOMAIN grant |-> Remaining(cap, grant[clause])]
      clause == IF state = "allow" THEN "allow" ELSE "require_approval"
  IN IF state = "block"
     THEN [kept EXCEPT !.deny = @ \cup {Bare(b) : b \in Catalogue[cap].whole}]
     ELSE [kept EXCEPT ![clause] = @ \cup (IF moved # {} THEN moved ELSE Synthesize(cap))]

-------------------------------------------------------------------------------
(* buildReview(), over the commands the log holds, and the page that applies it. *)

\* Which capability owns a command: a slice of a binary before the binary.
CapabilityFor(c) ==
  LET sliced == {cap \in Caps : \E p \in Catalogue[cap].prefixes : IsPrefix(p, c)}
      whole == {cap \in Caps : c[1] \in Catalogue[cap].whole}
  IN IF sliced # {} THEN CHOOSE cap \in sliced : TRUE
     ELSE IF whole # {} THEN CHOOSE cap \in whole : TRUE ELSE "none"

Reviewed(log) == {CapabilityFor(c) : c \in log} \ {"none"}

\* Faulty variant: a flag looks at what the capability is, not at what was asked for.
FlaggedByKind(log, cap) == Catalogue[cap].kind \in {"never", "off-machine"}

Flagged(log, cap) ==
  \/ Catalogue[cap].kind \in {"never", "off-machine"}
  \/ \E c \in log : CapabilityFor(c) = cap /\ c \in Sensitive

Suggested(log, cap) ==
  IF Flagged(log, cap) /\ Catalogue[cap].kind \notin {"never", "off-machine"} THEN "ask" ELSE Catalogue[cap].default

\* Every capability the log names goes to the state chosen for it.
ApplyReview(grant, log, choice) ==
  FoldSet(LAMBDA cap, g : ApplyCapability(g, cap, choice[cap]), grant, Reviewed(log))

Suggestions(log) == [cap \in Reviewed(log) |-> Suggested(log, cap)]

-------------------------------------------------------------------------------
(* What the view promises of a grant. *)

\* The spellings of a command that a clause takes for the same.
Alike(clause, c) == IF clause = "allow" THEN {c} ELSE {d \in Commands : Lowered(d) = Lowered(c)}

\* An entry of a clause matches the command, as the engine reads that clause.
Covers(clause, e, c) ==
  c[1] \in AsRule(e).on /\ (e.globs = Anything \/ Alike(clause, c) \intersect AsRule(e).at # {})

\* A rule no capability names still lets the command through, or to a human.
LeftIn(clause, grant, c) == \E e \in Leftovers(grant, clause) : Covers(clause, e, c)
LeftOver(grant, c) == LeftIn("allow", grant, c) \/ LeftIn("require_approval", grant, c)

\* A target of the capability is the command in another case.
Respelt(grant, cap, c) ==
  \E clause \in DOMAIN grant : \E e \in grant[clause] : \E g \in ClaimOf(cap, e) \ Anything :
    e.on = c[1] /\ ~Glossed(g, c) /\ \E d \in Alike("require_approval", c) : Glossed(g, d)

\* "Nothing is hidden and nothing is mislabelled": no command of a capability fares better
\* than the state its row shows, but for a rule that the page shows as written.
LabelIsHonest(grant) ==
  \A c \in Commands :
    LET cap == CapabilityFor(c) IN
    cap # "none" => RankOf[Verdict(grant, c)] <= RankOf[Row(grant, cap).state] \/ LeftOver(grant, c)

\* A change does what it says and nothing else: the row shows the new state, no longer
\* mixed; commands of other capabilities, and of none, are decided as before; and a
\* whole binary that is blocked is denied whatever else the policy says. Of a row that
\* is shown allowed or asked about and not mixed, nothing that was denied opens up, and
\* nothing narrow is thrown away unless it was asked about. But targets that are asked
\* about or denied match in any case, which a move brings or ends: a command that spells one
\* otherwise may then be asked about, and is let through by what the page shows as written.
ChangeIsContained(grant) ==
  \A cap \in Caps, state \in States :
    LET after == ApplyCapability(grant, cap, state) row == Row(grant, cap) IN
    /\ Row(after, cap).state = state /\ ~Row(after, cap).mixed
    /\ \A c \in Commands :
         /\ CapabilityFor(c) # cap =>
              \/ Verdict(after, c) = Verdict(grant, c)
              \/ /\ Respelt(grant, cap, c) \/ Respelt(after, cap, c)
                 /\ Verdict(after, c) = "allow" => LeftIn("allow", grant, c)
         /\ CapabilityFor(c) = cap =>
              /\ RankOf[Verdict(after, c)] <= RankOf[state] \/ LeftOver(after, c)
              /\ state = "block" /\ Catalogue[cap].whole # {} => Verdict(after, c) = "deny"
              /\ row.present /\ ~row.mixed /\ row.state # "block" /\ Verdict(grant, c) = "deny" =>
                   \/ Verdict(after, c) = "deny"
                   \/ Verdict(after, c) = "require_approval" /\ Respelt(grant, cap, c)
    /\ ~row.mixed /\ ~LosesScope(grant, cap, state) =>
         \A e \in UNION {grant[Clauses[i]] : i \in 1..3} :
           e.globs # Anything /\ Claims(cap, e) /\ (state # "block" \/ e.on \in Catalogue[cap].whole) =>
             \A g \in ClaimOf(cap, e) : Trivial(e.on, g) \/ \E clause \in DOMAIN after : \E f \in after[clause] :
               f.on = e.on /\ f.globs # Anything /\ g \in f.globs

\* Applying what the review proposes lets no command of a capability that it flags
\* through without a human, but for a rule that it cannot name.
ReviewHoldsTheFlagged(grant, log) ==
  \A c \in Commands :
    LET after == ApplyReview(grant, log, Suggestions(log)) cap == CapabilityFor(c) IN
    /\ cap \in Reviewed(log)
    /\ \/ Catalogue[cap].kind \in {"never", "off-machine"}
       \/ \E seen \in log \cap Sensitive : CapabilityFor(seen) = cap
    => Verdict(after, c) # "allow" \/ LeftOver(after, c)

-------------------------------------------------------------------------------
(* What a document or a comment says and the code does not do: README.md, section 4. *)

\* "the review never proposes widening something it just told you to look at": also not
\* what the policy blocks in so many words.
ReviewNeverWidens(grant, log) ==
  \A cap \in Reviewed(log) :
    Flagged(log, cap) /\ Row(grant, cap).present => RankOf[Suggested(log, cap)] <= RankOf[Row(grant, cap).state]

\* "Allows are anchored to a target": also that of a capability that was blocked before.
AllowsAreAnchored(grant) ==
  \A cap \in Caps : \A b \in Catalogue[cap].whole :
    Unresolved(grant, b) # "allow" =>
      Unresolved(ApplyCapability(ApplyCapability(grant, cap, "block"), cap, "allow"), b) # "allow"

\* "it can only be applied if it compiles": a change of a text that does compile, too.
ChangeCompiles(grant) ==
  Compiles(grant) => \A cap \in Caps, state \in States : Compiles(ApplyCapability(grant, cap, state))

\* "Nothing is widened by accident": a row that is not mixed, moved to a state that gives no
\* more than the one it shows, lets no command fare better, but by rules shown as written.
NothingIsWidened(grant) ==
  \A cap \in Caps, state \in States :
    LET after == ApplyCapability(grant, cap, state) row == Row(grant, cap) IN
    ~row.mixed /\ RankOf[state] <= RankOf[row.state] =>
      \A c \in Commands : RankOf[Verdict(after, c)] <= RankOf[Verdict(grant, c)] \/ LeftOver(after, c)

\* "Nothing is widened by accident": what one capability's change does to commands of
\* the same binary whose words are only known at run time.
RuntimeWordsStay(grant) ==
  \A cap \in Caps, state \in States, b \in Binaries :
    b \notin Catalogue[cap].whole =>
      Unresolved(ApplyCapability(grant, cap, state), b) = Unresolved(grant, b)
=============================================================================
