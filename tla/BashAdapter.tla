----------------------------- MODULE BashAdapter -----------------------------
(***************************************************************************)
(* adapters/bash.ts: from a parsed command line to one action and one      *)
(* target per command, or a refusal.  A word is a token and how the shell  *)
(* would read it; a parse tree is the sequence of its commands, each with  *)
(* the redirections around it.  Spelling - quotes, escapes, masks - is     *)
(* abstracted to the kind of a word: what foldWord() concludes of it.      *)
(*                                                                         *)
(* The second half is the reference: what a shell then runs.               *)
(***************************************************************************)
EXTENDS Naturals, Sequences, FiniteSets, SequencesExt

CONSTANTS
  Tokens,           \* texts of words
  Flags,            \* the tokens that begin with a dash
  Assignments,      \* the tokens of the form NAME=value
  Env,              \* `env`
  Wrappers,         \* [name -> its options: bool, value, and positionals]
  Shells,           \* SHELLS
  AlwaysRefuse,     \* ALWAYS_REFUSE: eval, source, xargs
  Mutators,         \* SAFE_VAR_MUTATORS: cd, export, sudo, env
  CodeFlag,         \* `-c`
  PrintFlag,        \* `--version`
  MaxWrapperDepth   \* MAX_WRAPPER_DEPTH

\* "plain": folds to its text; "glob": so too, with active metacharacters;
\* "safe": $HOME and its like; "var": a value known at run time; "runs": a
\* substitution; "lossy": the tree contradicts the source.
Word == [text : Tokens, kind : {"plain", "glob", "safe", "var", "runs", "lossy"}]

Redirect == [heredoc : {FALSE}, to : Word] \union
            [heredoc : {TRUE}, quoted : BOOLEAN, body : Word]

\* A command: prefix assignments, its words (the first is the command word),
\* and the redirections of the statements around it.
Command == [prefix : Seq(Word), words : Seq(Word), redirects : Seq(Redirect)]

ASSUME AdapterAssumption ==
  /\ {CodeFlag, PrintFlag} \subseteq Flags
  /\ \A name \in DOMAIN Wrappers : Wrappers[name].positionals \in Nat
  /\ MaxWrapperDepth \in Nat

\* What is asked about here: a command has a word, and what begins with a dash has no
\* variable in it.
Proper(c) ==
  /\ c.words \in Seq(Word) \ {<<>>}
  /\ \A i \in DOMAIN c.words : c.words[i].kind \in {"safe", "var"} => c.words[i].text \notin Flags

Text(w) == w.text
Texts(words) == [i \in DOMAIN words |-> words[i].text]

-----------------------------------------------------------------------------
\* Folding one word.

\* $HOME counts as a literal only on a line that could not redefine it.
SafeVarsUsable(line) ==
  \A i \in DOMAIN line :
    /\ line[i].prefix = <<>>
    /\ line[i].words[1].text \notin Mutators

Unresolved(w, safeVars) == w.kind = "var" \/ (w.kind = "safe" /\ ~safeVars)

\* What refuses a word in an argument, and what refuses it as a command word.
RefusedAsArgument(w) == w.kind \in {"runs", "lossy"}

\* A command word that may be anything but a substitution.
RefusedUnlessNamed(w, safeVars) == RefusedAsArgument(w)

RefusedAsName(w, safeVars) == RefusedAsArgument(w) \/ Unresolved(w, safeVars) \/ w.kind = "glob"

-----------------------------------------------------------------------------
\* Wrappers: `timeout 5 bun test` runs bun.

Opaque == <<>>

\* A loop: what becomes of x in n steps.
Iterate(step, x, n) ==
  LET at[k \in 0..n] == IF k = 0 THEN x ELSE step[at[k - 1]]
  IN at[n]

\* unwrapAt(): where the options of a wrapper end, 0 if one cannot be read.
OptionsEnd(spec, args) ==
  LET next(i) == CASE args[i] \in spec.bool -> i + 1
                   [] args[i] \in spec.value \ spec.bool -> i + 2
                   [] args[i] \notin spec.bool \union spec.value -> 0
  IN Iterate([i \in 0..(Len(args) + 2) |->
                IF i \in DOMAIN args /\ args[i] \in Flags THEN next(i) ELSE i],
             1, Len(args))

\* Where the command is that the one at word i wraps: i if there is none, 0 if it cannot
\* be told.
Wrapped(words, i, safeVars) ==
  LET name == words[i].text
      args == SubSeq(words, i + 1, Len(words))
      end == IF name = Env THEN 1 ELSE OptionsEnd(Wrappers[name], Texts(args))
      start == IF name = Env THEN 1 ELSE end + Wrappers[name].positionals
  IN IF name \notin DOMAIN Wrappers \union {Env} THEN i
     ELSE IF name = Env /\ \E w \in Range(args) : w.text \in Assignments \union Flags THEN 0
     ELSE IF end = 0 THEN 0
     ELSE IF start > Len(args) THEN i
     ELSE IF RefusedAsName(args[start], safeVars) THEN 0
     ELSE i + start

\* The words of the command that a chain of wrappers ends in; Opaque if it
\* cannot be told.  The chain is followed for `depth` wrappers and no further.
Unwrap(words, safeVars, depth) ==
  LET last == Iterate([i \in 0..Len(words) |-> IF i = 0 THEN 0 ELSE Wrapped(words, i, safeVars)], 1, depth)
  IN IF last = 0 THEN Opaque ELSE SubSeq(words, last, Len(words))

\* scanShell(): a shell is refused however its program arrives, unless it is
\* asked to print and exit.
ScanShell(args) == PrintFlag \notin Range(args)

-----------------------------------------------------------------------------
\* resolveCommand() and mapBashCommand().

\* A heredoc whose delimiter is unquoted may run a command, or hold one value
\* in the tree and another at run time; only a literal body enters the target.
HeredocRefused(r) == ~r.quoted /\ r.body.kind = "runs"
HeredocText(r) == IF ~r.quoted /\ r.body.kind = "var" THEN <<"<<">> ELSE <<"<<", r.body.text>>

Refused(c, safeVars) ==
  LET ran == Unwrap(c.words, safeVars, MaxWrapperDepth)
      args == Tail(c.words)
  IN \/ RefusedAsName(c.words[1], safeVars)
     \/ \E w \in Range(args) \union Range(c.prefix) : RefusedAsArgument(w)
     \/ ran = Opaque
     \/ ran # Opaque /\ ran[1].text \in AlwaysRefuse
     \/ ran # Opaque /\ ran[1].text \in Shells /\ ScanShell(Texts(Tail(ran)))
     \/ \E r \in Range(c.redirects) : IF r.heredoc THEN HeredocRefused(r) ELSE RefusedAsArgument(r.to)

\* The action: the binary that runs.  The target: the whole line, as written.
Binary(c, safeVars) == Unwrap(c.words, safeVars, MaxWrapperDepth)[1].text

Target(c) ==
  LET text(r) == IF r.heredoc THEN HeredocText(r) ELSE <<">", r.to.text>>
  IN Texts(c.prefix) \o Texts(c.words) \o FlattenSeq([i \in DOMAIN c.redirects |-> text(c.redirects[i])])

\* A command judged by its arguments, whatever it is redirected to.
IsUnresolvedArgv(c, safeVars) == \E w \in Range(c.words) : w.kind = "var"

IsUnresolved(c, safeVars) ==
  \/ \E w \in Range(c.words) \union Range(c.prefix) : Unresolved(w, safeVars)
  \/ \E r \in Range(c.redirects) : ~r.heredoc /\ Unresolved(r.to, safeVars)

\* The chain of wrappers is no longer than the guard follows.
Followed(c, safeVars) ==
  Unwrap(c.words, safeVars, Len(c.words)) = Unwrap(c.words, safeVars, MaxWrapperDepth)

\* A line with a command that cannot be named is refused as a whole.
Undecidable(line) == line = <<>> \/ \E i \in DOMAIN line : Refused(line[i], SafeVarsUsable(line))

MapBashCommand(line) ==
  [i \in DOMAIN line |->
     [action |-> Binary(line[i], SafeVarsUsable(line)),
      target |-> Target(line[i]),
      unresolved |-> IsUnresolved(line[i], SafeVarsUsable(line))]]

-----------------------------------------------------------------------------
\* The reference: what the shell runs, once the variables have a value.  A
\* variable expands to one word that is not an option.

KnownWord(w, safeVars, value) == IF Unresolved(w, safeVars) THEN [text |-> value, kind |-> "plain"] ELSE w

Expand(words, safeVars, value) == [i \in DOMAIN words |-> KnownWord(words[i], safeVars, value)]

\* A command whose variables have a value, where it is redirected to as well.
Known(c, safeVars, value) ==
  LET redirect(r) == IF r.heredoc THEN r ELSE [r EXCEPT !.to = KnownWord(@, safeVars, value)]
  IN [prefix |-> c.prefix, words |-> Expand(c.words, safeVars, value),
      redirects |-> [i \in DOMAIN c.redirects |-> redirect(c.redirects[i])]]

\* What the program at word i runs in its place: i if it wraps nothing.
Runs(words, i) ==
  LET name == words[i].text
      args == SubSeq(words, i + 1, Len(words))
      end == IF name = Env THEN 1 ELSE OptionsEnd(Wrappers[name], Texts(args))
      start == IF name = Env THEN 1 ELSE end + Wrappers[name].positionals
  IN IF name \notin DOMAIN Wrappers \union {Env} \/ end = 0 \/ start > Len(args) THEN i ELSE i + start

\* The program at the end of a chain of wrappers, with its arguments.
Program(words) ==
  SubSeq(words, Iterate([i \in DOMAIN words |-> Runs(words, i)], 1, Len(words)), Len(words))

\* A shell reads shell source unless all it is asked for is to print: a flag
\* after -c is an argument of the program.
ReadsSource(words) ==
  /\ words[1].text \in Shells
  /\ LET args == Texts(Tail(words))
         codeAt == {i \in DOMAIN args : args[i] = CodeFlag}
         printAt == {i \in DOMAIN args : args[i] = PrintFlag}
     IN \A p \in printAt : \E q \in DOMAIN args : q < p /\ (q \in codeAt \/ args[q] \notin Flags)
=============================================================================
