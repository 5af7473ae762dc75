------------------------------ MODULE ConsoleEditor ------------------------------
(***************************************************************************)
(* The console pages that edit policy.yaml - permissions, policy, setup -  *)
(* the two handlers of /console/policy they call, edits by hand, and the   *)
(* watch that reloads the file. A page holds what it loaded and the digest *)
(* of it; a handler reads the file and only later compares, writes and     *)
(* reloads; the watch waits, reads, and only later reloads what it read.   *)
(*                                                                         *)
(* A text is the bash grant and the rest of the file, which no page edits; *)
(* a digest is the text it was taken of.                                   *)
(***************************************************************************)
EXTENDS CapabilityView

CONSTANTS
  Tabs,       \* open pages
  FirstText,  \* policy.yaml at the start
  HandTexts,  \* what a human may make of it
  Logs,       \* request logs a review may be made of
  Toggled,    \* bound: capabilities that are toggled
  EditEntries,\* entries that a human adds or removes on the policy page
  MaxEdits    \* bound: toggles and edits by hand in a run

\* A text is a record of its grant and its rest.
ASSUME EditorAssumption == \A x \in HandTexts \cup {FirstText} : x = [grant |-> x.grant, rest |-> x.rest]

VARIABLES
  file, active,  \* policy.yaml, and the text in force
  page,          \* [kind, at, grant, digest, dirty, ok] of every tab; ok: it has loaded
  handler,       \* [at, body, base, source] of the request a tab has under way
  timer, reads,  \* the watch: a debounce is running; the text read and not yet reloaded
  edits,
  shown,         \* history: the texts each tab has shown
  overtaken,     \* history: the file changed after a handler read it
  byConsole      \* history: the last to write the file was the console

vars == <<file, active, page, handler, timer, reads, edits, shown, overtaken, byConsole>>
server == <<file, active, timer, byConsole>>

NoText == [grant |-> NoGrant, rest |-> 0]
NoCall == [at |-> "none", body |-> NoGrant, base |-> NoText, source |-> NoText]

Init ==
  /\ file = FirstText /\ active = FirstText
  /\ page \in [Tabs -> [kind : {"permissions", "policy", "setup"}, at : {"loading"}, grant : {NoGrant},
                       digest : {NoText}, dirty : {FALSE}, ok : {FALSE}]]
  /\ handler = [t \in Tabs |-> NoCall]
  /\ timer = FALSE /\ reads = {} /\ edits = 0
  /\ shown = [t \in Tabs |-> {}] /\ overtaken = [t \in Tabs |-> FALSE]
  /\ byConsole = FALSE

-------------------------------------------------------------------------------
(* GET /console/policy: grants and digest come of one read; load() takes both. *)

ServeLoad(t) ==
  /\ page[t].at = "loading" /\ handler[t].at = "none"
  /\ handler' = [handler EXCEPT ![t] = [NoCall EXCEPT !.at = "served", !.source = file]]
  /\ UNCHANGED <<server, page, reads, edits, shown, overtaken>>

Load(t) ==
  /\ page[t].at = "loading" /\ handler[t].at = "served"
  /\ page' = [page EXCEPT ![t] = [kind |-> @.kind, at |-> "open", grant |-> handler[t].source.grant,
                                  digest |-> handler[t].source, dirty |-> FALSE, ok |-> TRUE]]
  /\ shown' = [shown EXCEPT ![t] = @ \cup {handler[t].source}]
  /\ handler' = [handler EXCEPT ![t] = NoCall]
  /\ UNCHANGED <<server, reads, edits, overtaken>>

-------------------------------------------------------------------------------
(* What a human does on a page; pages stay usable while a save is under way. *)

Change(t, grant) ==
  /\ page[t].ok
  /\ edits < MaxEdits /\ edits' = edits + 1
  /\ page' = [page EXCEPT ![t].grant = grant, ![t].dirty = TRUE]
  /\ UNCHANGED <<server, handler, reads, shown, overtaken>>

\* Permissions: a toggle of a row that is not mixed.
Toggle(t, cap, state) ==
  /\ page[t].kind = "permissions"
  /\ ~Row(page[t].grant, cap).mixed
  /\ Change(t, ApplyCapability(page[t].grant, cap, state))

\* Policy: a pattern is added to a list, or an entry is removed.
EditEntry(t, clause, entry) ==
  /\ page[t].kind = "policy"
  /\ \/ Change(t, [page[t].grant EXCEPT ![clause] = @ \cup {entry}])
     \/ entry \in page[t].grant[clause] /\ Change(t, [page[t].grant EXCEPT ![clause] = @ \ {entry}])

Post(t, grant) ==
  /\ page[t].at = "open" /\ page[t].ok /\ handler[t].at = "none"
  /\ page' = [page EXCEPT ![t].at = "saving"]
  /\ handler' = [handler EXCEPT ![t] = [NoCall EXCEPT !.at = "received", !.body = grant, !.base = page[t].digest]]
  /\ overtaken' = [overtaken EXCEPT ![t] = FALSE]
  /\ UNCHANGED <<server, reads, edits, shown>>

Save(t) == page[t].kind # "setup" /\ page[t].dirty /\ Post(t, page[t].grant)

\* Setup: what the review suggests, applied to what was loaded.
ApplySetup(t, log) ==
  /\ page[t].kind = "setup"
  /\ Post(t, ApplyReview(page[t].grant, log, Suggestions(log)))

-------------------------------------------------------------------------------
(* POST /console/policy. *)

\* The file is read across an await.
ReadSource(t) ==
  /\ handler[t].at = "received"
  /\ handler' = [handler EXCEPT ![t].at = "read", ![t].source = file]
  /\ UNCHANGED <<server, page, reads, edits, shown, overtaken>>

Reply(t, what) == handler' = [handler EXCEPT ![t].at = what]

Written(text, console) ==
  /\ file' = text
  /\ timer' = TRUE
  /\ byConsole' = console
  /\ overtaken' = [t \in Tabs |-> overtaken[t] \/ handler[t].at = "read"]

Stale(t) == handler[t].base # handler[t].source

Refuse(t) ==
  /\ handler[t].at = "read"
  /\ \/ Stale(t) /\ Reply(t, "stale_edit")
     \/ ~Stale(t) /\ ~Compiles(handler[t].body) /\ Reply(t, "invalid_policy")
  /\ UNCHANGED <<server, page, reads, edits, shown, overtaken>>

\* Only the grants are replaced in what was read; the result is written and in force.
Apply(t) ==
  LET candidate == [handler[t].source EXCEPT !.grant = handler[t].body] IN
  /\ handler[t].at = "read" /\ ~Stale(t) /\ Compiles(handler[t].body)
  /\ Written(candidate, TRUE)
  /\ active' = candidate
  /\ handler' = [handler EXCEPT ![t].at = "saved", ![t].source = candidate]
  /\ UNCHANGED <<page, reads, edits, shown>>

\* Faulty variant: a page takes the digest of the 409 for the one it edits from.
TakesTheDigest(t) ==
  /\ handler[t].at = "stale_edit"
  /\ page' = [page EXCEPT ![t].at = "open", ![t].digest = file]
  /\ handler' = [handler EXCEPT ![t] = NoCall]
  /\ UNCHANGED <<server, reads, edits, shown, overtaken>>

\* 409: the page loads the file again, and what was edited is to be done anew; setup
\* shows the error and keeps what it has loaded.
StaleAnswer(t) ==
  /\ handler[t].at = "stale_edit"
  /\ page' = [page EXCEPT ![t].at = IF page[t].kind = "setup" THEN "open" ELSE "loading"]
  /\ handler' = [handler EXCEPT ![t] = NoCall]
  /\ UNCHANGED <<server, reads, edits, shown, overtaken>>

\* 200: the page stands at the digest it is told, and calls itself clean.
SavedAnswer(t) ==
  /\ handler[t].at = "saved"
  /\ page' = [page EXCEPT ![t].at = IF page[t].kind = "setup" THEN "left" ELSE "open",
                          ![t].digest = handler[t].source, ![t].dirty = FALSE]
  /\ shown' = [shown EXCEPT ![t] = @ \cup {handler[t].source}]
  /\ handler' = [handler EXCEPT ![t] = NoCall]
  /\ UNCHANGED <<server, reads, edits, overtaken>>

\* Another error, or the answer is lost, whatever the handler did (a page whose first
\* load is lost shows nothing to edit, and is left out).
NoAnswer(t) ==
  /\ page[t].ok /\ handler[t].at \in {"served", "invalid_policy", "stale_edit", "saved"}
  /\ page' = [page EXCEPT ![t].at = "open"]
  /\ handler' = [handler EXCEPT ![t] = NoCall]
  /\ UNCHANGED <<server, reads, edits, shown, overtaken>>

-------------------------------------------------------------------------------
(* The file from outside, and the watch. *)

EditByHand(text) ==
  /\ edits < MaxEdits /\ edits' = edits + 1
  /\ text # file
  /\ Written(text, FALSE)
  /\ UNCHANGED <<active, page, handler, reads, shown>>

\* Faulty variant: one that fires while a read is under way leaves it at that.
SkipsWhileReading ==
  /\ timer /\ timer' = FALSE
  /\ reads' = IF reads = {} THEN {file} ELSE reads
  /\ UNCHANGED <<file, active, page, handler, edits, shown, overtaken, byConsole>>

\* The debounce has run out: the file is read (bound: the read before has ended, the
\* debounce being far longer).
WatchFires ==
  /\ timer /\ timer' = FALSE
  /\ reads = {} /\ reads' = {file}
  /\ UNCHANGED <<file, active, page, handler, edits, shown, overtaken, byConsole>>

\* A text that does not compile leaves the one in force.
WatchReloads(text) ==
  /\ text \in reads
  /\ reads' = reads \ {text}
  /\ active' = IF Compiles(text.grant) THEN text ELSE active
  /\ UNCHANGED <<file, timer, page, handler, edits, shown, overtaken, byConsole>>

Next ==
  \/ \E t \in Tabs :
       \/ ServeLoad(t) \/ Load(t) \/ Save(t)
       \/ \E cap \in Toggled, state \in States : Toggle(t, cap, state)
       \/ \E clause \in DOMAIN NoGrant, entry \in EditEntries : EditEntry(t, clause, entry)
       \/ \E log \in Logs : ApplySetup(t, log)
       \/ ReadSource(t) \/ Refuse(t) \/ Apply(t)
       \/ StaleAnswer(t) \/ SavedAnswer(t) \/ NoAnswer(t)
  \/ \E text \in HandTexts : EditByHand(text)
  \/ WatchFires
  \/ \E text \in reads : WatchReloads(text)

Spec == Init /\ [][Next]_vars

-------------------------------------------------------------------------------
(* What the editor promises of the file. *)

Saved(t) == handler[t].at = "read" /\ handler'[t].at = "saved"

\* A save never writes over a text its page has not shown, and keeps all that no page
\* edits: unless the file changed in the moment after the handler read it.
SavesKeepOthers ==
  [][\A t \in Tabs : Saved(t) /\ ~overtaken[t] => file \in shown[t] /\ file'.rest = file.rest]_vars

\* When the console was the last to write and the watch has come to rest, what is in
\* force is what the file says: a read from before the save does not last.
ServedIsSaved == ~timer /\ reads = {} /\ byConsole => active = file

-------------------------------------------------------------------------------
(* What a document or a comment says and the code does not do: README.md, section 4. *)

\* "a real save must be based on the source we last served": also when two tabs save at
\* once, both handlers having read before either writes.
NothingIsClobbered == [][\A t \in Tabs : Saved(t) => file \in shown[t]]_vars

\* A page with nothing left to save shows what the file says, as long as nobody else
\* writes it: not one that was edited while its save was under way.
CleanPageIsSaved ==
  \A t \in Tabs : page[t].at = "open" /\ page[t].ok /\ ~page[t].dirty /\ page[t].digest = file /\ page[t].kind # "setup" =>
    page[t].grant = file.grant
=============================================================================
