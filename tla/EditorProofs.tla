------------------------------ MODULE EditorProofs ------------------------------
(* The console's policy editor, for any number of open pages, any texts a human may  *)
(* make of policy.yaml, any review logs and any number of edits: what a save writes  *)
(* over, and what is in force when everything has come to rest. EditorInv says of    *)
(* every tab what its page and its handler may rest on; what a text's grants are     *)
(* matters only when the console writes one, and then they compile.                  *)
(*                                                                                   *)
(* The view itself is proved about next to the engine it speaks of: for any grant of *)
(* finitely many entries and globs, any commands and any log, no row shows less than *)
(* the engine gives, a change does what it says, and a review holds what it flags.   *)
EXTENDS MCEditor, FiniteSetTheorems, SequenceTheorems, WellFoundedInduction, TLAPS

\* Pages, calls and texts are records of their fields; the variables are one per tab.
IsText(x) == x = [grant |-> x.grant, rest |-> x.rest]

IsPage(p) ==
  p = [kind |-> p.kind, at |-> p.at, grant |-> p.grant, digest |-> p.digest, dirty |-> p.dirty, ok |-> p.ok]

CallForm(h) == h = [at |-> h.at, body |-> h.body, base |-> h.base, source |-> h.source]
IsCall(h) == CallForm(h) /\ IsText(h.source)

PerTab(f) == f = [t \in Tabs |-> f[t]]

Forms ==
  /\ IsText(file)
  /\ PerTab(page) /\ PerTab(handler) /\ PerTab(shown) /\ PerTab(overtaken)
  /\ \A t \in Tabs : IsPage(page[t]) /\ IsCall(handler[t])

\* What a tab edits from it has shown, and its handler has read the file as it still is
\* unless that is known to be overtaken.
Based(p, h, texts) ==
  /\ p.ok => p.digest \in texts
  /\ h.at \in {"received", "read"} => h.base \in texts

Bases ==
  \A t \in Tabs :
    /\ Based(page[t], handler[t], shown[t])
    /\ handler[t].at = "read" /\ ~overtaken[t] => handler[t].source = file

\* The watch of a file that the console wrote last: due, reading that very file, or done.
Watched ==
  byConsole =>
    /\ Compiles(file.grant)
    /\ timer \/ reads = {file} \/ (reads = {} /\ active = file)

EditorInv == Forms /\ Bases /\ Watched

LEMMA NoCallIs == IsCall(NoCall) /\ NoCall.at = "none"
<1>1. IsText(NoText)
  BY DEF NoText, IsText
<1>2. CallForm(NoCall) /\ NoCall.at = "none" /\ NoCall.source = NoText
  BY DEF CallForm, NoCall
<1> QED
  BY <1>1, <1>2 DEF IsCall

LEMMA EditorInit == Init => EditorInv
<1> SUFFICES ASSUME Init PROVE EditorInv
  OBVIOUS
<1>1. /\ PerTab(page) /\ PerTab(handler) /\ PerTab(shown) /\ PerTab(overtaken) /\ IsText(file)
      /\ \A t \in Tabs : IsPage(page[t]) /\ handler[t] = NoCall /\ ~page[t].ok
  BY EditorAssumption DEF Init, PerTab, IsPage, IsText
<1>3. Forms
  BY <1>1, NoCallIs DEF Forms
<1>4. Bases
  BY <1>1, NoCallIs DEF Bases, Based
<1>5. Watched
  BY DEF Init, Watched
<1> QED
  BY <1>3, <1>4, <1>5 DEF EditorInv

-------------------------------------------------------------------------------
(* Records and tabs. *)

\* What the proofs ask of a call and of a page.
HasCall(h, at, base, source) == IsCall(h) /\ h.at = at /\ h.base = base /\ h.source = source
HasPage(p, ok, digest) == IsPage(p) /\ p.ok = ok /\ p.digest = digest

\* The changes that the actions make to them.
LEMMA CallMoves ==
  ASSUME NEW h, IsCall(h), NEW at
  PROVE  HasCall([h EXCEPT !.at = at], at, h.base, h.source)
BY DEF HasCall, IsCall, CallForm

LEMMA CallReads ==
  ASSUME NEW h, IsCall(h), NEW at, NEW source, IsText(source)
  PROVE  HasCall([h EXCEPT !.at = at, !.source = source], at, h.base, source)
<1>1. PICK j : j = [h EXCEPT !.at = at]
  OBVIOUS
<1>2. PICK k : k = [j EXCEPT !.source = source]
  OBVIOUS
<1>3. CallForm(j) /\ j.at = at /\ j.base = h.base
  BY <1>1 DEF IsCall, CallForm
<1>4. CallForm(k) /\ k.at = at /\ k.source = source /\ k.base = h.base
  BY <1>2, <1>3 DEF CallForm
<1>5. k = [h EXCEPT !.at = at, !.source = source]
  BY <1>1, <1>2
<1>6. HasCall(k, at, h.base, source)
  BY <1>4 DEF HasCall, IsCall
<1> QED
  BY <1>5, <1>6

LEMMA CallPosts ==
  ASSUME NEW at, NEW body, NEW base
  PROVE  HasCall([NoCall EXCEPT !.at = at, !.body = body, !.base = base], at, base, NoCall.source)
<1>1. PICK i : i = [NoCall EXCEPT !.at = at]
  OBVIOUS
<1>2. PICK j : j = [i EXCEPT !.body = body]
  OBVIOUS
<1>3. PICK k : k = [j EXCEPT !.base = base]
  OBVIOUS
<1>4. CallForm(i) /\ i.at = at /\ i.source = NoCall.source
  BY <1>1, NoCallIs DEF IsCall, CallForm
<1>5. CallForm(j) /\ j.at = at /\ j.source = NoCall.source
  BY <1>2, <1>4 DEF CallForm
<1>6. CallForm(k) /\ k.at = at /\ k.base = base /\ k.source = NoCall.source
  BY <1>3, <1>5 DEF CallForm
<1>7. k = [NoCall EXCEPT !.at = at, !.body = body, !.base = base]
  BY <1>1, <1>2, <1>3
<1>8. HasCall(k, at, base, NoCall.source)
  BY <1>6, NoCallIs DEF HasCall, IsCall
<1> QED
  BY <1>7, <1>8

LEMMA PageMoves ==
  ASSUME NEW p, IsPage(p), NEW at
  PROVE  HasPage([p EXCEPT !.at = at], p.ok, p.digest)
BY DEF HasPage, IsPage

LEMMA PageChanges ==
  ASSUME NEW p, IsPage(p), NEW grant
  PROVE  HasPage([p EXCEPT !.grant = grant, !.dirty = TRUE], p.ok, p.digest)
<1>1. PICK o : o = [p EXCEPT !.grant = grant]
  OBVIOUS
<1>2. PICK q : q = [o EXCEPT !.dirty = TRUE]
  OBVIOUS
<1>3. IsPage(o) /\ o.ok = p.ok /\ o.digest = p.digest
  BY <1>1 DEF IsPage
<1>4. HasPage(q, p.ok, p.digest)
  BY <1>2, <1>3 DEF IsPage, HasPage
<1>5. q = [p EXCEPT !.grant = grant, !.dirty = TRUE]
  BY <1>1, <1>2
<1> QED
  BY <1>4, <1>5

LEMMA PageSettles ==
  ASSUME NEW p, IsPage(p), NEW at, NEW digest
  PROVE  HasPage([p EXCEPT !.at = at, !.digest = digest, !.dirty = FALSE], p.ok, digest)
<1>1. PICK n : n = [p EXCEPT !.at = at]
  OBVIOUS
<1>2. PICK o : o = [n EXCEPT !.digest = digest]
  OBVIOUS
<1>3. PICK q : q = [o EXCEPT !.dirty = FALSE]
  OBVIOUS
<1>4. IsPage(n) /\ n.ok = p.ok
  BY <1>1 DEF IsPage
<1>5. IsPage(o) /\ o.ok = p.ok /\ o.digest = digest
  BY <1>2, <1>4 DEF IsPage
<1>6. HasPage(q, p.ok, digest)
  BY <1>3, <1>5 DEF IsPage, HasPage
<1>7. q = [p EXCEPT !.at = at, !.digest = digest, !.dirty = FALSE]
  BY <1>1, <1>2, <1>3
<1> QED
  BY <1>6, <1>7

\* f changes for one tab only.
Only(f, g, t) == PerTab(g) /\ \A s \in Tabs : s # t => g[s] = f[s]

\* What one tab does with its page and its handler, if it keeps what both rest on.
LEMMA TabKeeps ==
  ASSUME EditorInv, NEW t \in Tabs, UNCHANGED <<server, reads>>,
         Only(page, page', t), Only(handler, handler', t), Only(shown, shown', t), Only(overtaken, overtaken', t),
         IsPage(page'[t]), IsCall(handler'[t]), Based(page'[t], handler'[t], shown'[t]),
         handler'[t].at = "read" /\ ~overtaken'[t] => handler'[t].source = file
  PROVE  EditorInv'
<1>1. Forms'
  BY DEF EditorInv, Forms, Only, server
<1>2. Bases'
  BY DEF EditorInv, Bases, Only, server
<1>3. Watched'
  BY DEF EditorInv, Watched, server
<1> QED
  BY <1>1, <1>2, <1>3 DEF EditorInv

-------------------------------------------------------------------------------
(* The steps. *)

LEMMA LoadingKeeps ==
  ASSUME EditorInv, NEW t \in Tabs, ServeLoad(t) \/ Load(t)
  PROVE  EditorInv'
<1>1. /\ IsPage(page[t]) /\ IsCall(handler[t]) /\ Based(page[t], handler[t], shown[t]) /\ IsText(file)
      /\ PerTab(page) /\ PerTab(handler) /\ PerTab(shown) /\ PerTab(overtaken)
  BY DEF EditorInv, Forms, Bases
<1>2. CASE ServeLoad(t)
  <2>1. handler' = [handler EXCEPT ![t] = [NoCall EXCEPT !.at = "served", !.source = file]]
    BY <1>2 DEF ServeLoad
  <2>2. HasCall([NoCall EXCEPT !.at = "served", !.source = file], "served", NoCall.base, file)
    BY <1>1, NoCallIs, CallReads
  <2>3. Only(handler, handler', t) /\ IsCall(handler'[t]) /\ handler'[t].at = "served"
    BY <1>1, <2>1, <2>2 DEF Only, PerTab, HasCall
  <2> QED
    BY <1>1, <1>2, <2>3, TabKeeps DEF Only, ServeLoad, Based
<1>3. CASE Load(t)
  <2> DEFINE text == handler[t].source
             p == [kind |-> page[t].kind, at |-> "open", grant |-> text.grant, digest |-> text, dirty |-> FALSE, ok |-> TRUE]
  <2>1. page' = [page EXCEPT ![t] = p] /\ shown' = [shown EXCEPT ![t] = shown[t] \cup {text}]
        /\ handler' = [handler EXCEPT ![t] = NoCall] /\ UNCHANGED <<server, reads, edits, overtaken>>
    BY <1>1, <1>3 DEF Load, PerTab
  <2>2. Only(page, page', t) /\ page'[t] = p /\ IsPage(p) /\ p.digest = text
    BY <1>1, <2>1 DEF Only, PerTab, IsPage
  <2>3. Only(shown, shown', t) /\ text \in shown'[t]
    BY <1>1, <2>1 DEF Only, PerTab
  <2>4. Only(handler, handler', t) /\ IsCall(handler'[t]) /\ handler'[t].at = "none"
    BY <1>1, <2>1, NoCallIs DEF Only, PerTab
  <2> QED
    BY <1>1, <2>1, <2>2, <2>3, <2>4, TabKeeps DEF Only, Based
<1> QED
  BY <1>2, <1>3

LEMMA EditingKeeps ==
  ASSUME EditorInv, NEW t \in Tabs, NEW grant, Change(t, grant)
  PROVE  EditorInv'
<1>1. /\ IsPage(page[t]) /\ IsCall(handler[t]) /\ Based(page[t], handler[t], shown[t])
      /\ PerTab(page) /\ PerTab(handler) /\ PerTab(shown) /\ PerTab(overtaken)
      /\ handler[t].at = "read" /\ ~overtaken[t] => handler[t].source = file
  BY DEF EditorInv, Forms, Bases
<1>2. page' = [page EXCEPT ![t] = [page[t] EXCEPT !.grant = grant, !.dirty = TRUE]]
  BY <1>1 DEF Change, PerTab
<1>3. Only(page, page', t) /\ page'[t] = [page[t] EXCEPT !.grant = grant, !.dirty = TRUE]
  BY <1>1, <1>2 DEF Only, PerTab
<1>4. HasPage(page'[t], page[t].ok, page[t].digest)
  <2>1. HasPage([page[t] EXCEPT !.grant = grant, !.dirty = TRUE], page[t].ok, page[t].digest)
    BY <1>1, PageChanges
  <2> QED
    BY <1>3, <2>1
<1>5. UNCHANGED <<server, handler, reads, shown, overtaken>>
  BY DEF Change
<1> QED
  BY <1>1, <1>3, <1>4, <1>5, TabKeeps DEF Only, Based, HasPage

LEMMA PostingKeeps ==
  ASSUME EditorInv, NEW t \in Tabs, NEW grant, Post(t, grant)
  PROVE  EditorInv'
<1>1. /\ IsPage(page[t]) /\ Based(page[t], handler[t], shown[t])
      /\ PerTab(page) /\ PerTab(handler) /\ PerTab(shown) /\ PerTab(overtaken)
  BY DEF EditorInv, Forms, Bases
<1> DEFINE k == [NoCall EXCEPT !.at = "received", !.body = grant, !.base = page[t].digest]
<1>2. /\ page' = [page EXCEPT ![t] = [page[t] EXCEPT !.at = "saving"]] /\ page[t].ok
      /\ handler' = [handler EXCEPT ![t] = k]
      /\ overtaken' = [overtaken EXCEPT ![t] = FALSE] /\ UNCHANGED <<server, reads, edits, shown>>
  BY <1>1 DEF Post, PerTab
<1>3. Only(page, page', t) /\ page'[t] = [page[t] EXCEPT !.at = "saving"]
  BY <1>1, <1>2 DEF Only, PerTab
<1>4. HasPage(page'[t], page[t].ok, page[t].digest)
  BY <1>1, <1>3, PageMoves
<1>5. HasCall(k, "received", page[t].digest, NoCall.source)
  BY CallPosts
<1>6. Only(handler, handler', t) /\ handler'[t] = k /\ Only(overtaken, overtaken', t)
  BY <1>1, <1>2 DEF Only, PerTab
<1>7. HasCall(handler'[t], "received", page[t].digest, NoCall.source)
  BY <1>5, <1>6
<1>8. Based(page'[t], handler'[t], shown'[t]) /\ IsCall(handler'[t]) /\ handler'[t].at = "received" /\ IsPage(page'[t])
  BY <1>1, <1>2, <1>4, <1>7 DEF Based, HasPage, HasCall
<1> QED
  BY <1>1, <1>2, <1>3, <1>6, <1>8, TabKeeps DEF Only

LEMMA AnsweringKeeps ==
  ASSUME EditorInv, NEW t \in Tabs, ReadSource(t) \/ Refuse(t)
  PROVE  EditorInv'
<1>1. /\ IsPage(page[t]) /\ IsCall(handler[t]) /\ Based(page[t], handler[t], shown[t]) /\ IsText(file)
      /\ PerTab(page) /\ PerTab(handler) /\ PerTab(shown) /\ PerTab(overtaken)
  BY DEF EditorInv, Forms, Bases
<1>2. CASE ReadSource(t)
  <2> DEFINE k == [handler[t] EXCEPT !.at = "read", !.source = file]
  <2>1. handler' = [handler EXCEPT ![t] = k] /\ handler[t].at = "received"
        /\ UNCHANGED <<server, page, reads, edits, shown, overtaken>>
    BY <1>1, <1>2 DEF ReadSource, PerTab
  <2>2. HasCall(k, "read", handler[t].base, file)
    BY <1>1, CallReads
  <2>3. Only(handler, handler', t) /\ handler'[t] = k
    BY <1>1, <2>1 DEF Only, PerTab
  <2>4. HasCall(handler'[t], "read", handler[t].base, file)
    BY <2>2, <2>3
  <2> QED
    BY <1>1, <2>1, <2>3, <2>4, TabKeeps DEF Only, Based, HasCall
<1>3. CASE Refuse(t)
  <2>1. PICK what : handler' = [handler EXCEPT ![t] = [handler[t] EXCEPT !.at = what]]
                    /\ what \in {"stale_edit", "invalid_policy"}
    BY <1>1, <1>3 DEF Refuse, Reply, PerTab
  <2> DEFINE k == [handler[t] EXCEPT !.at = what]
  <2>2. HasCall(k, what, handler[t].base, handler[t].source)
    BY <1>1, CallMoves
  <2>3. Only(handler, handler', t) /\ handler'[t] = k
    BY <1>1, <2>1 DEF Only, PerTab
  <2>4. UNCHANGED <<server, page, reads, edits, shown, overtaken>>
    BY <1>3 DEF Refuse
  <2>5. HasCall(handler'[t], what, handler[t].base, handler[t].source)
    BY <2>2, <2>3
  <2> QED
    BY <1>1, <2>1, <2>3, <2>4, <2>5, TabKeeps DEF Only, Based, HasCall
<1> QED
  BY <1>2, <1>3

LEMMA HearingKeeps ==
  ASSUME EditorInv, NEW t \in Tabs, StaleAnswer(t) \/ SavedAnswer(t) \/ NoAnswer(t)
  PROVE  EditorInv'
<1>1. /\ IsPage(page[t]) /\ IsCall(handler[t]) /\ Based(page[t], handler[t], shown[t])
      /\ PerTab(page) /\ PerTab(handler) /\ PerTab(shown) /\ PerTab(overtaken)
  BY DEF EditorInv, Forms, Bases
<1>2. handler' = [handler EXCEPT ![t] = NoCall] /\ UNCHANGED <<server, reads, overtaken>>
  BY DEF StaleAnswer, SavedAnswer, NoAnswer
<1>3. Only(handler, handler', t) /\ IsCall(handler'[t]) /\ handler'[t].at = "none"
  BY <1>1, <1>2, NoCallIs DEF Only, PerTab
<1>4. CASE StaleAnswer(t) \/ NoAnswer(t)
  <2>1. PICK at : page' = [page EXCEPT ![t] = [page[t] EXCEPT !.at = at]]
    BY <1>1, <1>4 DEF StaleAnswer, NoAnswer, PerTab
  <2>2. Only(page, page', t) /\ page'[t] = [page[t] EXCEPT !.at = at]
    BY <1>1, <2>1 DEF Only, PerTab
  <2>3. HasPage(page'[t], page[t].ok, page[t].digest)
    BY <1>1, <2>2, PageMoves
  <2>4. shown' = shown
    BY <1>4 DEF StaleAnswer, NoAnswer
  <2> QED
    BY <1>1, <1>2, <1>3, <2>2, <2>3, <2>4, TabKeeps DEF Only, Based, HasPage
<1>5. CASE SavedAnswer(t)
  <2> DEFINE text == handler[t].source
  <2>1. PICK at : page' = [page EXCEPT ![t] = [page[t] EXCEPT !.at = at, !.digest = text, !.dirty = FALSE]]
    BY <1>1, <1>5 DEF SavedAnswer, PerTab
  <2>2. Only(page, page', t) /\ page'[t] = [page[t] EXCEPT !.at = at, !.digest = text, !.dirty = FALSE]
    BY <1>1, <2>1 DEF Only, PerTab
  <2>6. HasPage([page[t] EXCEPT !.at = at, !.digest = text, !.dirty = FALSE], page[t].ok, text)
    BY <1>1, PageSettles
  <2>3. HasPage(page'[t], page[t].ok, text)
    BY <2>2, <2>6
  <2>4. shown' = [shown EXCEPT ![t] = shown[t] \cup {text}]
    BY <1>1, <1>5 DEF SavedAnswer, PerTab
  <2>5. Only(shown, shown', t) /\ text \in shown'[t]
    BY <1>1, <2>4 DEF Only, PerTab
  <2> QED
    BY <1>1, <1>2, <1>3, <2>2, <2>3, <2>5, TabKeeps DEF Only, Based, HasPage
<1> QED
  BY <1>4, <1>5

\* A new text in the file overtakes whoever has read the old one.
LEMMA WritingKeeps ==
  ASSUME EditorInv, NEW text, NEW console, Written(text, console), IsText(text), UNCHANGED <<page, shown>>,
         PerTab(handler'), \A s \in Tabs : IsCall(handler'[s]) /\ Based(page[s], handler'[s], shown[s]),
         \A s \in Tabs : handler'[s].at = "read" => handler[s].at = "read",
         console => Compiles(text.grant)
  PROVE  EditorInv'
<1>1. file' = text /\ timer' = TRUE /\ byConsole' = console /\ overtaken' = [t \in Tabs |-> overtaken[t] \/ handler[t].at = "read"]
  BY DEF Written
<1>2. Forms'
  BY <1>1 DEF EditorInv, Forms, PerTab
<1>3. Bases'
  BY <1>1 DEF EditorInv, Bases
<1>4. Watched'
  BY <1>1 DEF Watched
<1> QED
  BY <1>2, <1>3, <1>4 DEF EditorInv

LEMMA ApplyKeeps ==
  ASSUME EditorInv, NEW t \in Tabs, Apply(t)
  PROVE  EditorInv'
<1>1. /\ IsCall(handler[t]) /\ PerTab(handler)
      /\ \A s \in Tabs : IsCall(handler[s]) /\ Based(page[s], handler[s], shown[s])
  BY DEF EditorInv, Forms, Bases
<1> DEFINE candidate == [handler[t].source EXCEPT !.grant = handler[t].body]
           k == [handler[t] EXCEPT !.at = "saved", !.source = candidate]
<1>2. /\ Written(candidate, TRUE) /\ Compiles(handler[t].body) /\ UNCHANGED <<page, shown>>
      /\ handler' = [handler EXCEPT ![t] = k]
  BY <1>1 DEF Apply, PerTab
<1>3. IsText(candidate) /\ candidate.grant = handler[t].body
  BY <1>1 DEF IsCall, IsText
<1>4. HasCall(k, "saved", handler[t].base, candidate)
  BY <1>1, <1>3, CallReads
<1>5. Only(handler, handler', t) /\ handler'[t] = k
  BY <1>1, <1>2 DEF Only, PerTab
<1>6. \A s \in Tabs : IsCall(handler'[s]) /\ Based(page[s], handler'[s], shown[s])
                     /\ (handler'[s].at = "read" => handler[s].at = "read")
  BY <1>1, <1>4, <1>5 DEF Only, Based, HasCall
<1> QED
  BY <1>2, <1>3, <1>5, <1>6, WritingKeeps DEF Only

LEMMA OutsideKeeps ==
  ASSUME EditorInv, (\E text \in HandTexts : EditByHand(text)) \/ WatchFires \/ (\E text \in reads : WatchReloads(text))
  PROVE  EditorInv'
<1>1. ASSUME NEW text \in HandTexts, EditByHand(text) PROVE EditorInv'
  <2>1. Written(text, FALSE) /\ IsText(text) /\ UNCHANGED <<page, handler, shown>>
    BY <1>1, EditorAssumption DEF EditByHand, IsText
  <2> QED
    BY <2>1, WritingKeeps DEF EditorInv, Forms, Bases
<1>2. CASE WatchFires
  <2>1. Forms' /\ Bases'
    BY <1>2 DEF EditorInv, Forms, Bases, WatchFires
  <2> QED
    BY <1>2, <2>1 DEF EditorInv, Watched, WatchFires
<1>3. ASSUME NEW text \in reads, WatchReloads(text) PROVE EditorInv'
  <2>1. Forms' /\ Bases'
    BY <1>3 DEF EditorInv, Forms, Bases, WatchReloads
  <2> QED
    BY <1>3, <2>1 DEF EditorInv, Watched, WatchReloads
<1> QED
  BY <1>1, <1>2, <1>3

LEMMA EditorNext == EditorInv /\ [Next]_vars => EditorInv'
<1> SUFFICES ASSUME EditorInv, [Next]_vars PROVE EditorInv'
  OBVIOUS
<1>1. CASE UNCHANGED vars
  BY <1>1 DEF EditorInv, Forms, Bases, Watched, vars
<1>2. ASSUME NEW t \in Tabs, ServeLoad(t) \/ Load(t) PROVE EditorInv'
  BY <1>2, LoadingKeeps
<1>3. ASSUME NEW t \in Tabs, Save(t) \/ \E log \in Logs : ApplySetup(t, log) PROVE EditorInv'
  BY <1>3, PostingKeeps DEF Save, ApplySetup
<1>4. ASSUME NEW t \in Tabs,
             \/ \E cap \in Toggled, state \in States : Toggle(t, cap, state)
             \/ \E clause \in DOMAIN NoGrant, entry \in EditEntries : EditEntry(t, clause, entry)
      PROVE EditorInv'
  BY <1>4, EditingKeeps DEF Toggle, EditEntry
<1>5. ASSUME NEW t \in Tabs, ReadSource(t) \/ Refuse(t) PROVE EditorInv'
  BY <1>5, AnsweringKeeps
<1>6. ASSUME NEW t \in Tabs, Apply(t) PROVE EditorInv'
  BY <1>6, ApplyKeeps
<1>7. ASSUME NEW t \in Tabs, StaleAnswer(t) \/ SavedAnswer(t) \/ NoAnswer(t) PROVE EditorInv'
  BY <1>7, HearingKeeps
<1>8. CASE (\E text \in HandTexts : EditByHand(text)) \/ WatchFires \/ (\E text \in reads : WatchReloads(text))
  BY <1>8, OutsideKeeps
<1> QED
  BY <1>1, <1>2, <1>3, <1>4, <1>5, <1>6, <1>7, <1>8 DEF Next

-------------------------------------------------------------------------------
(* What is promised. *)

LEMMA Invariant == MCSpec => []EditorInv
<1>1. MCInit => EditorInv
  BY EditorInit DEF MCInit
<1>2. EditorInv /\ [MCNext]_<<vars, draft>> => EditorInv'
  BY EditorNext DEF MCNext
<1> QED
  BY <1>1, <1>2, PTL DEF MCSpec

\* When the watch has come to rest after the console was the last to write, the policy in
\* force is the file, whatever it had read before that save: the handler of POST
\* /console/policy reloads what it wrote, and its write makes the watch due again.
THEOREM SettledIsSaved == MCSpec => []ServedIsSaved
<1>1. EditorInv => ServedIsSaved
  BY DEF EditorInv, Watched, ServedIsSaved
<1> QED
  BY <1>1, Invariant, PTL

\* Only the handler of a tab moves that tab's call from read to saved, and it does so by
\* writing.
LEMMA OnlyApplySaves ==
  ASSUME EditorInv, Next, NEW t \in Tabs, Saved(t)
  PROVE  Apply(t)
<1>1. PerTab(handler) /\ IsCall(handler[t]) /\ handler[t].at = "read" /\ handler'[t].at = "saved"
  BY DEF EditorInv, Forms, Saved
<1>2. handler' # handler
  BY <1>1
<1>3. PICK s \in Tabs : ServeLoad(s) \/ Load(s) \/ (\E grant : Post(s, grant)) \/ ReadSource(s) \/ Refuse(s)
                       \/ Apply(s) \/ StaleAnswer(s) \/ SavedAnswer(s) \/ NoAnswer(s)
  <2>1. ASSUME NEW s \in Tabs PROVE /\ \A cap, state : ~Toggle(s, cap, state)
                                   /\ \A clause, entry : ~EditEntry(s, clause, entry)
    <3>1. \A grant : ~Change(s, grant)
      BY <1>2 DEF Change
    <3> QED
      BY <3>1 DEF Toggle, EditEntry
  <2>2. ~WatchFires /\ (\A text : ~WatchReloads(text)) /\ \A text : ~EditByHand(text)
    BY <1>2 DEF WatchFires, WatchReloads, EditByHand
  <2>3. ASSUME NEW s \in Tabs, Save(s) \/ \E log \in Logs : ApplySetup(s, log) PROVE \E grant : Post(s, grant)
    BY <2>3 DEF Save, ApplySetup
  <2>4. \E s \in Tabs : \/ ServeLoad(s) \/ Load(s) \/ Save(s) \/ (\E log \in Logs : ApplySetup(s, log))
                       \/ ReadSource(s) \/ Refuse(s) \/ Apply(s) \/ StaleAnswer(s) \/ SavedAnswer(s) \/ NoAnswer(s)
    BY <2>1, <2>2 DEF Next
  <2> QED
    BY <2>3, <2>4
<1>4. PICK call : handler' = [handler EXCEPT ![s] = call]
  BY <1>1, <1>3 DEF ServeLoad, Load, Post, ReadSource, Refuse, Reply, Apply, StaleAnswer, SavedAnswer, NoAnswer, PerTab
<1>5. s = t
  BY <1>1, <1>4 DEF PerTab
<1>6. CASE ServeLoad(t) \/ Load(t) \/ (\E grant : Post(t, grant)) \/ ReadSource(t)
  BY <1>1, <1>6 DEF ServeLoad, Load, Post, ReadSource
<1>7. CASE StaleAnswer(t) \/ SavedAnswer(t) \/ NoAnswer(t)
  <2>1. handler' = [handler EXCEPT ![t] = NoCall]
    BY <1>7 DEF StaleAnswer, SavedAnswer, NoAnswer
  <2> QED
    BY <1>1, <2>1, NoCallIs DEF PerTab
<1>8. CASE Refuse(t)
  <2>1. PICK what : handler' = [handler EXCEPT ![t] = [handler[t] EXCEPT !.at = what]]
                    /\ what \in {"stale_edit", "invalid_policy"}
    BY <1>1, <1>8 DEF Refuse, Reply, PerTab
  <2>2. HasCall([handler[t] EXCEPT !.at = what], what, handler[t].base, handler[t].source)
    BY <1>1, CallMoves
  <2>3. handler'[t] = [handler[t] EXCEPT !.at = what]
    BY <1>1, <2>1 DEF PerTab
  <2>4. handler'[t].at = what
    BY <2>2, <2>3 DEF HasCall
  <2> QED
    BY <1>1, <2>1, <2>4
<1> QED
  BY <1>3, <1>5, <1>6, <1>7, <1>8

\* A save by which nobody is overtaken writes over a text its page has shown and changes
\* the grants of it alone: the digest a page sends is one it was served with its grants or
\* told with its last save, through stale answers and lost ones.
THEOREM SavesAreContained == MCSpec => SavesKeepOthers
<1>1. ASSUME EditorInv, [Next]_vars, NEW t \in Tabs, Saved(t), ~overtaken[t]
      PROVE  file \in shown[t] /\ file'.rest = file.rest
  <2>1. CASE UNCHANGED vars
    BY <1>1, <2>1 DEF vars, Saved
  <2>2. CASE Next
    <3>1. Apply(t)
      BY <1>1, <2>2, OnlyApplySaves
    <3>2. handler[t].at = "read" /\ handler[t].base = handler[t].source /\ file' = [handler[t].source EXCEPT !.grant = handler[t].body]
      BY <3>1 DEF Apply, Stale, Written
    <3>3. handler[t].source = file /\ handler[t].base \in shown[t] /\ IsText(file)
      BY <1>1, <3>2 DEF EditorInv, Bases, Based, Forms
    <3>4. file' = [file EXCEPT !.grant = handler[t].body]
      BY <3>2, <3>3
    <3>5. file'.rest = file.rest
      BY <3>3, <3>4 DEF IsText
    <3> QED
      BY <3>2, <3>3, <3>5
  <2> QED
    BY <1>1, <2>1, <2>2
<1>2. EditorInv /\ [MCNext]_<<vars, draft>> =>
        [\A t \in Tabs : Saved(t) /\ ~overtaken[t] => file \in shown[t] /\ file'.rest = file.rest]_vars
  BY <1>1 DEF MCNext
<1> QED
  BY <1>2, Invariant, PTL DEF MCSpec, SavesKeepOthers

-------------------------------------------------------------------------------
(* The plain-language view of the bash grant: entries, globs and the catalogue. *)

IsEntry(e) ==
  /\ e = [on |-> e.on, globs |-> e.globs, ask |-> e.ask]
  /\ e.globs = Anything \/ e.globs \in SUBSET Globs

List(entries) == IsFiniteSet(entries) /\ \A e \in entries : IsEntry(e)
Slots == {"allow", "require_approval", "deny"}

\* A grant that a human, a template or a page may have written.
IsGrant(grant) == grant = [clause \in Slots |-> grant[clause]] /\ \A clause \in Slots : List(grant[clause])

\* A glob matches the command as a clause reads it; and it matches it in another case only.
Fits(clause, g, c) == \E d \in Alike(clause, c) : Glossed(g, d)
Shifted(globs, c) == \E g \in globs \ Anything : ~Glossed(g, c) /\ Fits("require_approval", g, c)
RespeltBy(cap, e, c) == e.on = c[1] /\ Shifted(ClaimOf(cap, e), c)

\* What a claim matches although the command is of no capability.
Strays(cap, clause, e, c) == clause # "allow" /\ RespeltBy(cap, e, c) /\ CapabilityFor(c) \notin Caps

Hit(grant, clause, c) == \E e \in grant[clause] : Covers(clause, e, c)

LEMMA AnythingIs ==
  /\ Anything # {} /\ (\A S \in SUBSET Globs : S # Anything)
  /\ \A e : e.globs \in SUBSET Globs => e.globs # Anything
<1>1. AnyTarget \in Anything /\ AnyTarget \notin Globs
  BY CommandsAssumption DEF Anything
<1> QED
  BY <1>1

LEMMA EntryIs ==
  ASSUME NEW on, NEW globs, globs = Anything \/ globs \in SUBSET Globs
  PROVE  /\ IsEntry(Entry(on, globs)) /\ Entry(on, globs).on = on /\ Entry(on, globs).globs = globs
BY DEF IsEntry, Entry

LEMMA PrefixIs ==
  ASSUME NEW s \in Seq(Words), NEW t \in Seq(Words)
  PROVE  IsPrefix(s, t) <=> Len(s) <= Len(t) /\ \A i \in 1..Len(s) : s[i] = t[i]
<1>1. ASSUME Len(s) <= Len(t)
      PROVE  SubSeq(s, 1, Len(s)) = SubSeq(t, 1, Len(s)) <=> \A i \in 1..Len(s) : s[i] = t[i]
  <2>1. /\ SubSeq(s, 1, Len(s)) = [i \in 1..Len(s) |-> s[i]]
        /\ SubSeq(t, 1, Len(s)) = [i \in 1..Len(s) |-> t[i]]
    BY <1>1
  <2> QED
    BY <2>1
<1> QED
  BY <1>1 DEF IsPrefix

LEMMA PrefixFollows ==
  ASSUME NEW r \in Seq(Words), NEW s \in Seq(Words), NEW t \in Seq(Words), IsPrefix(r, s), IsPrefix(s, t)
  PROVE  IsPrefix(r, t)
<1>1. Len(r) <= Len(s) /\ (\A i \in 1..Len(r) : r[i] = s[i]) /\ Len(s) <= Len(t) /\ \A i \in 1..Len(s) : s[i] = t[i]
  BY PrefixIs
<1>2. Len(r) \in Nat /\ Len(s) \in Nat /\ Len(t) \in Nat
  OBVIOUS
<1> QED
  BY <1>1, <1>2, PrefixIs

\* The catalogue: every command belongs to one capability at most, and nothing that is
\* flagged for what it is may be allowed by default.
Kept == {"never", "off-machine"}

Slice(p) == p \in {<<"git", "status">>, <<"git", "push">>, <<"gh", "repo">>}

LEMMA PairIsFinite == ASSUME NEW x, NEW y PROVE IsFiniteSet({x, y})
<1>1. {x, y} = {x} \cup {y}
  OBVIOUS
<1>2. IsFiniteSet({x}) /\ IsFiniteSet({y})
  BY FS_Singleton
<1>3. IsFiniteSet({x} \cup {y})
  BY <1>2, FS_Union
<1> QED
  BY <1>1, <1>3

\* A capability is made of whole binaries or of slices.
LEMMA CatalogueHas ==
  /\ Caps = {"read", "local", "publish", "network", "admin"}
  /\ Catalogue["read"].whole = {"cat", "ls"} /\ Catalogue["read"].prefixes = {}
  /\ Catalogue["local"].whole = {} /\ Catalogue["local"].prefixes = {<<"git", "status">>}
  /\ Catalogue["publish"].whole = {} /\ Catalogue["publish"].prefixes = {<<"git", "push">>, <<"gh", "repo">>}
  /\ Catalogue["network"].whole = {"curl"} /\ Catalogue["network"].prefixes = {}
  /\ Catalogue["admin"].whole = {"sudo"} /\ Catalogue["admin"].prefixes = {}
  /\ \A cap \in Caps :
       /\ Catalogue[cap].default \in States
       /\ Catalogue[cap].kind \in Kept => Catalogue[cap].default # "allow"
BY DEF Caps, Catalogue, States, Kept

LEMMA SliceIs ==
  ASSUME NEW p, Slice(p)
  PROVE  p \in Seq(Words) /\ Len(p) = 2
<1>1. Len(p) = 2
  BY DEF Slice
<1>2. p \in Catalogue["local"].prefixes \union Catalogue["publish"].prefixes
  BY CatalogueHas DEF Slice
<1> QED
  BY <1>1, <1>2, CatalogueHas, CommandsAssumption

LEMMA CatalogueIs ==
  ASSUME NEW cap \in Caps
  PROVE  /\ \A p \in Catalogue[cap].prefixes : Slice(p) /\ p \in Seq(Words) /\ Len(p) = 2
         /\ Catalogue[cap].whole = {} <=> Catalogue[cap].prefixes # {}
         /\ Every \notin Catalogue[cap].whole
         /\ IsFiniteSet(Catalogue[cap].whole) /\ IsFiniteSet(Catalogue[cap].prefixes)
<1>1. \A p \in Catalogue[cap].prefixes : Slice(p)
  BY CatalogueHas DEF Slice
<1>4. Catalogue[cap].whole = {} <=> Catalogue[cap].prefixes # {}
  BY CatalogueHas
<1>5. Every \notin Catalogue[cap].whole
  BY CatalogueHas DEF Every
<1>2. /\ IsFiniteSet({}) /\ IsFiniteSet({"cat", "ls"}) /\ IsFiniteSet({"curl"}) /\ IsFiniteSet({"sudo"})
      /\ IsFiniteSet({<<"git", "status">>}) /\ IsFiniteSet({<<"git", "push">>, <<"gh", "repo">>})
  BY FS_EmptySet, FS_Singleton, PairIsFinite
<1>3. IsFiniteSet(Catalogue[cap].whole)
  BY <1>2, CatalogueHas
<1>6. IsFiniteSet(Catalogue[cap].prefixes)
  BY <1>2, CatalogueHas
<1> QED
  BY <1>1, <1>3, <1>4, <1>5, <1>6, SliceIs

LEMMA CapsApart ==
  ASSUME NEW cap \in Caps, NEW other \in Caps, cap # other
  PROVE  /\ Catalogue[cap].whole \cap Catalogue[other].whole = {}
         /\ \A p \in Catalogue[cap].prefixes, q \in Catalogue[other].prefixes : ~(p[1] = q[1] /\ p[2] = q[2])
<1>1. Catalogue[cap].whole \cap Catalogue[other].whole = {}
  BY CatalogueHas
<1>2. ASSUME NEW p \in Catalogue[cap].prefixes, NEW q \in Catalogue[other].prefixes, p[1] = q[1], p[2] = q[2]
      PROVE  FALSE
  <2>1. /\ <<"git", "status">>[1] = "git" /\ <<"git", "status">>[2] = "status"
        /\ <<"git", "push">>[1] = "git" /\ <<"git", "push">>[2] = "push"
        /\ <<"gh", "repo">>[1] = "gh" /\ <<"gh", "repo">>[2] = "repo"
    OBVIOUS
  <2> QED
    BY <1>2, <2>1, CatalogueHas
<1> QED
  BY <1>1, <1>2

LEMMA SlicesApart ==
  ASSUME NEW cap \in Caps, NEW other \in Caps, NEW p \in Catalogue[cap].prefixes
  PROVE  p[1] \notin Catalogue[other].whole
<1>1. p[1] \in {"git", "gh"}
  BY CatalogueIs DEF Slice
<1> QED
  BY <1>1, CatalogueHas

-------------------------------------------------------------------------------
(* What the engine makes of a grant. *)

LEMMA SeqOfSet ==
  ASSUME NEW S, IsFiniteSet(S)
  PROVE  {SetToSeq(S)[i] : i \in DOMAIN SetToSeq(S)} = S
<1> DEFINE n == Cardinality(S)
           f == SetToSeq(S)
<1>1. n \in Nat /\ ExistsBijection(1..n, S)
  BY FS_CardinalityType
<1>2. PICK g : g \in Bijection(1..n, S)
  BY <1>1 DEF ExistsBijection
<1>3. g \in [1..n -> S] /\ IsInjective(g)
  BY <1>2 DEF Bijection, Injection, IsInjective
<1>4. f \in [1..n -> S] /\ IsInjective(f)
  BY <1>3 DEF SetToSeq
<1>5. f \in Injection(1..n, S)
  BY <1>4 DEF Injection, IsInjective
<1>6. IsFiniteSet(1..n) /\ Cardinality(1..n) = n
  BY <1>1, FS_Interval
<1>7. f \in Surjection(1..n, S)
  BY <1>5, <1>6, FS_Injection
<1> QED
  BY <1>4, <1>7 DEF Surjection

LEMMA CommandIs ==
  ASSUME NEW c \in Commands
  PROVE  c \in Seq(Words) /\ c # <<>> /\ c \notin {AnyTarget, Unknown, Somewhere} /\ c[1] \in Binaries
BY CommandsAssumption DEF Binaries

\* A command is one of those that a clause takes for it, and an allow takes no other.
LEMMA AlikeIs ==
  ASSUME NEW clause, NEW c \in Commands
  PROVE  /\ Alike(clause, c) \subseteq Commands /\ c \in Alike(clause, c)
         /\ clause = "allow" => Alike(clause, c) = {c}
         /\ clause # "allow" => Alike(clause, c) = Alike("require_approval", c)
BY DEF Alike

\* Spellings of one command have as many words, and the same ones but for their case.
LEMMA SpelledAlike ==
  ASSUME NEW clause, NEW c \in Commands, NEW d \in Alike(clause, c)
  PROVE  /\ d \in Seq(Words) /\ Len(d) = Len(c)
         /\ \A i \in 1..Len(c) : Lower[d[i]] = Lower[c[i]]
<1>1. c \in Seq(Words) /\ d \in Seq(Words) /\ Lowered(d) = Lowered(c)
  BY AlikeIs, CommandIs DEF Alike
<1>2. DOMAIN d = DOMAIN c
  BY <1>1 DEF Lowered
<1>3. DOMAIN c = 1..Len(c) /\ DOMAIN d = 1..Len(d) /\ Len(c) \in Nat /\ Len(d) \in Nat
  BY <1>1
<1>4. Len(d) = Len(c)
  BY <1>2, <1>3
<1>5. ASSUME NEW i \in 1..Len(c) PROVE Lower[d[i]] = Lower[c[i]]
  <2>1. Lowered(d)[i] = Lower[d[i]] /\ Lowered(c)[i] = Lower[c[i]]
    BY <1>2, <1>3 DEF Lowered
  <2> QED
    BY <1>1, <2>1
<1> QED
  BY <1>1, <1>4, <1>5

\* What an entry of a clause covers, by its globs and by the rule it is read as.
LEMMA CoversIs ==
  ASSUME NEW clause, NEW c \in Commands, NEW e
  PROVE  /\ Covers(clause, e, c) <=>
              (e.on = Every \/ e.on = c[1]) /\ (e.globs = Anything \/ \E g \in e.globs : Fits(clause, g, c))
         /\ Covers(clause, e, c) <=>
              c[1] \in AsRule(e).on /\ (AsRule(e).at = AnyTarget \/ Alike(clause, c) \cap AsRule(e).at # {})
<1>1. AsRule(e).on = (IF e.on = Every THEN Binaries ELSE {e.on})
  BY DEF AsRule
<1>2. c[1] \in AsRule(e).on <=> e.on = Every \/ e.on = c[1]
  BY <1>1, CommandIs
<1>3. CASE e.globs = Anything
  <2>1. AsRule(e).at = AnyTarget
    BY <1>3 DEF AsRule
  <2> QED
    BY <1>2, <1>3, <2>1 DEF Covers
<1>4. CASE e.globs # Anything
  <2>1. AsRule(e).at = {d \in Commands : \E g \in e.globs : Glossed(g, d)}
    BY <1>4 DEF AsRule
  <2>2. AsRule(e).at # AnyTarget
    BY <2>1, CommandsAssumption
  <2>3. Alike(clause, c) \cap AsRule(e).at # {} <=> \E g \in e.globs : Fits(clause, g, c)
    BY <2>1, AlikeIs DEF Fits
  <2> QED
    BY <1>2, <1>4, <2>2, <2>3 DEF Covers
<1> QED
  BY <1>3, <1>4

\* The rules of a clause, as they are compiled, match what its entries cover.
LEMMA ClauseMatches ==
  ASSUME NEW entries, List(entries), NEW c \in Commands, NEW clause, NEW rules,
         rules = SetToSeq({AsRule(e) : e \in entries})
  PROVE  /\ clause = "allow" =>
              (E!AnyMatch(rules, c[1], c, clause) <=> \E e \in entries : Covers(clause, e, c))
         /\ clause # "allow" =>
              (E!AnyMatch(E!CaseInsensitive(rules), c[1], c, clause) <=> \E e \in entries : Covers(clause, e, c))
<1> DEFINE S == {AsRule(e) : e \in entries}
           hit(r) == c[1] \in r.on /\ (r.at = AnyTarget \/ c \in r.at)
           meets(r) == c[1] \in r.on /\ (r.at = AnyTarget \/ Alike(clause, c) \cap r.at # {})
<1>1. IsFiniteSet(S)
  <2> DEFINE f == [e \in entries |-> AsRule(e)]
  <2>1. f \in Surjection(entries, S)
    BY DEF Surjection
  <2> QED
    BY <2>1, FS_Surjection DEF List
<1>2. {rules[i] : i \in DOMAIN rules} = S
  BY <1>1, SeqOfSet
<1>3. \A e : Covers(clause, e, c) <=> meets(AsRule(e))
  BY CoversIs
<1> HIDE DEF hit, meets
<1>4. (\E i \in DOMAIN rules : meets(rules[i])) <=> \E e \in entries : Covers(clause, e, c)
  <2>1. ASSUME NEW i \in DOMAIN rules, meets(rules[i]) PROVE \E e \in entries : Covers(clause, e, c)
    <3>1. rules[i] \in S
      BY <1>2
    <3>2. PICK e \in entries : rules[i] = AsRule(e)
      BY <3>1
    <3>3. meets(AsRule(e))
      BY <2>1, <3>2
    <3> QED
      BY <1>3, <3>3
  <2>2. ASSUME NEW e \in entries, Covers(clause, e, c) PROVE \E i \in DOMAIN rules : meets(rules[i])
    <3>1. meets(AsRule(e)) /\ AsRule(e) \in S
      BY <1>3, <2>2
    <3> HIDE DEF S
    <3>2. PICK i \in DOMAIN rules : rules[i] = AsRule(e)
      BY <1>2, <3>1
    <3> QED
      BY <3>1, <3>2
  <2> QED
    BY <2>1, <2>2
<1>5. \A r : E!Matches(r, c[1], c, clause) <=> hit(r)
  BY CommandIs DEF E!Matches, hit
<1>6. ASSUME clause = "allow"
      PROVE  E!AnyMatch(rules, c[1], c, clause) <=> \E i \in DOMAIN rules : meets(rules[i])
  <2>1. \A r : hit(r) <=> meets(r)
    BY <1>6, AlikeIs DEF hit, meets
  <2> QED
    BY <1>5, <2>1 DEF E!AnyMatch, E!Range
<1>7. ASSUME clause # "allow", NEW i \in DOMAIN rules
      PROVE  hit(E!CaseInsensitive(rules)[i]) <=> meets(rules[i])
  <2>1. PICK e \in entries : rules[i] = AsRule(e)
    BY <1>2
  <2>2. CASE rules[i].at = AnyTarget
    BY <2>2 DEF E!CaseInsensitive, hit, meets
  <2>3. CASE rules[i].at # AnyTarget
    <3>0. AsRule(e).at = (IF e.globs = Anything THEN AnyTarget ELSE {d \in Commands : \E g \in e.globs : Glossed(g, d)})
      BY DEF AsRule
    <3>1. rules[i].at \subseteq Commands
      BY <2>1, <2>3, <3>0
    <3>2. E!CaseVariants(rules[i].at) = {t \in Commands : \E u \in rules[i].at : Lowered(t) = Lowered(u)}
      BY <3>1 DEF E!CaseVariants
    <3>3. E!CaseVariants(rules[i].at) # AnyTarget
      BY <3>2, CommandsAssumption
    <3>4. c \in E!CaseVariants(rules[i].at) <=> Alike(clause, c) \cap rules[i].at # {}
      BY <1>7, <3>1, <3>2 DEF Alike
    <3>5. rules[i] = [on |-> rules[i].on, at |-> rules[i].at, ask |-> rules[i].ask]
      BY <2>1 DEF AsRule
    <3>6. E!CaseInsensitive(rules)[i] = [rules[i] EXCEPT !.at = E!CaseVariants(rules[i].at)]
      BY <2>3 DEF E!CaseInsensitive
    <3>7. E!CaseInsensitive(rules)[i].on = rules[i].on /\ E!CaseInsensitive(rules)[i].at = E!CaseVariants(rules[i].at)
      BY <3>5, <3>6
    <3> QED
      BY <2>3, <3>3, <3>4, <3>7 DEF hit, meets
  <2> QED
    BY <2>2, <2>3
<1>8. ASSUME clause # "allow"
      PROVE  E!AnyMatch(E!CaseInsensitive(rules), c[1], c, clause) <=> \E i \in DOMAIN rules : meets(rules[i])
  <2> DEFINE folded == E!CaseInsensitive(rules)
  <2>1. DOMAIN folded = DOMAIN rules
    BY DEF E!CaseInsensitive
  <2>2. \A i \in DOMAIN rules : hit(folded[i]) <=> meets(rules[i])
    BY <1>7, <1>8
  <2> HIDE DEF folded
  <2>3. E!AnyMatch(folded, c[1], c, clause) <=> \E i \in DOMAIN folded : hit(folded[i])
    BY <1>5 DEF E!AnyMatch, E!Range
  <2> QED
    BY <2>1, <2>2, <2>3 DEF folded
<1> QED
  BY <1>4, <1>6, <1>8

\* What a glob of one clause matches it matches in another, or in another case only.
LEMMA CoverCarries ==
  ASSUME NEW clause, NEW other, NEW c \in Commands, NEW e, IsEntry(e), Covers(clause, e, c)
  PROVE  Covers(other, e, c) \/ (clause # "allow" /\ Shifted(e.globs, c))
<1>1. CASE e.globs = Anything
  BY <1>1, CoversIs
<1>2. CASE e.globs # Anything
  <2>1. PICK g \in e.globs : Fits(clause, g, c)
    BY <1>2, CoversIs
  <2>2. CASE Glossed(g, c)
    <3>1. Fits(other, g, c)
      BY <2>2, AlikeIs DEF Fits
    <3>2. e.on = Every \/ e.on = c[1]
      BY CoversIs
    <3> QED
      BY <3>1, <3>2, CoversIs
  <2>3. CASE ~Glossed(g, c)
    <3>1. clause # "allow" /\ Fits("require_approval", g, c)
      BY <2>1, <2>3, AlikeIs DEF Fits
    <3>2. g \notin Anything
      BY <1>2, CommandsAssumption DEF IsEntry, Anything
    <3> QED
      BY <2>3, <3>1, <3>2 DEF Shifted
  <2> QED
    BY <2>2, <2>3
<1> QED
  BY <1>1, <1>2

\* Deny before ask before allow, and nothing that no entry covers.
LEMMA VerdictIs ==
  ASSUME NEW grant, IsGrant(grant), NEW c \in Commands
  PROVE  Verdict(grant, c) = (IF Hit(grant, "deny", c) THEN "deny"
                              ELSE IF Hit(grant, "require_approval", c) THEN "require_approval"
                              ELSE IF Hit(grant, "allow", c) THEN "allow" ELSE "deny")
<1> DEFINE rules(clause) == SetToSeq({AsRule(e) : e \in grant[clause]})
           compiled == E!CompileGrant(Source(grant)["bash"])
           policy == E!Compile(Source(grant))
<1>1. List(grant.deny) /\ List(grant.require_approval) /\ List(grant.allow)
  BY DEF IsGrant, Slots
<1>2. policy = [tool \in {"bash"} |-> compiled]
  BY DEF E!Compile, Source
<1>3. /\ compiled.deny = E!CaseInsensitive(rules("deny"))
      /\ compiled.approve = E!CaseInsensitive(rules("require_approval"))
      /\ compiled.allow = rules("allow")
  BY DEF E!CompileGrant, Source
<1>4. /\ E!AnyMatch(compiled.deny, c[1], c, "deny") <=> Hit(grant, "deny", c)
      /\ E!AnyMatch(compiled.approve, c[1], c, "require_approval") <=> Hit(grant, "require_approval", c)
      /\ E!AnyMatch(compiled.allow, c[1], c, "allow") <=> Hit(grant, "allow", c)
  <2>1. /\ E!AnyMatch(E!CaseInsensitive(rules("deny")), c[1], c, "deny") <=> Hit(grant, "deny", c)
        /\ E!AnyMatch(E!CaseInsensitive(rules("require_approval")), c[1], c, "require_approval")
             <=> Hit(grant, "require_approval", c)
        /\ E!AnyMatch(rules("allow"), c[1], c, "allow") <=> Hit(grant, "allow", c)
    BY <1>1, ClauseMatches DEF Hit
  <2> HIDE DEF compiled, rules
  <2> QED
    BY <1>3, <2>1
<1>5. c # Unknown
  BY CommandIs
<1> HIDE DEF compiled
<1>6. DOMAIN policy = {"bash"} /\ policy["bash"] = compiled
  BY <1>2
<1> HIDE DEF policy
<1>7. E!Evaluate(policy, "bash", c[1], c).decision =
        (IF Hit(grant, "deny", c) THEN "deny"
         ELSE IF Hit(grant, "require_approval", c) THEN "require_approval"
         ELSE IF Hit(grant, "allow", c) THEN "allow" ELSE "deny")
  <2> DEFINE d == E!AnyMatch(compiled.deny, c[1], c, "deny")
             a == E!AnyMatch(compiled.approve, c[1], c, "require_approval")
             l == E!AnyMatch(compiled.allow, c[1], c, "allow")
  <2>1. E!Evaluate(policy, "bash", c[1], c).decision =
          (IF d THEN "deny" ELSE IF a THEN "require_approval" ELSE IF l THEN "allow" ELSE "deny")
    BY <1>5, <1>6 DEF E!Evaluate
  <2> QED
    BY <1>4, <2>1
<1> QED
  BY <1>7 DEF Verdict, E!Decide, policy

-------------------------------------------------------------------------------
(* Capabilities and what they claim. *)

\* A slice that a text begins with is the only one, and no binary of a whole capability.
LEMMA OneSlice ==
  ASSUME NEW w \in Seq(Words), NEW cap \in Caps, NEW other \in Caps,
         NEW p \in Catalogue[cap].prefixes, NEW q \in Catalogue[other].prefixes, IsPrefix(p, w), IsPrefix(q, w)
  PROVE  cap = other
<1>1. p \in Seq(Words) /\ q \in Seq(Words) /\ Len(p) = 2 /\ Len(q) = 2
  BY CatalogueIs
<1>2. p[1] = w[1] /\ p[2] = w[2] /\ q[1] = w[1] /\ q[2] = w[2]
  BY <1>1, PrefixIs
<1> QED
  BY <1>2, CapsApart

LEMMA SliceStarts ==
  ASSUME NEW w \in Seq(Words), NEW cap \in Caps, NEW p \in Catalogue[cap].prefixes, IsPrefix(p, w)
  PROVE  w[1] = p[1] /\ \A other \in Caps : w[1] \notin Catalogue[other].whole
<1>1. p \in Seq(Words) /\ Len(p) = 2
  BY CatalogueIs
<1>2. 1 \in 1..Len(p)
  BY <1>1
<1>3. p[1] = w[1]
  BY <1>1, <1>2, PrefixIs
<1> QED
  BY <1>3, SlicesApart

\* A command is of the capability that has its slice, or else its binary.
LEMMA OwnerIs ==
  ASSUME NEW c \in Commands, NEW cap \in Caps
  PROVE  /\ CapabilityFor(c) = cap <=> \/ \E p \in Catalogue[cap].prefixes : IsPrefix(p, c)
                                       \/ c[1] \in Catalogue[cap].whole
         /\ cap # "none"
<1> DEFINE sliced == {k \in Caps : \E p \in Catalogue[k].prefixes : IsPrefix(p, c)}
           whole == {k \in Caps : c[1] \in Catalogue[k].whole}
<1>1. CapabilityFor(c) = (IF sliced # {} THEN CHOOSE k \in sliced : TRUE
                          ELSE IF whole # {} THEN CHOOSE k \in whole : TRUE ELSE "none")
  BY DEF CapabilityFor
<1>2. \A k, l \in sliced : k = l
  BY CommandIs, OneSlice
<1>3. \A k, l \in whole : k = l
  BY CapsApart
<1>4. sliced # {} => whole = {}
  BY CommandIs, SliceStarts
<1>5. cap # "none" /\ \A k \in Caps : k # "none"
  BY CatalogueHas
<1>6. sliced \in SUBSET Caps /\ whole \in SUBSET Caps
  OBVIOUS
<1>7. CapabilityFor(c) = cap <=> cap \in sliced \/ cap \in whole
  <2> HIDE DEF sliced, whole
  <2> QED
    BY <1>1, <1>2, <1>3, <1>4, <1>5
<1> QED
  BY <1>5, <1>7

LEMMA ClaimIs ==
  ASSUME NEW cap \in Caps, NEW e, IsEntry(e)
  PROVE  /\ e.on \in Catalogue[cap].whole => ClaimOf(cap, e) = e.globs
         /\ e.on \notin Catalogue[cap].whole /\ e.globs = Anything => ClaimOf(cap, e) = {}
         /\ e.on \notin Catalogue[cap].whole /\ e.globs # Anything =>
              ClaimOf(cap, e) = {g \in e.globs : \E p \in Catalogue[cap].prefixes : p[1] = e.on /\ IsPrefix(p, g.words)}
BY DEF ClaimOf, Claimed, Mine

LEMMA GlobIs ==
  ASSUME NEW e, IsEntry(e), e.globs # Anything, NEW g \in e.globs
  PROVE  g \in Globs /\ g.words \in Seq(Words)
BY DEF IsEntry, Globs

\* What a claim takes is of a binary of the catalogue.
LEMMA ClaimNames ==
  ASSUME NEW cap \in Caps, NEW e, IsEntry(e), Claims(cap, e)
  PROVE  e.on # Every
<1>1. CASE e.on \in Catalogue[cap].whole
  BY <1>1, CatalogueIs
<1>2. CASE e.on \notin Catalogue[cap].whole
  <2>1. PICK p \in Catalogue[cap].prefixes : p[1] = e.on
    BY <1>2, ClaimIs DEF Claims
  <2>2. p[1] \in {"git", "gh"}
    BY CatalogueIs DEF Slice
  <2> QED
    BY <2>1, <2>2 DEF Every
<1> QED
  BY <1>1, <1>2

\* What has a slice in some spelling has no other slice, and no binary of a whole capability.
LEMMA OwnedAlike ==
  ASSUME NEW clause, NEW c \in Commands, NEW d \in Alike(clause, c), NEW cap \in Caps,
         NEW p \in Catalogue[cap].prefixes, IsPrefix(p, d), c[1] = p[1], NEW owner \in Caps, CapabilityFor(c) = owner
  PROVE  owner = cap
<1>1. p \in Seq(Words) /\ Len(p) = 2 /\ Lowered(p) = p
  BY CatalogueIs, CommandsAssumption
<1>2. d \in Seq(Words) /\ Len(d) = Len(c) /\ \A i \in 1..Len(c) : Lower[d[i]] = Lower[c[i]]
  BY SpelledAlike
<1>3. 2 <= Len(d) /\ d[2] = p[2] /\ Len(d) \in Nat
  <2>1. Len(p) <= Len(d) /\ \A i \in 1..Len(p) : p[i] = d[i]
    BY <1>1, <1>2, PrefixIs
  <2> QED
    BY <1>1, <1>2, <2>1
<1>4. Lower[c[2]] = p[2]
  <2>1. Lower[d[2]] = Lower[c[2]]
    BY <1>2, <1>3
  <2>2. Lowered(p)[2] = Lower[p[2]]
    BY <1>1 DEF Lowered
  <2> QED
    BY <1>1, <1>3, <2>1, <2>2
<1>5. c[1] \notin Catalogue[owner].whole
  BY SlicesApart
<1>6. PICK q \in Catalogue[owner].prefixes : IsPrefix(q, c)
  BY <1>5, OwnerIs
<1>7. q \in Seq(Words) /\ Len(q) = 2 /\ Lowered(q) = q
  BY CatalogueIs, CommandsAssumption
<1>8. q[1] = c[1] /\ q[2] = c[2]
  <2>1. \A i \in 1..Len(q) : q[i] = c[i]
    BY <1>6, <1>7, CommandIs, PrefixIs
  <2> QED
    BY <1>7, <2>1
<1>9. Lower[q[2]] = q[2]
  <2>1. Lowered(q)[2] = Lower[q[2]]
    BY <1>7 DEF Lowered
  <2> QED
    BY <1>7, <2>1
<1> QED
  BY <1>4, <1>8, <1>9, CapsApart

\* What an entry covers by a claim of it belongs to the capability, or to none and is spelled
\* otherwise.
LEMMA ClaimedIsOwned ==
  ASSUME NEW clause, NEW c \in Commands, NEW cap \in Caps, NEW e, IsEntry(e), e.on = c[1] \/ e.on = Every
  PROVE  /\ e.on \in Catalogue[cap].whole => CapabilityFor(c) = cap
         /\ e.on \notin Catalogue[cap].whole =>
              \A g \in ClaimOf(cap, e) : Fits(clause, g, c) => CapabilityFor(c) = cap \/ Strays(cap, clause, e, c)
<1>1. ASSUME e.on \in Catalogue[cap].whole PROVE CapabilityFor(c) = cap
  <2>1. c[1] = e.on
    BY <1>1, CatalogueIs
  <2> QED
    BY <1>1, <2>1, OwnerIs
<1>2. ASSUME e.on \notin Catalogue[cap].whole, NEW g \in ClaimOf(cap, e), Fits(clause, g, c)
      PROVE  CapabilityFor(c) = cap \/ Strays(cap, clause, e, c)
  <2>1. e.globs # Anything /\ e.on = c[1]
    BY <1>2, ClaimIs, ClaimNames DEF Claims
  <2>2. PICK p \in Catalogue[cap].prefixes : p[1] = e.on /\ IsPrefix(p, g.words)
    BY <1>2, <2>1, ClaimIs
  <2>3. g \in e.globs /\ g \in Globs /\ g.words \in Seq(Words)
    BY <1>2, <2>1, ClaimIs, GlobIs
  <2>4. \A d \in Commands : Glossed(g, d) => IsPrefix(p, d)
    BY <2>2, <2>3, CatalogueIs, CommandIs, PrefixFollows DEF Glossed
  <2>5. CASE Glossed(g, c)
    BY <2>4, <2>5, OwnerIs
  <2>6. CASE ~Glossed(g, c)
    <3>1. PICK d \in Alike(clause, c) : Glossed(g, d)
      BY <1>2 DEF Fits
    <3>2. clause # "allow" /\ Fits("require_approval", g, c)
      BY <2>6, <3>1, AlikeIs DEF Fits
    <3>3. RespeltBy(cap, e, c)
      <4>1. g \notin Anything
        BY <2>3, CommandsAssumption DEF Anything
      <4> QED
        BY <1>2, <2>1, <2>6, <3>2, <4>1 DEF RespeltBy, Shifted
    <3>4. IsPrefix(p, d)
      BY <2>4, <3>1, AlikeIs
    <3>5. CapabilityFor(c) \in Caps => CapabilityFor(c) = cap
      BY <2>1, <2>2, <3>1, <3>4, OwnedAlike
    <3> QED
      BY <3>2, <3>3, <3>5 DEF Strays
  <2> QED
    BY <2>5, <2>6
<1> QED
  BY <1>1, <1>2

\* Whatever covers a command is shown as it is written, or claimed by a capability that has the
\* command, but for its spelling.
LEMMA CoveredIsShown ==
  ASSUME NEW grant, IsGrant(grant), NEW clause \in Slots, NEW c \in Commands, NEW e \in grant[clause], Covers(clause, e, c)
  PROVE  \/ \E r \in Leftovers(grant, clause) : Covers(clause, r, c)
         \/ \E cap \in Caps : Claims(cap, e) /\ (CapabilityFor(c) = cap \/ Strays(cap, clause, e, c))
<1>1. IsEntry(e) /\ (e.on = c[1] \/ e.on = Every)
  BY CoversIs DEF IsGrant, List
<1>2. CASE \E k \in Caps : e.on \in Catalogue[k].whole
  <2>1. PICK k \in Caps : e.on \in Catalogue[k].whole
    BY <1>2
  <2>2. e.globs # {}
    BY AnythingIs, CoversIs
  <2>3. Claims(k, e)
    BY <1>1, <2>1, <2>2, ClaimIs DEF Claims
  <2> QED
    BY <1>1, <2>1, <2>3, ClaimedIsOwned
<1>3. CASE \A k \in Caps : e.on \notin Catalogue[k].whole
  <2> DEFINE unnamed == {x \in grant[clause] : \A k \in Caps : x.on \notin Catalogue[k].whole}
             rest(x) == IF x.globs = Anything THEN x ELSE [x EXCEPT !.globs = @ \ UNION {ClaimOf(k, x) : k \in Caps}]
  <2>1. e \in unnamed /\ Leftovers(grant, clause) = {rest(x) : x \in unnamed} \ {[x EXCEPT !.globs = {}] : x \in unnamed}
    BY <1>3 DEF Leftovers
  <2>2. \A x \in unnamed : IsEntry(x) /\ [x EXCEPT !.globs = {}].globs = {}
    BY DEF IsGrant, List, IsEntry
  <2>3. CASE e.globs = Anything
    <3>1. rest(e) = e /\ e.globs # {}
      BY <2>3, AnythingIs
    <3>2. e \in Leftovers(grant, clause)
      <4>1. e \in {rest(x) : x \in unnamed}
        BY <2>1, <3>1
      <4>2. \A x \in unnamed : [x EXCEPT !.globs = {}] # e
        BY <2>2, <3>1
      <4> HIDE DEF unnamed, rest
      <4> QED
        BY <2>1, <4>1, <4>2
    <3> QED
      BY <3>2
  <2>4. CASE e.globs # Anything
    <3>1. PICK g \in e.globs : Fits(clause, g, c)
      BY <2>4, CoversIs
    <3>2. CASE \E k \in Caps : g \in ClaimOf(k, e)
      <4>1. PICK k \in Caps : g \in ClaimOf(k, e)
        BY <3>2
      <4> QED
        BY <1>1, <1>3, <3>1, <4>1, ClaimedIsOwned DEF Claims
    <3>3. CASE \A k \in Caps : g \notin ClaimOf(k, e)
      <4>1. rest(e).on = e.on /\ rest(e).globs = e.globs \ UNION {ClaimOf(k, e) : k \in Caps}
        BY <1>1, <2>4 DEF IsEntry
      <4>2. g \in rest(e).globs
        BY <3>3, <4>1
      <4>3. rest(e) \in Leftovers(grant, clause)
        BY <2>1, <2>2, <4>2
      <4> HIDE DEF rest
      <4>4. Covers(clause, rest(e), c)
        BY <1>1, <3>1, <4>1, <4>2, CoversIs
      <4> QED
        BY <4>3, <4>4
    <3> QED
      BY <3>2, <3>3
  <2> QED
    BY <2>3, <2>4
<1> QED
  BY <1>2, <1>3

\* Whatever covers a command of a capability is claimed by it, or shown as it is written.
LEMMA OwnedIsShown ==
  ASSUME NEW grant, IsGrant(grant), NEW clause \in Slots, NEW c \in Commands, NEW cap \in Caps, CapabilityFor(c) = cap,
         NEW e \in grant[clause], Covers(clause, e, c)
  PROVE  Claims(cap, e) \/ \E r \in Leftovers(grant, clause) : Covers(clause, r, c)
BY CoveredIsShown DEF Strays

\* The state of a row is the first clause with a claim.
LEMMA RowIs ==
  ASSUME NEW grant, NEW cap
  PROVE  LET seen == ClausesOf(grant, cap)
         IN /\ Row(grant, cap).state \in States
            /\ 1 \in seen => Row(grant, cap).state = "allow"
            /\ 2 \in seen /\ 1 \notin seen => Row(grant, cap).state = "ask"
            /\ 1 \notin seen /\ 2 \notin seen => Row(grant, cap).state = "block"
            /\ Row(grant, cap).present <=> seen # {}
            /\ Row(grant, cap).mixed <=> Cardinality(seen) > 1
<1> DEFINE seen == ClausesOf(grant, cap)
<1>1. seen \in SUBSET (1..3)
  BY DEF ClausesOf
<1>2. seen # {} => Min(seen) \in seen /\ \A i \in seen : Min(seen) <= i
  <2> SUFFICES ASSUME seen # {} PROVE \E i \in seen : \A j \in seen : i <= j
    BY DEF Min
  <2>1. CASE 1 \in seen
    BY <1>1, <2>1
  <2>2. CASE 1 \notin seen /\ 2 \in seen
    BY <1>1, <2>2
  <2>3. CASE 1 \notin seen /\ 2 \notin seen
    BY <1>1, <2>3
  <2> QED
    BY <2>1, <2>2, <2>3
<1>3. /\ Row(grant, cap).state = (IF seen = {} THEN "block" ELSE StateOf[Clauses[Min(seen)]])
      /\ Row(grant, cap).present <=> seen # {}
      /\ Row(grant, cap).mixed <=> Cardinality(seen) > 1
  BY DEF Row
<1>4. StateOf[Clauses[1]] = "allow" /\ StateOf[Clauses[2]] = "ask" /\ StateOf[Clauses[3]] = "block"
  BY DEF StateOf, Clauses
<1> DEFINE m == Min(seen)
<1> HIDE DEF seen
<1>7. seen # {} => m \in seen /\ \A i \in seen : m <= i
  BY <1>2
<1>8. seen # {} => m \in {1, 2, 3}
  <2>1. seen # {} => m \in 1..3
    BY <1>1, <1>7
  <2> HIDE DEF m
  <2> QED
    BY <2>1
<1> HIDE DEF m
<1>5. /\ 1 \in seen => m = 1
      /\ 2 \in seen /\ 1 \notin seen => m = 2
      /\ 1 \notin seen /\ 2 \notin seen /\ seen # {} => m = 3
  <2>1. 1 \in seen => m <= 1
    BY <1>7
  <2>2. 2 \in seen => m <= 2
    BY <1>7
  <2> QED
    BY <1>7, <1>8, <2>1, <2>2
<1>6. Row(grant, cap).state \in States
  BY <1>3, <1>4, <1>8 DEF States, m
<1> QED
  BY <1>3, <1>4, <1>5, <1>6 DEF seen, m

LEMMA ClausesAre ==
  ASSUME NEW grant, NEW cap
  PROVE  /\ ClausesOf(grant, cap) \in SUBSET {1, 2, 3}
         /\ 1 \in ClausesOf(grant, cap) <=> \E e \in grant["allow"] : Claims(cap, e)
         /\ 2 \in ClausesOf(grant, cap) <=> \E e \in grant["require_approval"] : Claims(cap, e)
         /\ 3 \in ClausesOf(grant, cap) <=> \E e \in grant["deny"] : Claims(cap, e)
BY DEF ClausesOf, Clauses

\* Nothing is hidden and nothing is mislabelled, in any grant of finite lists of globs: no row of
\* the permissions page shows less than the engine gives, but for the rules it shows as written
\* (console/lib/capabilities.ts readCapabilities()).
THEOREM EveryLabelIsHonest ==
  ASSUME NEW grant, IsGrant(grant)
  PROVE  LabelIsHonest(grant)
<1> SUFFICES ASSUME NEW c \in Commands, CapabilityFor(c) # "none"
             PROVE  RankOf[Verdict(grant, c)] <= RankOf[Row(grant, CapabilityFor(c)).state] \/ LeftOver(grant, c)
  BY DEF LabelIsHonest
<1> DEFINE cap == CapabilityFor(c)
           row == Row(grant, cap)
<1>1. cap \in Caps
  BY DEF CapabilityFor
<1>2. ASSUME NEW clause \in {"allow", "require_approval"}, NEW e \in grant[clause], Covers(clause, e, c), ~LeftOver(grant, c)
      PROVE  Claims(cap, e)
  <2>1. ~\E r \in Leftovers(grant, clause) : Covers(clause, r, c)
    BY <1>2 DEF LeftOver, LeftIn
  <2>2. clause \in Slots
    BY DEF Slots
  <2> QED
    BY <1>1, <1>2, <2>1, <2>2, OwnedIsShown
<1>3. /\ RankOf["allow"] = 2 /\ RankOf["ask"] = 1 /\ RankOf["require_approval"] = 1
      /\ RankOf["block"] = 0 /\ RankOf["deny"] = 0
  BY DEF RankOf
<1>4. row.state \in States
  BY RowIs
<1> HIDE DEF row, cap
<1>5. CASE Verdict(grant, c) = "deny"
  BY <1>3, <1>4, <1>5 DEF States, row, cap
<1>6. CASE Verdict(grant, c) = "require_approval" /\ ~LeftOver(grant, c)
  <2>1. \E e \in grant["require_approval"] : Covers("require_approval", e, c)
    BY <1>6, VerdictIs DEF Hit
  <2>2. 2 \in ClausesOf(grant, cap)
    BY <1>2, <1>6, <2>1, ClausesAre
  <2>3. row.state \in {"allow", "ask"}
    BY <2>2, RowIs DEF row
  <2> QED
    BY <1>3, <1>6, <2>3 DEF row, cap
<1>7. CASE Verdict(grant, c) = "allow" /\ ~LeftOver(grant, c)
  <2>1. \E e \in grant["allow"] : Covers("allow", e, c)
    BY <1>7, VerdictIs DEF Hit
  <2>2. 1 \in ClausesOf(grant, cap)
    BY <1>2, <1>7, <2>1, ClausesAre
  <2>3. row.state = "allow"
    BY <2>2, RowIs DEF row
  <2> QED
    BY <1>3, <1>7, <2>3 DEF row, cap
<1>8. Verdict(grant, c) \in {"deny", "require_approval", "allow"}
  BY VerdictIs
<1> QED
  BY <1>5, <1>6, <1>7, <1>8

-------------------------------------------------------------------------------
(* Moving a capability. *)

\* An entry that a capability has all of.
Own(cap, x) == IsEntry(x) /\ Claims(cap, x) /\ ClaimOf(cap, x) = x.globs

LEMMA OwnIs ==
  ASSUME NEW cap \in Caps, NEW x, Own(cap, x)
  PROVE  /\ \A clause : \A c \in Commands : Covers(clause, x, c) => CapabilityFor(c) = cap \/ Strays(cap, clause, x, c)
         /\ \A other \in Caps : Claims(other, x) => other = cap
<1>1. IsEntry(x) /\ ClaimOf(cap, x) = x.globs /\ x.globs # {}
  BY DEF Own, Claims
<1>2. CASE x.on \in Catalogue[cap].whole
  <2>1. ASSUME NEW other \in Caps, Claims(other, x), other # cap PROVE FALSE
    <3>1. x.on \notin Catalogue[other].whole
      BY <1>2, <2>1, CapsApart
    <3>2. PICK p \in Catalogue[other].prefixes : p[1] = x.on
      BY <1>1, <2>1, <3>1, ClaimIs DEF Claims
    <3> QED
      BY <1>2, <3>2, SlicesApart
  <2> QED
    BY <1>1, <1>2, <2>1, ClaimedIsOwned, CoversIs
<1>3. CASE x.on \notin Catalogue[cap].whole
  <2>1. x.globs # Anything
    BY <1>1, <1>3, ClaimIs
  <2>2. \A g \in x.globs : g.words \in Seq(Words) /\ \E p \in Catalogue[cap].prefixes : p[1] = x.on /\ IsPrefix(p, g.words)
    BY <1>1, <1>3, <2>1, ClaimIs, GlobIs
  <2>3. ASSUME NEW clause, NEW c \in Commands, Covers(clause, x, c)
        PROVE  CapabilityFor(c) = cap \/ Strays(cap, clause, x, c)
    <3>1. (x.on = c[1] \/ x.on = Every) /\ \E g \in x.globs : Fits(clause, g, c)
      BY <2>1, <2>3, CoversIs
    <3> QED
      BY <1>1, <1>3, <3>1, ClaimedIsOwned
  <2>4. ASSUME NEW other \in Caps, Claims(other, x) PROVE other = cap
    <3>1. x.on \notin Catalogue[other].whole
      BY <1>1, <2>2, SlicesApart
    <3>2. PICK g \in x.globs : \E q \in Catalogue[other].prefixes : IsPrefix(q, g.words)
      BY <1>1, <2>1, <2>4, <3>1, ClaimIs DEF Claims
    <3> QED
      BY <2>2, <3>2, OneSlice
  <2> QED
    BY <2>3, <2>4
<1> QED
  BY <1>2, <1>3

\* What is left of an entry of which some globs were claimed.
Cut(cap, e) == [e EXCEPT !.globs = @ \ ClaimOf(cap, e)]

LEMMA CutIs ==
  ASSUME NEW cap \in Caps, NEW e, IsEntry(e), Claims(cap, e), e.on \notin Catalogue[cap].whole
  PROVE  /\ e.globs # Anything /\ IsEntry(Cut(cap, e))
         /\ Cut(cap, e).on = e.on /\ Cut(cap, e).globs = e.globs \ ClaimOf(cap, e) /\ Cut(cap, e).globs # Anything
         /\ ~Claims(cap, Cut(cap, e))
<1> DEFINE r == Cut(cap, e)
<1>1. e.globs # Anything /\ e.globs \in SUBSET Globs
  BY ClaimIs DEF Claims, IsEntry
<1>2. r = [on |-> e.on, globs |-> e.globs \ ClaimOf(cap, e), ask |-> e.ask]
  BY DEF Cut, IsEntry
<1>3. r.on = e.on /\ r.globs = e.globs \ ClaimOf(cap, e) /\ r.globs \in SUBSET Globs
  BY <1>1, <1>2
<1>4. IsEntry(r)
  BY <1>2, <1>3 DEF IsEntry
<1>5. r.globs # Anything
  BY <1>3, AnythingIs
<1>6. ClaimOf(cap, r) = {}
  <2>1. ClaimOf(cap, r) = {g \in r.globs : \E p \in Catalogue[cap].prefixes : p[1] = e.on /\ IsPrefix(p, g.words)}
    BY <1>3, <1>4, <1>5, ClaimIs
  <2>2. ClaimOf(cap, e) = {g \in e.globs : \E p \in Catalogue[cap].prefixes : p[1] = e.on /\ IsPrefix(p, g.words)}
    BY <1>1, ClaimIs
  <2> QED
    BY <1>3, <2>1, <2>2
<1> QED
  BY <1>1, <1>3, <1>4, <1>5, <1>6 DEF Claims

\* What moves of an entry.
Taken(cap, e) == IF e.on \in Catalogue[cap].whole THEN e ELSE Entry(e.on, ClaimOf(cap, e))

LEMMA TakenIs ==
  ASSUME NEW cap \in Caps, NEW e, IsEntry(e), Claims(cap, e)
  PROVE  /\ Own(cap, Taken(cap, e)) /\ Taken(cap, e).on = e.on /\ Taken(cap, e).globs = ClaimOf(cap, e)
         /\ \A clause : \A c \in Commands : Covers(clause, Taken(cap, e), c) => Covers(clause, e, c)
<1> DEFINE x == Taken(cap, e)
<1>1. CASE e.on \in Catalogue[cap].whole
  BY <1>1, ClaimIs DEF Taken, Own
<1>2. CASE e.on \notin Catalogue[cap].whole
  <2>1. /\ e.globs # Anything /\ e.globs \in SUBSET Globs
        /\ ClaimOf(cap, e) = {g \in e.globs : \E p \in Catalogue[cap].prefixes : p[1] = e.on /\ IsPrefix(p, g.words)}
    BY <1>2, ClaimIs DEF Claims, IsEntry
  <2>2. IsEntry(x) /\ x.on = e.on /\ x.globs = ClaimOf(cap, e) /\ x.globs # Anything
    BY <1>2, <2>1, EntryIs, AnythingIs DEF Taken
  <2> HIDE DEF x
  <2>3. ClaimOf(cap, x) = {g \in x.globs : \E p \in Catalogue[cap].prefixes : p[1] = e.on /\ IsPrefix(p, g.words)}
    BY <1>2, <2>2, ClaimIs
  <2>4. ClaimOf(cap, x) = x.globs
    BY <2>1, <2>2, <2>3
  <2>5. ASSUME NEW clause, NEW c \in Commands, Covers(clause, x, c) PROVE Covers(clause, e, c)
    <3>1. (e.on = Every \/ e.on = c[1]) /\ \E g \in x.globs : Fits(clause, g, c)
      BY <2>2, <2>5, CoversIs
    <3> QED
      BY <2>1, <2>2, <3>1, CoversIs
  <2>6. Own(cap, x)
    BY <2>2, <2>4 DEF Own, Claims
  <2> QED
    BY <2>2, <2>5, <2>6 DEF x
<1> QED
  BY <1>1, <1>2

LEMMA ImageIsFinite ==
  ASSUME NEW S, IsFiniteSet(S), NEW f, DOMAIN f = S
  PROVE  IsFiniteSet({f[x] : x \in S})
<1> DEFINE T == {f[x] : x \in S}
           g == [x \in S |-> f[x]]
<1>1. g \in Surjection(S, T)
  BY DEF Surjection
<1> QED
  BY <1>1, FS_Surjection

\* What stays of a list has no claim of the capability, and the claims of every other one.
LEMMA RemainingIs ==
  ASSUME NEW cap \in Caps, NEW clause, NEW entries, List(entries)
  PROVE  /\ List(Remaining(cap, entries))
         /\ \A r \in Remaining(cap, entries) :
              ~Claims(cap, r) /\ \E e \in entries : \A c \in Commands : Covers(clause, r, c) => Covers(clause, e, c)
         /\ \A e \in entries : ~Claims(cap, e) => e \in Remaining(cap, entries)
         /\ \A e \in entries, c \in Commands :
              Covers(clause, e, c) /\ CapabilityFor(c) # cap =>
                Strays(cap, clause, e, c) \/ \E r \in Remaining(cap, entries) : Covers(clause, r, c)
<1> DEFINE whole == Catalogue[cap].whole
           unclaimed == {e \in entries : ~Claims(cap, e)}
           cutting == {e \in {f \in entries : Claims(cap, f) /\ f.on \notin whole /\ f.globs # ClaimOf(cap, f)} : TRUE}
           cuts == {Cut(cap, e) : e \in cutting}
<1>1. Remaining(cap, entries) = unclaimed \cup cuts
  BY DEF Remaining, Cut
<1>2. \A e \in entries : IsEntry(e)
  BY DEF List
<1>3. \A e \in cutting : /\ e.globs # Anything /\ IsEntry(Cut(cap, e)) /\ ~Claims(cap, Cut(cap, e))
                         /\ Cut(cap, e).on = e.on /\ Cut(cap, e).globs = e.globs \ ClaimOf(cap, e)
                         /\ Cut(cap, e).globs # Anything
  BY <1>2, CutIs
<1>4. IsFiniteSet(unclaimed \cup cuts)
  <2>1. unclaimed \in SUBSET entries /\ cutting \in SUBSET entries /\ IsFiniteSet(entries)
    BY DEF List
  <2>2. IsFiniteSet(unclaimed) /\ IsFiniteSet(cutting)
    BY <2>1, FS_Subset
  <2> DEFINE f == [e \in cutting |-> Cut(cap, e)]
  <2>3. DOMAIN f = cutting /\ cuts = {f[e] : e \in cutting}
    OBVIOUS
  <2> HIDE DEF f, cutting, unclaimed, cuts
  <2>4. IsFiniteSet(cuts)
    BY <2>2, <2>3, ImageIsFinite
  <2> QED
    BY <2>2, <2>4, FS_Union
<1>5. \A r \in unclaimed \cup cuts : IsEntry(r) /\ ~Claims(cap, r)
  BY <1>2, <1>3
<1>6. ASSUME NEW e \in cutting, NEW c \in Commands, Covers(clause, Cut(cap, e), c) PROVE Covers(clause, e, c)
  BY <1>3, <1>6, CoversIs
<1>7. ASSUME NEW e \in entries, NEW c \in Commands, Covers(clause, e, c), CapabilityFor(c) # cap, ~Strays(cap, clause, e, c)
      PROVE  \E r \in unclaimed \cup cuts : Covers(clause, r, c)
  <2>0. IsEntry(e) /\ (e.on = c[1] \/ e.on = Every)
    BY <1>2, <1>7, CoversIs
  <2>1. CASE ~Claims(cap, e)
    BY <1>7, <2>1
  <2>2. CASE Claims(cap, e)
    <3>1. e.on \notin whole
      BY <1>7, <2>0, ClaimedIsOwned
    <3>2. e.globs # Anything
      BY <1>2, <2>2, <3>1, CutIs
    <3>3. PICK g \in e.globs : Fits(clause, g, c)
      BY <1>7, <3>2, CoversIs
    <3>4. g \notin ClaimOf(cap, e)
      BY <1>7, <2>0, <3>1, <3>3, ClaimedIsOwned
    <3>5. e \in cutting
      BY <2>2, <3>1, <3>3, <3>4
    <3>6. Covers(clause, Cut(cap, e), c)
      BY <1>3, <2>0, <3>3, <3>4, <3>5, CoversIs
    <3> QED
      BY <3>5, <3>6
  <2> QED
    BY <2>1, <2>2
<1>8. \A r \in unclaimed \cup cuts : \E e \in entries : \A c \in Commands : Covers(clause, r, c) => Covers(clause, e, c)
  <2> SUFFICES ASSUME NEW r \in unclaimed \cup cuts
               PROVE  \E e \in entries : \A c \in Commands : Covers(clause, r, c) => Covers(clause, e, c)
    OBVIOUS
  <2>1. CASE r \in unclaimed
    BY <2>1
  <2>2. CASE r \in cuts
    <3>1. PICK e \in cutting : r = Cut(cap, e)
      BY <2>2
    <3>2. \A c \in Commands : Covers(clause, r, c) => Covers(clause, e, c)
      BY <1>6, <3>1
    <3> QED
      BY <3>1, <3>2
  <2> QED
    BY <2>1, <2>2
<1> HIDE DEF cutting, cuts
<1> QED
  BY <1>1, <1>4, <1>5, <1>7, <1>8 DEF List

\* ... and those of every other capability are the same as they were.
LEMMA OthersRemain ==
  ASSUME NEW cap \in Caps, NEW other \in Caps, other # cap, NEW entries, List(entries)
  PROVE  (\E r \in Remaining(cap, entries) : Claims(other, r)) <=> \E e \in entries : Claims(other, e)
<1>1. \A e \in entries : IsEntry(e)
  BY DEF List
<1>2. ASSUME NEW e \in entries, Claims(cap, e), e.on \notin Catalogue[cap].whole
      PROVE  /\ ClaimOf(other, Cut(cap, e)) = ClaimOf(other, e)
             /\ Claims(other, e) => e.globs # ClaimOf(cap, e)
  <2>1. /\ IsEntry(e) /\ e.globs # Anything /\ IsEntry(Cut(cap, e)) /\ Cut(cap, e).on = e.on
        /\ Cut(cap, e).globs = e.globs \ ClaimOf(cap, e) /\ Cut(cap, e).globs # Anything
    BY <1>1, <1>2, CutIs
  <2>2. ClaimOf(cap, e) = {g \in e.globs : \E p \in Catalogue[cap].prefixes : p[1] = e.on /\ IsPrefix(p, g.words)}
    BY <1>2, <2>1, ClaimIs
  <2>3. e.on \notin Catalogue[other].whole
    BY <1>2, <2>2, SlicesApart DEF Claims
  <2>4. /\ ClaimOf(other, e) = {g \in e.globs : \E p \in Catalogue[other].prefixes : p[1] = e.on /\ IsPrefix(p, g.words)}
        /\ ClaimOf(other, Cut(cap, e)) =
             {g \in e.globs \ ClaimOf(cap, e) : \E p \in Catalogue[other].prefixes : p[1] = e.on /\ IsPrefix(p, g.words)}
    BY <2>1, <2>3, ClaimIs
  <2>5. \A g \in ClaimOf(cap, e) : g \notin ClaimOf(other, e)
    <3> SUFFICES ASSUME NEW g \in ClaimOf(cap, e), g \in ClaimOf(other, e) PROVE FALSE
      OBVIOUS
    <3>1. g.words \in Seq(Words)
      BY <2>1, <2>2, GlobIs
    <3> QED
      BY <2>2, <2>4, <3>1, OneSlice
  <2> QED
    BY <2>4, <2>5 DEF Claims
<1>3. ASSUME NEW e \in entries, Claims(cap, e), e.on \in Catalogue[cap].whole PROVE ~Claims(other, e)
  <2>1. Own(cap, e)
    BY <1>1, <1>3, ClaimIs DEF Own
  <2> QED
    BY <2>1, OwnIs
<1>4. ASSUME NEW r \in Remaining(cap, entries), Claims(other, r) PROVE \E e \in entries : Claims(other, e)
  <2>1. r \in entries \/ \E e \in entries : Claims(cap, e) /\ e.on \notin Catalogue[cap].whole /\ r = Cut(cap, e)
    BY <1>4 DEF Remaining, Cut
  <2> QED
    BY <1>2, <1>4, <2>1 DEF Claims
<1>5. ASSUME NEW e \in entries, Claims(other, e) PROVE \E r \in Remaining(cap, entries) : Claims(other, r)
  <2>1. CASE ~Claims(cap, e)
    BY <1>5, <2>1, RemainingIs
  <2>2. CASE Claims(cap, e)
    <3>1. e.on \notin Catalogue[cap].whole
      BY <1>3, <1>5, <2>2
    <3>2. e.globs # ClaimOf(cap, e) /\ Claims(other, Cut(cap, e))
      BY <1>2, <1>5, <2>2, <3>1 DEF Claims
    <3>3. Cut(cap, e) \in Remaining(cap, entries)
      BY <2>2, <3>1, <3>2 DEF Remaining, Cut
    <3> QED
      BY <3>2, <3>3
  <2> QED
    BY <2>1, <2>2
<1> QED
  BY <1>4, <1>5

LEMMA MovedIs ==
  ASSUME NEW cap \in Caps, NEW entries, List(entries)
  PROVE  /\ Moved(cap, entries) = {Taken(cap, e) : e \in {f \in entries : Claims(cap, f)}}
         /\ IsFiniteSet(Moved(cap, entries)) /\ \A x \in Moved(cap, entries) : Own(cap, x)
<1> DEFINE mine == {f \in entries : Claims(cap, f)}
           t == [e \in mine |-> Taken(cap, e)]
<1>1. Moved(cap, entries) = {Taken(cap, e) : e \in mine}
  BY DEF Moved, Taken
<1>2. IsFiniteSet(mine)
  BY FS_Subset DEF List
<1>3. DOMAIN t = mine /\ Moved(cap, entries) = {t[e] : e \in mine}
  BY <1>1
<1>4. \A e \in mine : Own(cap, Taken(cap, e))
  BY TakenIs DEF List
<1> HIDE DEF t
<1>5. IsFiniteSet(Moved(cap, entries))
  BY <1>2, <1>3, ImageIsFinite
<1> QED
  BY <1>1, <1>4, <1>5

\* What a capability is made of when nothing says how.
LEMMA SynthesizeIs ==
  ASSUME NEW cap \in Caps
  PROVE  Synthesize(cap) # {} /\ IsFiniteSet(Synthesize(cap)) /\ \A x \in Synthesize(cap) : Own(cap, x)
<1> DEFINE whole == Catalogue[cap].whole
           prefixes == Catalogue[cap].prefixes
           plain(b) == Entry(b, {Glob(<<b>>, "exact"), Glob(<<b>>, "more")})
           slices(b) == Entry(b, {Glob(p, "any") : p \in {q \in prefixes : q[1] = b}})
           heads == {p[1] : p \in prefixes}
           pf == [b \in whole |-> plain(b)]
           sf == [b \in heads |-> slices(b)]
           hf == [p \in prefixes |-> p[1]]
<1>1. Synthesize(cap) = {plain(b) : b \in whole} \cup {slices(b) : b \in heads}
  BY DEF Synthesize
<1>2. Synthesize(cap) # {}
  <2>1. CASE \E b \in whole : TRUE
    <3>1. PICK b \in whole : TRUE
      BY <2>1
    <3> HIDE DEF plain, slices
    <3> QED
      BY <1>1, <3>1
  <2>2. CASE \E p \in prefixes : TRUE
    <3>1. PICK p \in prefixes : TRUE
      BY <2>2
    <3> HIDE DEF plain, slices
    <3> QED
      BY <1>1, <3>1
  <2> QED
    BY <2>1, <2>2, CatalogueIs
<1>3. IsFiniteSet(Synthesize(cap))
  <2>1. DOMAIN pf = whole /\ {plain(b) : b \in whole} = {pf[b] : b \in whole}
    OBVIOUS
  <2>2. DOMAIN hf = prefixes /\ heads = {hf[p] : p \in prefixes}
    OBVIOUS
  <2>3. DOMAIN sf = heads /\ {slices(b) : b \in heads} = {sf[b] : b \in heads}
    OBVIOUS
  <2>4. IsFiniteSet(whole) /\ IsFiniteSet(prefixes)
    BY CatalogueIs
  <2> HIDE DEF pf, hf, sf, plain, slices, heads, whole, prefixes
  <2>5. IsFiniteSet({plain(b) : b \in whole})
    BY <2>1, <2>4, ImageIsFinite
  <2>6. IsFiniteSet(heads)
    BY <2>2, <2>4, ImageIsFinite
  <2>7. IsFiniteSet({slices(b) : b \in heads})
    BY <2>3, <2>6, ImageIsFinite
  <2> QED
    BY <1>1, <2>5, <2>7, FS_Union
<1>4. ASSUME NEW b \in whole PROVE Own(cap, plain(b))
  <2> DEFINE globs == {Glob(<<b>>, "exact"), Glob(<<b>>, "more")}
  <2>1. b \in Words
    BY <1>4, CommandsAssumption
  <2>2. globs \in SUBSET Globs /\ globs # {}
    BY <2>1 DEF Globs, Glob
  <2>3. IsEntry(plain(b)) /\ plain(b).on = b /\ plain(b).globs = globs
    BY <2>2, EntryIs
  <2> HIDE DEF globs, plain
  <2> QED
    BY <1>4, <2>2, <2>3, ClaimIs DEF Own, Claims
<1>5. ASSUME NEW b \in heads PROVE Own(cap, slices(b))
  <2> DEFINE globs == {Glob(p, "any") : p \in {q \in prefixes : q[1] = b}}
  <2>8. \A p \in prefixes : p \in Seq(Words)
    BY CatalogueIs
  <2>9. \A w \in Seq(Words) : Glob(w, "any") \in Globs
    BY DEF Globs, Glob
  <2>1. globs \in SUBSET Globs /\ globs # {}
    BY <1>5, <2>8, <2>9
  <2>2. IsEntry(slices(b)) /\ slices(b).on = b /\ slices(b).globs = globs
    BY <2>1, EntryIs
  <2>3. b \notin whole
    BY <1>5, SlicesApart
  <2>4. \A g \in globs : \E p \in prefixes : p[1] = b /\ IsPrefix(p, g.words)
    BY CatalogueIs, PrefixIs DEF Glob
  <2>5. globs # Anything
    BY <2>1, AnythingIs
  <2> HIDE DEF globs, slices
  <2>6. ClaimOf(cap, slices(b)) = {g \in globs : \E p \in prefixes : p[1] = b /\ IsPrefix(p, g.words)}
    BY <2>2, <2>3, <2>5, ClaimIs
  <2>7. ClaimOf(cap, slices(b)) = globs
    BY <2>4, <2>6
  <2> QED
    BY <2>1, <2>2, <2>7 DEF Own, Claims
<1> QED
  BY <1>1, <1>2, <1>3, <1>4, <1>5

\* What a change takes from all the lists, and what it adds to each.
AllMoved(grant, cap) == UNION {Moved(cap, grant[Clauses[i]]) : i \in 1..3}

Added(grant, cap, state, clause) ==
  LET moved == AllMoved(grant, cap)
  IN IF state = "block" THEN IF clause = "deny" THEN {Bare(b) : b \in Catalogue[cap].whole} ELSE {}
     ELSE IF clause = (IF state = "allow" THEN "allow" ELSE "require_approval")
          THEN IF moved # {} THEN moved ELSE Synthesize(cap)
          ELSE {}

LEMMA MovedAreOwn ==
  ASSUME NEW grant, IsGrant(grant), NEW cap \in Caps
  PROVE  /\ IsFiniteSet(AllMoved(grant, cap)) /\ \A x \in AllMoved(grant, cap) : Own(cap, x)
         /\ \A x \in AllMoved(grant, cap) :
              \E clause \in Slots : \E e \in grant[clause] : Claims(cap, e) /\ x = Taken(cap, e)
         /\ \A clause \in Slots : \A e \in grant[clause] : Claims(cap, e) => Taken(cap, e) \in AllMoved(grant, cap)
<1> DEFINE a == Moved(cap, grant["allow"])
           r == Moved(cap, grant["require_approval"])
           d == Moved(cap, grant["deny"])
           moved == AllMoved(grant, cap)
<1>1. moved = a \cup r \cup d
  BY DEF AllMoved, Clauses
<1>2. List(grant["allow"]) /\ List(grant["require_approval"]) /\ List(grant["deny"])
  BY DEF IsGrant, Slots
<1>3. /\ a = {Taken(cap, e) : e \in {f \in grant["allow"] : Claims(cap, f)}}
      /\ r = {Taken(cap, e) : e \in {f \in grant["require_approval"] : Claims(cap, f)}}
      /\ d = {Taken(cap, e) : e \in {f \in grant["deny"] : Claims(cap, f)}}
      /\ IsFiniteSet(a) /\ IsFiniteSet(r) /\ IsFiniteSet(d)
      /\ \A x \in a \cup r \cup d : Own(cap, x)
  BY <1>2, MovedIs
<1> HIDE DEF a, r, d, moved
<1>4. IsFiniteSet(a \cup r \cup d)
  BY <1>3, FS_Union
<1>5. \A x \in moved : \E clause \in Slots : \E e \in grant[clause] : Claims(cap, e) /\ x = Taken(cap, e)
  BY <1>1, <1>3 DEF Slots
<1>6. \A clause \in Slots : \A e \in grant[clause] : Claims(cap, e) => Taken(cap, e) \in moved
  BY <1>1, <1>3 DEF Slots
<1> QED
  BY <1>1, <1>3, <1>4, <1>5, <1>6 DEF a, r, d, moved

LEMMA AddedIs ==
  ASSUME NEW grant, IsGrant(grant), NEW cap \in Caps, NEW state \in States, NEW clause \in Slots
  PROVE  IsFiniteSet(Added(grant, cap, state, clause)) /\ \A x \in Added(grant, cap, state, clause) : Own(cap, x)
<1> DEFINE moved == AllMoved(grant, cap)
           bare == {Bare(b) : b \in Catalogue[cap].whole}
<1>1. Added(grant, cap, state, clause) \in {{}, bare, moved, Synthesize(cap)}
  BY DEF Added
<1>2. IsFiniteSet(moved) /\ \A x \in moved : Own(cap, x)
  BY MovedAreOwn
<1>3. IsFiniteSet(bare) /\ \A x \in bare : Own(cap, x)
  <2> DEFINE f == [b \in Catalogue[cap].whole |-> Bare(b)]
  <2>1. DOMAIN f = Catalogue[cap].whole /\ bare = {f[b] : b \in Catalogue[cap].whole}
    OBVIOUS
  <2> HIDE DEF f, bare
  <2>2. IsFiniteSet(bare)
    BY <2>1, CatalogueIs, ImageIsFinite
  <2>3. ASSUME NEW b \in Catalogue[cap].whole PROVE Own(cap, Bare(b))
    <3>1. IsEntry(Bare(b)) /\ Bare(b).on = b /\ Bare(b).globs = Anything
      BY EntryIs DEF Bare
    <3> QED
      BY <3>1, ClaimIs, AnythingIs DEF Own, Claims
  <2> QED
    BY <2>2, <2>3 DEF bare
<1>4. IsFiniteSet({})
  BY FS_EmptySet
<1> HIDE DEF moved, bare
<1> QED
  BY <1>1, <1>2, <1>3, <1>4, SynthesizeIs

\* A change of a grant: what remains of each list, and what is added to it.
LEMMA ChangeIs ==
  ASSUME NEW grant, IsGrant(grant), NEW cap \in Caps, NEW state \in States
  PROVE  LET after == ApplyCapability(grant, cap, state)
         IN /\ \A clause \in Slots : after[clause] = Remaining(cap, grant[clause]) \cup Added(grant, cap, state, clause)
            /\ IsGrant(after)
<1> DEFINE moved == AllMoved(grant, cap)
           new == IF moved # {} THEN moved ELSE Synthesize(cap)
           bare == {Bare(b) : b \in Catalogue[cap].whole}
           target == IF state = "allow" THEN "allow" ELSE "require_approval"
           kept == [clause \in Slots |-> Remaining(cap, grant[clause])]
           after == ApplyCapability(grant, cap, state)
<1>1. DOMAIN grant = Slots
  BY DEF IsGrant
<1>2. after = (IF state = "block" THEN [kept EXCEPT !["deny"] = @ \cup bare] ELSE [kept EXCEPT ![target] = @ \cup new])
  BY <1>1 DEF ApplyCapability, AllMoved
<1>3. \A clause \in Slots :
        Added(grant, cap, state, clause) =
          IF state = "block" THEN IF clause = "deny" THEN bare ELSE {} ELSE IF clause = target THEN new ELSE {}
  BY DEF Added
<1>4. "deny" \in Slots /\ target \in Slots
  BY DEF Slots
<1> HIDE DEF bare, new, target
<1>5. after = [clause \in Slots |-> after[clause]]
  BY <1>2
<1>6. \A clause \in Slots : after[clause] = Remaining(cap, grant[clause]) \cup Added(grant, cap, state, clause)
  BY <1>2, <1>3, <1>4
<1> HIDE DEF after
<1>7. ASSUME NEW clause \in Slots PROVE List(after[clause])
  <2>1. List(grant[clause])
    BY DEF IsGrant
  <2>2. List(Remaining(cap, grant[clause]))
    BY <2>1, RemainingIs
  <2>3. IsFiniteSet(Added(grant, cap, state, clause)) /\ \A x \in Added(grant, cap, state, clause) : IsEntry(x)
    BY AddedIs DEF Own
  <2>4. IsFiniteSet(after[clause])
    BY <1>6, <2>2, <2>3, FS_Union DEF List
  <2> QED
    BY <1>6, <2>2, <2>3, <2>4 DEF List
<1>8. IsGrant(after)
  BY <1>5, <1>7 DEF IsGrant
<1> QED
  BY <1>6, <1>8 DEF after

\* A grant in which targets of a capability match a command in another case has an entry of it.
LEMMA RespeltIs ==
  ASSUME NEW grant, IsGrant(grant), NEW cap \in Caps, NEW c \in Commands
  PROVE  /\ Respelt(grant, cap, c) <=> \E clause \in Slots : \E e \in grant[clause] : RespeltBy(cap, e, c)
         /\ Respelt(grant, cap, c) => CapabilityFor(c) = cap \/ CapabilityFor(c) \notin Caps
<1>1. DOMAIN grant = Slots /\ \A clause \in Slots : \A e \in grant[clause] : IsEntry(e)
  BY DEF IsGrant, List
<1>2. Respelt(grant, cap, c) <=> \E clause \in Slots : \E e \in grant[clause] : RespeltBy(cap, e, c)
  BY <1>1 DEF Respelt, RespeltBy, Shifted, Fits
<1>3. ASSUME NEW clause \in Slots, NEW e \in grant[clause], RespeltBy(cap, e, c)
      PROVE  CapabilityFor(c) = cap \/ CapabilityFor(c) \notin Caps
  <2>1. IsEntry(e) /\ e.on = c[1] /\ \E g \in ClaimOf(cap, e) : Fits("require_approval", g, c)
    BY <1>1, <1>3 DEF RespeltBy, Shifted
  <2> QED
    BY <2>1, ClaimedIsOwned DEF Strays
<1> QED
  BY <1>2, <1>3

\* Commands of other capabilities, and of none, are decided as before, but for such a spelling.
LEMMA OthersAreDecided ==
  ASSUME NEW grant, IsGrant(grant), NEW cap \in Caps, NEW state \in States,
         NEW c \in Commands, CapabilityFor(c) # cap
  PROVE  LET after == ApplyCapability(grant, cap, state)
         IN  \/ Verdict(after, c) = Verdict(grant, c)
             \/ /\ Respelt(grant, cap, c) \/ Respelt(after, cap, c)
                /\ Verdict(after, c) = "allow" => LeftIn("allow", grant, c)
<1> DEFINE after == ApplyCapability(grant, cap, state)
<1>1. ASSUME NEW clause \in Slots
      PROVE  /\ List(grant[clause])
             /\ after[clause] = Remaining(cap, grant[clause]) \cup Added(grant, cap, state, clause)
             /\ \A x \in Added(grant, cap, state, clause) : Covers(clause, x, c) => Strays(cap, clause, x, c)
  <2>1. List(grant[clause])
    BY DEF IsGrant
  <2>2. after[clause] = Remaining(cap, grant[clause]) \cup Added(grant, cap, state, clause)
    BY ChangeIs
  <2>3. \A x \in Added(grant, cap, state, clause) : Covers(clause, x, c) => Strays(cap, clause, x, c)
    BY AddedIs, OwnIs
  <2> QED
    BY <2>1, <2>2, <2>3
<1>2. IsGrant(after)
  BY ChangeIs
<1> HIDE DEF after
<1>3. ASSUME ~Respelt(grant, cap, c), ~Respelt(after, cap, c) PROVE Verdict(after, c) = Verdict(grant, c)
  <2>1. ASSUME NEW clause \in Slots PROVE Hit(after, clause, c) <=> Hit(grant, clause, c)
    <3>1. \A e \in grant[clause] : ~Strays(cap, clause, e, c)
      BY <1>3, RespeltIs DEF Strays
    <3>2. \A x \in after[clause] : ~Strays(cap, clause, x, c)
      BY <1>2, <1>3, RespeltIs DEF Strays
    <3>3. (\E r \in Remaining(cap, grant[clause]) : Covers(clause, r, c)) <=> \E e \in grant[clause] : Covers(clause, e, c)
      BY <1>1, <3>1, RemainingIs
    <3> QED
      BY <1>1, <3>2, <3>3 DEF Hit
  <2> QED
    BY <1>2, <2>1, VerdictIs DEF Slots
<1>4. ASSUME Respelt(grant, cap, c) \/ Respelt(after, cap, c), Verdict(after, c) = "allow" PROVE LeftIn("allow", grant, c)
  <2>1. CapabilityFor(c) \notin Caps
    BY <1>2, <1>4, RespeltIs
  <2>2. Hit(after, "allow", c) /\ "allow" \in Slots
    BY <1>2, <1>4, VerdictIs DEF Slots
  <2>3. PICK x \in after["allow"] : Covers("allow", x, c)
    BY <2>2 DEF Hit
  <2>4. x \in Remaining(cap, grant["allow"])
    BY <1>1, <2>2, <2>3 DEF Strays
  <2>5. PICK e \in grant["allow"] : Covers("allow", e, c)
    BY <1>1, <2>2, <2>3, <2>4, RemainingIs
  <2> QED
    BY <2>1, <2>2, <2>5, CoveredIsShown DEF Strays, LeftIn
<1> QED
  BY <1>3, <1>4 DEF after

\* A row shows the state it was moved to, no longer mixed; the other rows are as they were.
LEMMA RowsAfter ==
  ASSUME NEW grant, IsGrant(grant), NEW cap \in Caps, NEW state \in States
  PROVE  LET after == ApplyCapability(grant, cap, state)
         IN /\ Row(after, cap).state = state /\ ~Row(after, cap).mixed
            /\ \A other \in Caps : other # cap => ClausesOf(after, other) = ClausesOf(grant, other)
<1> DEFINE after == ApplyCapability(grant, cap, state)
           target == IF state = "allow" THEN "allow" ELSE "require_approval"
           add(clause) == Added(grant, cap, state, clause)
<1>1. \A clause \in Slots : after[clause] = Remaining(cap, grant[clause]) \cup add(clause)
  BY ChangeIs
<1>2. \A clause \in Slots : List(grant[clause])
  BY DEF IsGrant
<1>3. \A clause \in Slots : (\E e \in after[clause] : Claims(cap, e)) <=> add(clause) # {}
  <2>1. \A clause \in Slots : \A r \in Remaining(cap, grant[clause]) : ~Claims(cap, r)
    BY <1>2, RemainingIs
  <2>2. \A clause \in Slots : \A x \in add(clause) : Claims(cap, x)
    BY AddedIs DEF Own
  <2> QED
    BY <1>1, <2>1, <2>2
<1>4. \A clause \in Slots, other \in Caps : other # cap =>
        ((\E e \in after[clause] : Claims(other, e)) <=> \E e \in grant[clause] : Claims(other, e))
  <2>1. \A clause \in Slots, other \in Caps : other # cap => \A x \in add(clause) : ~Claims(other, x)
    BY AddedIs, OwnIs
  <2>2. \A clause \in Slots, other \in Caps : other # cap =>
          ((\E r \in Remaining(cap, grant[clause]) : Claims(other, r)) <=> \E e \in grant[clause] : Claims(other, e))
    BY <1>2, OthersRemain
  <2> QED
    BY <1>1, <2>1, <2>2
<1>5. \A clause \in Slots : add(clause) # {} => clause = IF state = "block" THEN "deny" ELSE target
  BY DEF Added
<1>6. state # "block" => add(target) # {}
  BY SynthesizeIs DEF Added
<1> HIDE DEF after, add
<1>7. Row(after, cap).state = state /\ ~Row(after, cap).mixed
  <2> DEFINE seen == ClausesOf(after, cap)
  <2>1. /\ 1 \in seen <=> add("allow") # {}
        /\ 2 \in seen <=> add("require_approval") # {}
        /\ 3 \in seen <=> add("deny") # {}
        /\ seen \in SUBSET {1, 2, 3}
    BY <1>3, ClausesAre DEF Slots
  <2> HIDE DEF seen
  <2>2. /\ state = "allow" => seen = {1}
        /\ state = "ask" => seen = {2}
        /\ state = "block" => seen \in {{}, {3}}
    BY <1>5, <1>6, <2>1 DEF Slots
  <2>3. state \in {"allow", "ask", "block"}
    BY DEF States
  <2>4. Cardinality({}) = 0 /\ Cardinality({1}) = 1 /\ Cardinality({2}) = 1 /\ Cardinality({3}) = 1
    BY FS_EmptySet, FS_Singleton
  <2>5. Cardinality(seen) \in {0, 1}
    BY <2>2, <2>3, <2>4
  <2>6. ~(Cardinality(seen) > 1)
    BY <2>5
  <2> QED
    BY <2>2, <2>3, <2>6, RowIs DEF seen
<1>8. ASSUME NEW other \in Caps, other # cap PROVE ClausesOf(after, other) = ClausesOf(grant, other)
  <2> DEFINE a == ClausesOf(after, other)
             b == ClausesOf(grant, other)
  <2>1. a \in SUBSET {1, 2, 3} /\ b \in SUBSET {1, 2, 3}
    BY ClausesAre
  <2>2. (1 \in a <=> 1 \in b) /\ (2 \in a <=> 2 \in b) /\ (3 \in a <=> 3 \in b)
    BY <1>4, <1>8, ClausesAre DEF Slots
  <2> HIDE DEF a, b
  <2>3. \A x : x \in a <=> x \in b
    BY <2>1, <2>2
  <2>4. a = b
    BY <2>3
  <2> QED
    BY <2>4 DEF a, b
<1> QED
  BY <1>7, <1>8 DEF after

\* A row that is neither mixed nor shown as blocked has no deny.
LEMMA OneClause ==
  ASSUME NEW grant, NEW cap, Row(grant, cap).present, ~Row(grant, cap).mixed, Row(grant, cap).state # "block"
  PROVE  3 \notin ClausesOf(grant, cap)
<1> DEFINE seen == ClausesOf(grant, cap)
<1>1. seen \in SUBSET {1, 2, 3} /\ ~(Cardinality(seen) > 1) /\ (1 \in seen \/ 2 \in seen)
  BY ClausesAre, RowIs
<1> HIDE DEF seen
<1>2. IsFiniteSet({1, 2, 3})
  <2>1. {1, 2, 3} = {1, 2} \cup {3}
    OBVIOUS
  <2>2. IsFiniteSet({1, 2}) /\ IsFiniteSet({3})
    BY PairIsFinite, FS_Singleton
  <2>3. IsFiniteSet({1, 2} \cup {3})
    BY <2>2, FS_Union
  <2> QED
    BY <2>1, <2>3
<1>3. IsFiniteSet(seen)
  BY <1>1, <1>2, FS_Subset
<1>4. ASSUME NEW i \in {1, 2}, i \in seen, 3 \in seen PROVE FALSE
  <2>1. Cardinality({i}) = 1 /\ IsFiniteSet({i})
    BY FS_Singleton
  <2>2. Cardinality({i} \cup {3}) = 2 /\ IsFiniteSet({i} \cup {3})
    BY <2>1, FS_AddElement
  <2>3. {i} \cup {3} \in SUBSET seen
    BY <1>4
  <2>4. Cardinality({i} \cup {3}) <= Cardinality(seen) /\ Cardinality(seen) \in Nat
    BY <1>3, <2>3, FS_Subset, FS_CardinalityType
  <2> QED
    BY <1>1, <2>2, <2>4
<1> QED
  BY <1>1, <1>4 DEF seen

\* Of a row that is shown allowed or asked about, nothing that was denied opens up, but for what
\* spells a target that is asked about now in another case.
LEMMA DeniedStays ==
  ASSUME NEW grant, IsGrant(grant), NEW cap \in Caps, NEW state \in States, NEW c \in Commands,
         Row(grant, cap).present, ~Row(grant, cap).mixed, Row(grant, cap).state # "block",
         Verdict(grant, c) = "deny"
  PROVE  LET after == ApplyCapability(grant, cap, state)
         IN Verdict(after, c) = "deny" \/ (Verdict(after, c) = "require_approval" /\ Respelt(grant, cap, c))
<1> DEFINE after == ApplyCapability(grant, cap, state)
           add(clause) == Added(grant, cap, state, clause)
           moved == AllMoved(grant, cap)
<1>1. \A clause \in Slots : after[clause] = Remaining(cap, grant[clause]) \cup add(clause)
  BY ChangeIs
<1>2. IsGrant(after) /\ \A clause \in Slots : List(grant[clause])
  BY ChangeIs DEF IsGrant
<1>3. \A e \in grant["deny"] : ~Claims(cap, e)
  BY OneClause, ClausesAre
<1>4. "deny" \in Slots /\ "allow" \in Slots /\ "require_approval" \in Slots
  BY DEF Slots
<1>5. CASE Hit(grant, "deny", c)
  <2>1. PICK e \in grant["deny"] : Covers("deny", e, c)
    BY <1>5 DEF Hit
  <2>2. e \in after["deny"]
    BY <1>1, <1>2, <1>3, <1>4, <2>1, RemainingIs
  <2>3. Hit(after, "deny", c)
    BY <2>1, <2>2 DEF Hit
  <2> QED
    BY <1>2, <2>3, VerdictIs
<1>6. CASE ~Hit(grant, "deny", c)
  <2>1. \A clause \in Slots : ~Hit(grant, clause, c)
    BY <1>6, VerdictIs DEF Slots
  <2>2. \E clause \in Slots : \E e \in grant[clause] : Claims(cap, e)
    <3>1. 1 \in ClausesOf(grant, cap) \/ 2 \in ClausesOf(grant, cap)
      BY RowIs
    <3> QED
      BY <1>4, <3>1, ClausesAre
  <2>7. /\ \A x \in moved : \E clause \in Slots : \E e \in grant[clause] : Claims(cap, e) /\ x = Taken(cap, e)
        /\ \A clause \in Slots : \A e \in grant[clause] : Claims(cap, e) => Taken(cap, e) \in moved
    BY MovedAreOwn
  <2>3. moved # {}
    <3> HIDE DEF moved
    <3> QED
      BY <2>2, <2>7
  <2>4. ASSUME NEW x \in moved, NEW clause \in Slots, Covers(clause, x, c)
        PROVE  clause # "allow" /\ Respelt(grant, cap, c)
    <3>0. PICK slot \in Slots : \E e \in grant[slot] : Claims(cap, e) /\ x = Taken(cap, e)
      BY <2>7
    <3>1. PICK e \in grant[slot] : Claims(cap, e) /\ x = Taken(cap, e)
      BY <3>0
    <3>2. IsEntry(e) /\ IsEntry(x) /\ x.on = e.on /\ x.globs = ClaimOf(cap, e)
      BY <1>2, <3>1, TakenIs DEF List, Own
    <3>3. ~Covers(slot, x, c)
      BY <2>1, <3>1, <3>2, TakenIs DEF Hit
    <3>4. clause # "allow" /\ Shifted(ClaimOf(cap, e), c)
      BY <2>4, <3>2, <3>3, CoverCarries
    <3>5. e.on = c[1]
      BY <2>4, <3>1, <3>2, ClaimNames, CoversIs
    <3> QED
      BY <3>1, <3>4, <3>5, RespeltIs DEF RespeltBy
  <2>5. \A clause \in {"allow", "require_approval"} : add(clause) \in {{}, moved}
    BY <2>3 DEF Added
  <2>6. ASSUME NEW clause \in {"allow", "require_approval"}, Hit(after, clause, c)
        PROVE  clause # "allow" /\ Respelt(grant, cap, c)
    <3>1. clause \in Slots
      BY DEF Slots
    <3>2. PICK x \in after[clause] : Covers(clause, x, c)
      BY <2>6 DEF Hit
    <3>3. CASE x \in Remaining(cap, grant[clause])
      <4>1. \E e \in grant[clause] : Covers(clause, e, c)
        BY <1>2, <3>1, <3>2, <3>3, RemainingIs
      <4> QED
        BY <2>1, <3>1, <4>1 DEF Hit
    <3>4. CASE x \in moved
      BY <2>4, <3>1, <3>2, <3>4
    <3> QED
      BY <1>1, <2>5, <3>1, <3>2, <3>3, <3>4
  <2> HIDE DEF after, moved, add
  <2> QED
    BY <1>2, <2>6, VerdictIs DEF after
<1> QED
  BY <1>5, <1>6

LEMMA BlockedIsDenied ==
  ASSUME NEW grant, IsGrant(grant), NEW cap \in Caps, Catalogue[cap].whole # {}, NEW c \in Commands, CapabilityFor(c) = cap
  PROVE  Verdict(ApplyCapability(grant, cap, "block"), c) = "deny"
<1> DEFINE after == ApplyCapability(grant, cap, "block")
<1>1. "block" \in States /\ "deny" \in Slots
  BY DEF States, Slots
<1>2. c[1] \in Catalogue[cap].whole
  BY OwnerIs, CatalogueIs
<1>3. Bare(c[1]) \in Added(grant, cap, "block", "deny")
  BY <1>2 DEF Added
<1>4. Bare(c[1]) \in after["deny"] /\ IsGrant(after)
  BY <1>1, <1>3, ChangeIs
<1>5. Covers("deny", Bare(c[1]), c)
  <2>1. Bare(c[1]).on = c[1] /\ Bare(c[1]).globs = Anything
    BY EntryIs DEF Bare
  <2> QED
    BY <2>1, CoversIs
<1>6. Hit(after, "deny", c)
  BY <1>4, <1>5 DEF Hit
<1> HIDE DEF after
<1>7. Verdict(after, c) = "deny"
  BY <1>4, <1>6, VerdictIs
<1> QED
  BY <1>7 DEF after

\* Nothing narrow is thrown away without being asked about.
LEMMA ScopeIsKept ==
  ASSUME NEW grant, IsGrant(grant), NEW cap \in Caps, NEW state \in States, ~LosesScope(grant, cap, state),
         NEW clause \in Slots, NEW e \in grant[clause], e.globs # Anything, Claims(cap, e),
         state # "block" \/ e.on \in Catalogue[cap].whole, NEW g \in ClaimOf(cap, e)
  PROVE  Trivial(e.on, g) \/ \E slot \in Slots : \E f \in ApplyCapability(grant, cap, state)[slot] :
            f.on = e.on /\ f.globs # Anything /\ g \in f.globs
<1> DEFINE moved == AllMoved(grant, cap)
           target == IF state = "allow" THEN "allow" ELSE "require_approval"
<1>0. IsEntry(e)
  BY DEF IsGrant, List
<1>1. CASE state = "block"
  <2> DEFINE whole == {x \in UNION {grant[Clauses[i]] : i \in 1..3} : x.on \in Catalogue[cap].whole}
  <2>1. Row(grant, cap).narrowed = UNION {{x \in w.globs : ~Trivial(w.on, x)} : w \in {v \in whole : v.globs # Anything}}
    BY DEF Row
  <2>2. Row(grant, cap).narrowed = {}
    BY <1>1 DEF LosesScope
  <2>3. e \in whole
    <3>1. \E i \in 1..3 : clause = Clauses[i]
      <4>1. Clauses[1] = "allow" /\ Clauses[2] = "require_approval" /\ Clauses[3] = "deny"
        BY DEF Clauses
      <4> QED
        BY <4>1 DEF Slots
    <3> QED
      BY <1>1, <3>1
  <2>4. g \in e.globs
    BY <1>0, <1>1, ClaimIs
  <2> HIDE DEF whole
  <2> QED
    BY <2>1, <2>2, <2>3, <2>4
<1>2. CASE state # "block"
  <2> DEFINE x == Taken(cap, e)
  <2>1. x \in moved
    <3>1. \A slot \in Slots : \A f \in grant[slot] : Claims(cap, f) => Taken(cap, f) \in moved
      BY MovedAreOwn
    <3> HIDE DEF moved
    <3> QED
      BY <3>1
  <2>2. x.on = e.on /\ x.globs = ClaimOf(cap, e)
    BY <1>0, TakenIs
  <2>3. x.globs # Anything
    <3>1. e.globs \in SUBSET Globs
      BY <1>0 DEF IsEntry
    <3>2. ClaimOf(cap, e) \in SUBSET e.globs
      BY <1>0, ClaimIs
    <3> QED
      BY <2>2, <3>1, <3>2, AnythingIs
  <2>4. Added(grant, cap, state, target) = moved
    BY <1>2, <2>1 DEF Added
  <2>5. target \in Slots
    BY DEF Slots
  <2> HIDE DEF x, target, moved
  <2>6. x \in ApplyCapability(grant, cap, state)[target]
    BY <2>1, <2>4, <2>5, ChangeIs
  <2> QED
    BY <2>2, <2>3, <2>5, <2>6
<1> QED
  BY <1>1, <1>2

\* Moving a capability to a state does that and nothing else, in any grant (capabilities.ts
\* applyCapability()): the commands of others are decided as before, nothing that was denied
\* opens up, and nothing narrow is thrown away without being asked about, but that targets which
\* are asked about or denied match in any case.
THEOREM EveryChangeIsContained ==
  ASSUME NEW grant, IsGrant(grant)
  PROVE  ChangeIsContained(grant)
<1> SUFFICES ASSUME NEW cap \in Caps, NEW state \in States
    PROVE LET after == ApplyCapability(grant, cap, state) row == Row(grant, cap) IN
    /\ Row(after, cap).state = state /\ ~Row(after, cap).mixed
    /\ \A c \in Commands :
         /\ CapabilityFor(c) # cap =>
              \/ Verdict(after, c) = Verdict(grant, c)
              \/ /\ Respelt(grant, cap, c) \/ Respelt(after, cap, c)
                 /\ Verdict(after, c) = "allow" => LeftIn("allow", grant, c)
         /\ CapabilityFor(c) = cap =>
              /\ RankOf[Verdict(after, c)] <= RankOf[state] \/ LeftOver(after, c)
              /\ state = "block" /\ Catalogue[cap].whole # {} => Verdict(after, c) = "deny"
              /\ row.present /\ ~row.mixed /\ row.state # "block" /\ Verdict(grant, c) = "deny" =>
                   \/ Verdict(after, c) = "deny"
                   \/ Verdict(after, c) = "require_approval" /\ Respelt(grant, cap, c)
    /\ ~row.mixed /\ ~LosesScope(grant, cap, state) =>
         \A e \in UNION {grant[Clauses[i]] : i \in 1..3} :
           e.globs # Anything /\ Claims(cap, e) /\ (state # "block" \/ e.on \in Catalogue[cap].whole) =>
             \A g \in ClaimOf(cap, e) : Trivial(e.on, g) \/ \E clause \in DOMAIN after : \E f \in after[clause] :
               f.on = e.on /\ f.globs # Anything /\ g \in f.globs
  BY DEF ChangeIsContained
<1> DEFINE after == ApplyCapability(grant, cap, state)
           row == Row(grant, cap)
<1>1. IsGrant(after) /\ Row(after, cap).state = state /\ ~Row(after, cap).mixed
  BY ChangeIs, RowsAfter
<1>2. \A c \in Commands : CapabilityFor(c) # cap =>
        \/ Verdict(after, c) = Verdict(grant, c)
        \/ /\ Respelt(grant, cap, c) \/ Respelt(after, cap, c)
           /\ Verdict(after, c) = "allow" => LeftIn("allow", grant, c)
  BY OthersAreDecided
<1>3. ASSUME NEW c \in Commands, CapabilityFor(c) = cap
      PROVE  RankOf[Verdict(after, c)] <= RankOf[state] \/ LeftOver(after, c)
  <2>1. LabelIsHonest(after) /\ cap # "none"
    BY <1>1, EveryLabelIsHonest, OwnerIs
  <2> HIDE DEF after
  <2> QED
    BY <1>1, <1>3, <2>1 DEF LabelIsHonest
<1>4. \A c \in Commands : CapabilityFor(c) = cap /\ state = "block" /\ Catalogue[cap].whole # {} => Verdict(after, c) = "deny"
  BY BlockedIsDenied
<1>5. \A c \in Commands : row.present /\ ~row.mixed /\ row.state # "block" /\ Verdict(grant, c) = "deny" =>
        Verdict(after, c) = "deny" \/ (Verdict(after, c) = "require_approval" /\ Respelt(grant, cap, c))
  BY DeniedStays
<1>6. ASSUME ~LosesScope(grant, cap, state), NEW e \in UNION {grant[Clauses[i]] : i \in 1..3},
             e.globs # Anything, Claims(cap, e), state # "block" \/ e.on \in Catalogue[cap].whole, NEW g \in ClaimOf(cap, e)
      PROVE  Trivial(e.on, g) \/ \E clause \in DOMAIN after : \E f \in after[clause] :
               f.on = e.on /\ f.globs # Anything /\ g \in f.globs
  <2>1. PICK i \in 1..3 : e \in grant[Clauses[i]]
    BY <1>6
  <2>2. Clauses[i] \in Slots
    BY DEF Clauses, Slots
  <2>3. DOMAIN after = Slots
    BY <1>1 DEF IsGrant
  <2>4. Trivial(e.on, g) \/ \E slot \in Slots : \E f \in after[slot] : f.on = e.on /\ f.globs # Anything /\ g \in f.globs
    BY <1>6, <2>1, <2>2, ScopeIsKept
  <2> QED
    BY <2>3, <2>4
<1> HIDE DEF after, row
<1> QED
  BY <1>1, <1>2, <1>3, <1>4, <1>5, <1>6 DEF after, row

-------------------------------------------------------------------------------
(* A review: one change after another. *)

LEMMA LeastNumber ==
  ASSUME NEW S, S \subseteq Nat, S # {}
  PROVE  \E n \in S : \A m \in S : n <= m
<1>1. IsWellFoundedOn(OpToRel(<, Nat), Nat)
  BY NatLessThanWellFounded
<1>2. PICK n \in S : \A m \in S : ~(<<m, n>> \in OpToRel(<, Nat))
  BY <1>1, WFMin
<1>3. \A m \in S : ~(m < n)
  BY <1>2 DEF OpToRel
<1> QED
  BY <1>3

\* What holds of a set whenever it holds of its proper subsets holds of every finite set.
LEMMA BySize ==
  ASSUME NEW S, IsFiniteSet(S), NEW Good,
         \A T \in SUBSET S : (\A U \in SUBSET T : U # T => U \in Good) => T \in Good
  PROVE  \A T \in SUBSET S : T \in Good
<1> SUFFICES ASSUME NEW T0 \in SUBSET S, T0 \notin Good PROVE FALSE
  OBVIOUS
<1> DEFINE Sizes == {Cardinality(T) : T \in {U \in SUBSET S : U \notin Good}}
<1>1. \A T \in SUBSET S : IsFiniteSet(T) /\ Cardinality(T) \in Nat
  BY FS_Subset, FS_CardinalityType
<1>2. Sizes \subseteq Nat /\ Sizes # {}
  BY <1>1
<1>3. PICK n \in Sizes : \A m \in Sizes : n <= m
  BY <1>2, LeastNumber
<1>4. PICK T \in SUBSET S : T \notin Good /\ Cardinality(T) = n
  BY <1>3
<1>5. ASSUME NEW U \in SUBSET T, U # T PROVE U \in Good
  <2>1. U \in SUBSET S
    OBVIOUS
  <2>2. IsFiniteSet(T) /\ Cardinality(T) \in Nat /\ Cardinality(U) \in Nat
    BY <1>1, <2>1
  <2>3. Cardinality(U) <= Cardinality(T) /\ (Cardinality(U) = Cardinality(T) => U = T)
    BY <2>2, FS_Subset
  <2>4. Cardinality(U) < Cardinality(T)
    BY <1>5, <2>2, <2>3
  <2>5. ASSUME U \notin Good PROVE FALSE
    <3>1. Cardinality(U) \in Sizes
      BY <2>1, <2>5
    <3> HIDE DEF Sizes
    <3>2. Cardinality(T) <= Cardinality(U)
      BY <1>3, <1>4, <3>1
    <3> QED
      BY <2>2, <2>4, <3>2
  <2> QED
    BY <2>5
<1> QED
  BY <1>4, <1>5

\* FoldSet() of the community modules, as the changes a review makes one after another.
Some(T) == CHOOSE x \in T : TRUE
Reviews(it, grant, choice, S) ==
  it = [T \in SUBSET S |-> IF T = {} THEN grant ELSE ApplyCapability(it[T \ {Some(T)}], Some(T), choice[Some(T)])]

LEMMA ReviewsStep ==
  ASSUME NEW S, NEW grant, NEW choice, NEW it, Reviews(it, grant, choice, S), NEW T \in SUBSET S
  PROVE  /\ T = {} => it[T] = grant
         /\ T # {} => Some(T) \in T /\ it[T] = ApplyCapability(it[T \ {Some(T)}], Some(T), choice[Some(T)])
<1>1. it[T] = IF T = {} THEN grant ELSE ApplyCapability(it[T \ {Some(T)}], Some(T), choice[Some(T)])
  BY DEF Reviews
<1> QED
  BY <1>1 DEF Some

\* Two folds of the same choices agree on a set that both are over.
LEMMA ReviewsAgree ==
  ASSUME NEW S, NEW R, NEW grant, NEW choice, NEW g, NEW h, Reviews(g, grant, choice, S), Reviews(h, grant, choice, R),
         NEW T, IsFiniteSet(T), T \subseteq S, T \subseteq R
  PROVE  g[T] = h[T]
<1> DEFINE Good == {U \in SUBSET T : g[U] = h[U]}
<1>1. ASSUME NEW U \in SUBSET T, \A V \in SUBSET U : V # U => V \in Good PROVE U \in Good
  <2>1. CASE U = {}
    BY <2>1, ReviewsStep
  <2>2. CASE U # {}
    <3>0. U \in SUBSET S /\ U \in SUBSET R
      OBVIOUS
    <3>3. g[U] = ApplyCapability(g[U \ {Some(U)}], Some(U), choice[Some(U)])
      BY <2>2, <3>0, ReviewsStep
    <3>4. h[U] = ApplyCapability(h[U \ {Some(U)}], Some(U), choice[Some(U)])
      <4>1. h[U] = IF U = {} THEN grant ELSE ApplyCapability(h[U \ {Some(U)}], Some(U), choice[Some(U)])
        BY <3>0 DEF Reviews
      <4> QED
        BY <2>2, <4>1
    <3>1. Some(U) \in U
      BY <2>2 DEF Some
    <3>2. U \ {Some(U)} \in Good
      BY <1>1, <3>1
    <3> QED
      BY <3>1, <3>2, <3>3, <3>4
  <2> QED
    BY <2>1, <2>2
<1> HIDE DEF Good
<1>2. \A U \in SUBSET T : U \in Good
  BY <1>1, BySize
<1> QED
  BY <1>2 DEF Good

\* The recursive definition of the fold has a solution.
LEMMA ReviewsExist ==
  ASSUME NEW S, IsFiniteSet(S), NEW grant, NEW choice
  PROVE  \A T \in SUBSET S : Reviews(CHOOSE g : Reviews(g, grant, choice, T), grant, choice, T)
<1> DEFINE The(T) == CHOOSE g : Reviews(g, grant, choice, T)
           Good == {T \in SUBSET S : Reviews(The(T), grant, choice, T)}
<1>1. ASSUME NEW T \in SUBSET S, \A U \in SUBSET T : U # T => U \in Good PROVE T \in Good
  <2> DEFINE Whole == IF T = {} THEN grant
                      ELSE ApplyCapability(The(T \ {Some(T)})[T \ {Some(T)}], Some(T), choice[Some(T)])
             g == [U \in SUBSET T |-> IF U = T THEN Whole ELSE The(U)[U]]
  <2> HIDE DEF The
  <2>1. ASSUME NEW U \in SUBSET T
        PROVE  g[U] = IF U = {} THEN grant ELSE ApplyCapability(g[U \ {Some(U)}], Some(U), choice[Some(U)])
    <3>1. CASE U = {} /\ U = T
      BY <3>1
    <3>2. CASE U = {} /\ U # T
      <4>1. Reviews(The(U), grant, choice, U)
        BY <1>1, <3>2
      <4> QED
        BY <3>2, <4>1, ReviewsStep
    <3>3. CASE U # {}
      <4> DEFINE V == U \ {Some(U)}
      <4>1. Some(U) \in U /\ V \in SUBSET T /\ V # T /\ V \in SUBSET U
        BY <3>3 DEF Some
      <4>2. g[V] = The(V)[V] /\ Reviews(The(V), grant, choice, V)
        BY <1>1, <4>1
      <4>3. CASE U = T
        BY <3>3, <4>2, <4>3
      <4>4. CASE U # T
        <5>1. Reviews(The(U), grant, choice, U) /\ g[U] = The(U)[U]
          BY <1>1, <4>4
        <5>2. The(U)[U] = ApplyCapability(The(U)[V], Some(U), choice[Some(U)])
          BY <3>3, <5>1, ReviewsStep
        <5>3. IsFiniteSet(V)
          BY <4>1, FS_Subset
        <5>4. The(U)[V] = The(V)[V]
          BY <4>1, <4>2, <5>1, <5>3, ReviewsAgree
        <5> QED
          BY <3>3, <4>2, <5>1, <5>2, <5>4
      <4> QED
        BY <4>3, <4>4
    <3> QED
      BY <3>1, <3>2, <3>3
  <2> HIDE DEF Whole
  <2>2. Reviews(g, grant, choice, T)
    <3>1. g = [U \in SUBSET T |-> g[U]]
      OBVIOUS
    <3> HIDE DEF g
    <3> QED
      BY <2>1, <3>1 DEF Reviews
  <2> HIDE DEF g
  <2>3. Reviews(The(T), grant, choice, T)
    BY <2>2 DEF The
  <2> QED
    BY <2>3
<1> HIDE DEF Good, The
<1>2. \A T \in SUBSET S : T \in Good
  BY <1>1, BySize
<1> QED
  BY <1>2 DEF Good, The

\* What a review writes is one of those folds.
LEMMA ReviewIs ==
  ASSUME NEW grant, NEW log, NEW choice, IsFiniteSet(Reviewed(log))
  PROVE  \E it : Reviews(it, grant, choice, Reviewed(log)) /\ ApplyReview(grant, log, choice) = it[Reviewed(log)]
<1> DEFINE S == Reviewed(log)
           Body(g) == [T \in SUBSET S |->
                         IF T = {} THEN grant
                         ELSE ApplyCapability(g[T \ {CHOOSE x \in T : TRUE}], CHOOSE x \in T : TRUE, choice[CHOOSE x \in T : TRUE])]
           it == CHOOSE g : g = Body(g)
<1>1. ApplyReview(grant, log, choice) = it[S]
  BY DEF ApplyReview, FoldSet, MapThenFoldSet
<1>2. \A g : Reviews(g, grant, choice, S) <=> g = Body(g)
  BY DEF Reviews, Some
<1>3. \E g : Reviews(g, grant, choice, S)
  BY ReviewsExist
<1> HIDE DEF Body, S
<1>4. Reviews(it, grant, choice, S)
  BY <1>2, <1>3
<1> QED
  BY <1>1, <1>4 DEF S

LEMMA ReviewedAre ==
  ASSUME NEW log
  PROVE  Reviewed(log) \in SUBSET Caps /\ IsFiniteSet(Reviewed(log))
<1>1. \A c : CapabilityFor(c) \in Caps \cup {"none"}
  BY DEF CapabilityFor
<1>2. Reviewed(log) \in SUBSET Caps
  BY <1>1 DEF Reviewed
<1>3. IsFiniteSet(Caps)
  <2>1. IsFiniteSet({"read", "local"}) /\ IsFiniteSet({"publish", "network"}) /\ IsFiniteSet({"admin"})
    BY PairIsFinite, FS_Singleton
  <2>2. IsFiniteSet({"read", "local"} \cup {"publish", "network"})
    BY <2>1, FS_Union
  <2>3. IsFiniteSet(({"read", "local"} \cup {"publish", "network"}) \cup {"admin"})
    BY <2>1, <2>2, FS_Union
  <2>4. Caps = ({"read", "local"} \cup {"publish", "network"}) \cup {"admin"}
    BY CatalogueHas
  <2> QED
    BY <2>3, <2>4
<1> QED
  BY <1>2, <1>3, FS_Subset

\* A row follows from the clauses that have a claim.
LEMMA RowFollows ==
  ASSUME NEW grant, NEW after, NEW cap, ClausesOf(after, cap) = ClausesOf(grant, cap)
  PROVE  Row(after, cap).state = Row(grant, cap).state
BY RowIs

\* After a review every capability that the log names is in the state chosen for it.
LEMMA ReviewMoves ==
  ASSUME NEW grant, IsGrant(grant), NEW log, NEW choice, \A cap \in Reviewed(log) : choice[cap] \in States
  PROVE  LET after == ApplyReview(grant, log, choice)
         IN IsGrant(after) /\ \A cap \in Reviewed(log) : Row(after, cap).state = choice[cap]
<1> DEFINE S == Reviewed(log)
<1>1. S \in SUBSET Caps /\ IsFiniteSet(S)
  BY ReviewedAre
<1>2. PICK it : Reviews(it, grant, choice, S) /\ ApplyReview(grant, log, choice) = it[S]
  BY <1>1, ReviewIs
<1> DEFINE Good == {T \in SUBSET S : IsGrant(it[T]) /\ \A cap \in T : Row(it[T], cap).state = choice[cap]}
<1> HIDE DEF S
<1>3. ASSUME NEW T \in SUBSET S, \A U \in SUBSET T : U # T => U \in Good PROVE T \in Good
  <2>1. CASE T = {}
    <3>1. it[T] = grant
      BY <1>2, <2>1 DEF Reviews
    <3>2. IsGrant(it[T])
      BY <3>1
    <3>3. \A cap \in T : Row(it[T], cap).state = choice[cap]
      BY <2>1
    <3> QED
      BY <3>2, <3>3
  <2>2. CASE T # {}
    <3> DEFINE x == Some(T)
               U == T \ {x}
    <3>1. x \in T /\ it[T] = ApplyCapability(it[U], x, choice[x])
      BY <1>2, <2>2, ReviewsStep
    <3>2. x \in Caps /\ choice[x] \in States
      BY <1>1, <3>1 DEF S
    <3>3. U \in Good
      BY <1>3, <3>1
    <3> HIDE DEF x
    <3>4. IsGrant(it[T]) /\ Row(it[T], x).state = choice[x]
      BY <3>1, <3>2, <3>3, ChangeIs, RowsAfter
    <3>5. ASSUME NEW cap \in U PROVE Row(it[T], cap).state = choice[cap]
      <4>1. cap \in Caps /\ cap # x
        BY <1>1
      <4>2. ClausesOf(it[T], cap) = ClausesOf(it[U], cap)
        BY <3>1, <3>2, <3>3, <4>1, RowsAfter
      <4>3. Row(it[U], cap).state = choice[cap]
        BY <3>3
      <4>4. Row(it[T], cap).state = Row(it[U], cap).state
        BY <4>2, RowFollows
      <4> QED
        BY <4>3, <4>4
    <3> QED
      BY <3>4, <3>5
  <2> QED
    BY <2>1, <2>2
<1> HIDE DEF Good
<1>4. \A T \in SUBSET S : T \in Good
  BY <1>1, <1>3, BySize
<1> QED
  BY <1>2, <1>4 DEF Good, S

\* Applying what a review proposes holds whatever it flags, in any grant and for any log
\* (console/lib/review.ts buildReview()): the changes are made one after another, and none
\* undoes what another made.
THEOREM EveryReviewHolds ==
  ASSUME NEW grant, IsGrant(grant), NEW log
  PROVE  ReviewHoldsTheFlagged(grant, log)
<1> DEFINE after == ApplyReview(grant, log, Suggestions(log))
           choice == Suggestions(log)
<1>1. \A cap \in Reviewed(log) : choice[cap] = Suggested(log, cap) /\ choice[cap] \in States
  <2>1. \A cap \in Reviewed(log) : Suggested(log, cap) \in States
    BY ReviewedAre, CatalogueHas DEF Suggested, States
  <2> QED
    BY <2>1 DEF Suggestions
<1>2. IsGrant(after) /\ \A cap \in Reviewed(log) : Row(after, cap).state = choice[cap]
  BY <1>1, ReviewMoves
<1>3. LabelIsHonest(after)
  BY <1>2, EveryLabelIsHonest
<1> SUFFICES ASSUME NEW c \in Commands, CapabilityFor(c) \in Reviewed(log),
                    Flagged(log, CapabilityFor(c)), ~LeftOver(after, c)
             PROVE  Verdict(after, c) # "allow"
  BY DEF ReviewHoldsTheFlagged, Flagged
<1> DEFINE cap == CapabilityFor(c)
<1>4. cap \in Caps /\ cap # "none"
  BY ReviewedAre, CatalogueHas
<1>5. Suggested(log, cap) \in {"ask", "block"}
  BY <1>4, CatalogueHas DEF Suggested, Kept, States
<1>6. RankOf[Verdict(after, c)] <= RankOf[Row(after, cap).state]
  BY <1>3, <1>4 DEF LabelIsHonest
<1>7. Row(after, cap).state \in {"ask", "block"}
  BY <1>1, <1>2, <1>5
<1>8. RankOf["allow"] = 2 /\ RankOf["ask"] = 1 /\ RankOf["block"] = 0
  BY DEF RankOf
<1> HIDE DEF cap, after
<1> QED
  BY <1>6, <1>7, <1>8

-------------------------------------------------------------------------------
(* The grants of the run. *)

LEMMA PicksAre ==
  ASSUME NEW P
  PROVE  \A pick \in {{p, q} : p \in P, q \in P} \cup {{}} : IsFiniteSet(pick) /\ pick \in SUBSET P
<1>1. ASSUME NEW p \in P, NEW q \in P PROVE IsFiniteSet({p, q}) /\ {p, q} \in SUBSET P
  BY PairIsFinite
<1>2. IsFiniteSet({})
  BY FS_EmptySet
<1> QED
  BY <1>1, <1>2

\* The grants of the runs are such grants.
LEMMA GrantsAreWritten == \A grant \in Grants : IsGrant(grant)
<1>1. /\ Status \in Globs /\ Push \in Globs /\ PushX \in Globs /\ Shout \in Globs /\ Git \in Globs /\ Key \in Globs
      /\ Plain("cat") \in SUBSET Globs /\ Plain("sudo") \in SUBSET Globs
  <2>1. \A w \in Seq(Words), kind \in {"exact", "more", "any"} : Glob(w, kind) \in Globs
    BY DEF Globs, Glob
  <2>2. /\ <<"git", "status">> \in Seq(Words) /\ <<"git", "push">> \in Seq(Words) /\ <<"git", "push", "x">> \in Seq(Words)
        /\ <<"git", "PUSH">> \in Seq(Words) /\ <<"git">> \in Seq(Words) /\ <<"cat", "key">> \in Seq(Words) /\ <<"cat">> \in Seq(Words) /\ <<"sudo">> \in Seq(Words)
    BY WordsAssumption
  <2> QED
    BY <2>1, <2>2 DEF Status, Push, PushX, Shout, Git, Key, Plain
<1>2. \A e \in Entries : IsEntry(e)
  <2>1. \A on, globs : globs = Anything \/ globs \in SUBSET Globs => IsEntry(Entry(on, globs))
    BY EntryIs
  <2>2. \A e \in Entries : \E on, globs : e = Entry(on, globs) /\ (globs = Anything \/ globs \in SUBSET Globs)
    <3>1. /\ {Key} \in SUBSET Globs /\ {Push} \in SUBSET Globs /\ {Push, Status} \in SUBSET Globs
          /\ {PushX} \in SUBSET Globs /\ {Shout} \in SUBSET Globs /\ {Git, Status} \in SUBSET Globs
      BY <1>1
    <3> QED
      BY <1>1, <3>1 DEF Entries, Bare
  <2> QED
    BY <2>1, <2>2
<1>3. \A e \in Asking : IsEntry(e)
  <2> SUFFICES ASSUME NEW e \in Asking PROVE IsEntry(e)
    OBVIOUS
  <2>1. PICK f \in Entries : e = [f EXCEPT !.ask = TRUE]
    BY DEF Asking, Entries
  <2>2. f = [on |-> f.on, globs |-> f.globs, ask |-> f.ask] /\ (f.globs = Anything \/ f.globs \in SUBSET Globs)
    BY <1>2 DEF IsEntry
  <2>3. e = [on |-> f.on, globs |-> f.globs, ask |-> TRUE]
    BY <2>1, <2>2
  <2> QED
    BY <2>2, <2>3 DEF IsEntry
<1>4. \A p \in Places : IsEntry(p[2])
  BY <1>2, <1>3 DEF Places
<1>5. DOMAIN NoGrant = Slots
  BY DEF NoGrant, Slots
<1> SUFFICES ASSUME NEW grant \in Grants PROVE IsGrant(grant)
  OBVIOUS
<1>6. PICK pick \in {{p, q} : p \in Places, q \in Places} \cup {{}} :
        grant = [clause \in Slots |-> {p[2] : p \in {q \in pick : q[1] = clause}}]
  BY <1>5 DEF Grants
<1>7. IsFiniteSet(pick) /\ pick \in SUBSET Places
  BY <1>6, PicksAre
<1>8. ASSUME NEW clause \in Slots PROVE List(grant[clause])
  <2> DEFINE picked == {q \in pick : q[1] = clause}
             f == [p \in picked |-> p[2]]
  <2>1. grant[clause] = {p[2] : p \in picked}
    BY <1>6
  <2>2. DOMAIN f = picked /\ \A p \in picked : f[p] = p[2]
    OBVIOUS
  <2>3. IsFiniteSet(picked) /\ picked \in SUBSET Places
    BY <1>7, FS_Subset
  <2> HIDE DEF picked, f
  <2>6. IsFiniteSet({f[p] : p \in picked})
    BY <2>2, <2>3, ImageIsFinite
  <2>4. IsFiniteSet(grant[clause])
    BY <2>1, <2>2, <2>6
  <2>5. \A e \in grant[clause] : IsEntry(e)
    BY <1>4, <2>1, <2>3
  <2> QED
    BY <2>4, <2>5 DEF List
<1>9. grant = [clause \in Slots |-> grant[clause]]
  BY <1>6
<1> QED
  BY <1>8, <1>9 DEF IsGrant

\* A page that is opened on a grant stays on it.
Drafted == draft \in Grants \cup {Pages}

LEMMA DraftStays == MCSpec => []Drafted
<1>1. MCInit => Drafted
  BY DEF MCInit, Drafted
<1>2. Drafted /\ [MCNext]_<<vars, draft>> => Drafted'
  BY DEF Drafted, MCNext
<1> QED
  BY <1>1, <1>2, PTL DEF MCSpec

\* No row of the permissions page shows less than the engine gives (console/lib/capabilities.ts
\* readCapabilities()): in the grants of the run, whatever the commands are.
THEOREM LabelsStayHonest == MCSpec => []LabelsAreHonest
<1>1. Drafted => LabelsAreHonest
  BY GrantsAreWritten, EveryLabelIsHonest DEF Drafted, LabelsAreHonest
<1> QED
  BY <1>1, DraftStays, PTL

\* Moving a capability does that and nothing else (capabilities.ts applyCapability()): in
\* the grants of the run, whatever the commands are.
THEOREM ChangeStaysContained == MCSpec => []ChangeDoesOnlyThat
<1>1. Drafted => ChangeDoesOnlyThat
  BY GrantsAreWritten, EveryChangeIsContained DEF Drafted, ChangeDoesOnlyThat
<1> QED
  BY <1>1, DraftStays, PTL

\* What a review of the log proposes holds whatever it flags (console/lib/review.ts
\* buildReview()): in the grants of the run, whatever the commands and the logs are.
THEOREM FlaggedStaysHeld == MCSpec => []FlaggedIsHeld
<1>1. Drafted => FlaggedIsHeld
  BY GrantsAreWritten, EveryReviewHolds DEF Drafted, FlaggedIsHeld
<1> QED
  BY <1>1, DraftStays, PTL
=============================================================================
