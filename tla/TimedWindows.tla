----------------------------- MODULE TimedWindows -----------------------------
(***************************************************************************)
(* The two stores of time-boxed permits an admin opens on a running proxy: *)
(* JIT grants (grant/store.ts), which lift a gap or a prompt, and          *)
(* break-glass windows (breakglass/store.ts), which turn a denial into a   *)
(* prompt.  A permit lives in memory and in a file; it ends when its time  *)
(* is up or when its id is revoked with the kill-switch.                   *)
(*                                                                         *)
(* What a request under a permit is worth is BatchVerdict's Verdict, given *)
(* the permits that are live when the request arrives.  A prompt is held   *)
(* for at most ApprovalTtl and the stores are not read again after it.     *)
(***************************************************************************)
EXTENDS BatchVerdict

CONSTANTS
  Grants, Windows,  \* ids of permits, each minted at most once
  Scopes,           \* the actions a permit may be opened for
  Ttl,              \* what an admin asks for, already clamped to the hour
  MaxActive,        \* grant/store.ts and breakglass/store.ts MAX_ACTIVE
  ApprovalTtl,      \* how long a prompt is held
  Calls,            \* requests (a bound on the run)
  MaxClock          \* a bound on the run

VARIABLES
  clock,
  up,        \* the proxy runs
  mem,       \* permits in memory: [id -> [actions, since, until]]
  disk,      \* permits in the file
  cut,       \* ids revoked, and when: the kill-switch's file survives a restart
  held,      \* calls behind a prompt: [call -> [permit, asked]]
  used       \* calls performed under a permit: [call, permit, at, ended]

timedVars == <<clock, up, mem, disk, cut, held, used>>

Permits == Grants \union Windows
NoPermit == "none"

ASSUME TimedAssumption ==
  /\ Scopes \subseteq SUBSET Actions /\ NoPermit \notin Permits
  /\ Ttl \in Nat /\ ApprovalTtl \in Nat /\ MaxClock \in Nat

Never == MaxClock + Ttl + 1
Asked == DOMAIN held \union {u.call : u \in used}

\* The records of these ids, and a record more.
Kept(f, S) == [p \in DOMAIN f \intersect S |-> f[p]]
With(f, p, record) == [q \in DOMAIN f \union {p} |-> IF q = p THEN record ELSE f[q]]

-----------------------------------------------------------------------------
\* What the dispatcher reads: the records that are neither over nor revoked.

\* A store that trusts the purge at startup to drop what has ended.
LivePurged(S) == {p \in DOMAIN mem \intersect S : p \notin DOMAIN cut}

Live(S) == {p \in DOMAIN mem \intersect S : mem[p].until > clock /\ p \notin DOMAIN cut}

Newest(S) == CHOOSE p \in S : \A q \in S : mem[p].since >= mem[q].since

\* The newest open window that covers every action of the request.
Covering(b) == {w \in Live(Windows) : ActionsOf(b) \subseteq mem[w].actions}
Matched(b) == IF Covering(b) = {} THEN {} ELSE {Newest(Covering(b))}

InForce(b) ==
  [policy EXCEPT !.granted = UNION {mem[g].actions : g \in Live(Grants)},
                 !.window = UNION {mem[w].actions : w \in Matched(b)}]

PermitOf(b, v) ==
  CASE v.glass -> Newest(Covering(b))
    [] v.granted /\ ~v.glass ->
         Newest({g \in Live(Grants) : Range(v.rep) \intersect mem[g].actions # {}})
    [] OTHER -> NoPermit

-----------------------------------------------------------------------------
\* When the operator was told, or has asked, that a permit ends.

EndOf(p) == IF p = NoPermit THEN Never ELSE
            IF p \in DOMAIN cut THEN Min({cut[p], mem[p].until}) ELSE mem[p].until

Performed(c, p) == used' = used \union {[call |-> c, permit |-> p, at |-> clock, ended |-> EndOf(p)]}

\* Expired permits do not count against the cap.
AtCapacity(S) == Cardinality({q \in DOMAIN mem \intersect S : mem[q].until > clock}) >= MaxActive

Minted(actions) == [actions |-> actions, since |-> clock, until |-> clock + Ttl]

\* Each store rewrites its own file.
Saved(f, S) == [p \in (DOMAIN f \intersect S) \union (DOMAIN disk \ S) |-> IF p \in S THEN f[p] ELSE disk[p]]

\* The record is live before it is written, and stays live when the write fails.
Opened(S, p, actions, written) ==
  /\ up /\ ~AtCapacity(S)
  /\ p \in S \ (DOMAIN mem \union DOMAIN disk \union DOMAIN cut)
  /\ mem' = With(mem, p, Minted(actions))
  /\ disk' = IF written THEN Saved(mem', S) ELSE disk
  /\ UNCHANGED <<clock, up, cut, held, used>>

OpenGrant(p, actions, written) == Opened(Grants, p, actions, written)
OpenWindow(p, actions, written) == Opened(Windows, p, actions, written)

\* `grenz revoke <id>` and `grenz restore <id>`, the proxy running or not.
Cut(p) ==
  /\ p \in (DOMAIN mem \union DOMAIN disk) \ DOMAIN cut
  /\ cut' = With(cut, p, clock)
  /\ UNCHANGED <<clock, up, mem, disk, held, used>>

Restore(p) ==
  /\ p \in DOMAIN cut
  /\ cut' = Kept(cut, Permits \ {p})
  /\ UNCHANGED <<clock, up, mem, disk, held, used>>

\* A request is decided once, with the permits of that moment.
Ask(c, b) ==
  LET v == Verdict(InForce(b), b)
  IN /\ up /\ c \notin Asked
     /\ \/ /\ v.decision = "allow" /\ Performed(c, PermitOf(b, v)) /\ UNCHANGED held
        \/ /\ v.decision = "require_approval"
           /\ held' = With(held, c, [permit |-> PermitOf(b, v), asked |-> clock])
           /\ UNCHANGED used
     /\ UNCHANGED <<clock, up, mem, disk, cut>>

\* A human says yes before the prompt expires: budget, credential, forward.
Tap(c) ==
  /\ c \in DOMAIN held /\ clock < held[c].asked + ApprovalTtl
  /\ Performed(c, held[c].permit)
  /\ held' = Kept(held, Calls \ {c})
  /\ UNCHANGED <<clock, up, mem, disk, cut>>

Tick ==
  /\ clock < MaxClock
  /\ clock' = clock + 1
  /\ held' = Kept(held, {c \in DOMAIN held : clock' < held[c].asked + ApprovalTtl})
  /\ UNCHANGED <<up, mem, disk, cut, used>>

\* The process ends: its memory and the connections it holds are gone.
Stop ==
  /\ up
  /\ up' = FALSE /\ mem' = <<>> /\ held' = <<>>
  /\ UNCHANGED <<clock, disk, cut, used>>

\* Both stores load their file, drop what has ended and write it back.
Purged == Kept(disk, {p \in DOMAIN disk : disk[p].until > clock})

Start ==
  /\ ~up
  /\ up' = TRUE
  /\ mem' = Purged /\ disk' = Purged
  /\ UNCHANGED <<clock, cut, held, used>>

TimedInit ==
  /\ clock = 0 /\ up = TRUE
  /\ mem = <<>> /\ disk = <<>> /\ cut = <<>> /\ held = <<>> /\ used = {}

TimedNext ==
  \/ Tick \/ Stop \/ Start
  \/ \E p \in Permits :
       \/ Cut(p) \/ Restore(p)
       \/ \E S \in Scopes, written \in BOOLEAN : OpenGrant(p, S, written) \/ OpenWindow(p, S, written)
  \/ \E c \in Calls : Tap(c) \/ \E m \in Message : Ask(c, <<m>>)

(* What is over stays over: nothing is performed under a grant or a        *)
(* break-glass window once a prompt's lifetime has passed since it ran out *)
(* or was revoked - not after a restart, not when the file could not be    *)
(* written, not when another permit is opened later.                       *)
EndedMeansEnded == \A u \in used : u.at < u.ended + ApprovalTtl

\* What a document or a comment says and the code does not do: README.md, section 4.

(* cli/break-glass.ts:8 and :10: the window is time-boxed, and revoking    *)
(* its id ends it early.                                                   *)
EndedAtOnce == \A u \in used : u.at < u.ended

(* grant/store.ts:24: MAX_ACTIVE bounds memory and disk.                   *)
StoresAreBounded == \A S \in {Grants, Windows} : Cardinality(DOMAIN mem \intersect S) <= MaxActive
=============================================================================
