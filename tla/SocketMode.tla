------------------------------ MODULE SocketMode ------------------------------
(* Who owns the agent socket: clearIfStale and bindWithRecovery of             *)
(* run/socket.ts, and the order in which cli/run.ts opens its two listeners.   *)
(* Several `grenz run` processes may start on one path. Each inspects the      *)
(* path, asks whether its owner answers, unlinks it if not, listens on a name  *)
(* of its own, links that into place, and then takes the admin port. Every     *)
(* step is a system call the others interleave with.                           *)
EXTENDS Naturals, FiniteSets

CONSTANTS
  Proxies,
  Overlap,    \* several processes may be starting at once
  Deaths,     \* a process may die or be stopped and leave its socket behind
  None,       \* nothing at the path
  Dead,       \* a socket nobody listens on
  Regular     \* a file that is not a socket (a mistyped listen.socket)

ASSUME SwitchAssumption == Overlap \in BOOLEAN /\ Deaths \in BOOLEAN
ASSUME PathAssumption ==
  /\ None \notin Proxies /\ Dead \notin Proxies /\ Regular \notin Proxies
  /\ None # Dead /\ None # Regular /\ Dead # Regular

VARIABLES
  path,  \* what the configured path names: a proxy's live socket, or one of the above
  st,    \* where each process is
  port   \* the process that holds the admin port, or None
vars == <<path, st, port>>

Busy == {"inspect", "probe", "unlink", "stage", "link", "port"}

TypeOK ==
  /\ path \in Proxies \cup {None, Dead, Regular}
  /\ st \in [Proxies -> Busy \cup {"off", "refused", "serving"}]
  /\ port \in {p \in Proxies : st[p] = "serving"} \cup {None}

Init ==
  /\ path \in {None, Regular} \cup (IF Deaths THEN {Dead} ELSE {})
  /\ st = [p \in Proxies |-> "off"]
  /\ port = None

Goto(p, s) == st' = [st EXCEPT ![p] = s]

Run(p) ==
  /\ st[p] \in {"off", "refused"}
  /\ Overlap \/ \A q \in Proxies : st[q] \notin Busy
  /\ Goto(p, "inspect")
  /\ UNCHANGED <<path, port>>

\* lstat: nothing there, something to ask, or something never to touch.
Inspect(p) ==
  /\ st[p] = "inspect"
  /\ \/ path = None /\ Goto(p, "stage")
     \/ path = Regular /\ Goto(p, "refused")
     \/ path \in Proxies \cup {Dead} /\ Goto(p, "probe")
  /\ UNCHANGED <<path, port>>

\* Faulty variant: the owner is not asked.
ProbeNot(p) ==
  /\ st[p] = "probe"
  /\ Goto(p, "unlink")
  /\ UNCHANGED <<path, port>>

\* Faulty variant: an owner that does not answer is waited for.
ProbeShy(p) ==
  /\ st[p] = "probe"
  /\ Goto(p, "refused")
  /\ UNCHANGED <<path, port>>

\* The connect probe: a live owner is left alone.
Probe(p) ==
  /\ st[p] = "probe"
  /\ Goto(p, IF path \in Proxies THEN "refused" ELSE "unlink")
  /\ UNCHANGED <<path, port>>

\* unlink works on the name, not on the socket that was probed; a name that is
\* gone is an error.
Unlink(p) ==
  /\ st[p] = "unlink"
  /\ IF path = None THEN Goto(p, "refused") ELSE Goto(p, "stage")
  /\ path' = None
  /\ UNCHANGED port

\* The listener is bound under the private staging name.
Stage(p) ==
  /\ st[p] = "stage"
  /\ Goto(p, "link")
  /\ UNCHANGED <<path, port>>

\* link: fails when anything holds the name.
Link(p) ==
  /\ st[p] = "link"
  /\ IF path = None
     THEN path' = p /\ Goto(p, "port")
     ELSE Goto(p, "refused") /\ UNCHANGED path
  /\ UNCHANGED port

\* A process that ends takes its listeners with it; the name stays.
Gone(p) == IF path = p THEN Dead ELSE path

\* The admin listener. A taken port throws, and the process ends.
TakePort(p) ==
  /\ st[p] = "port"
  /\ IF port = None
     THEN port' = p /\ Goto(p, "serving") /\ UNCHANGED path
     ELSE path' = Gone(p) /\ Goto(p, "refused") /\ UNCHANGED port

\* A crash, or a stop: whether the listener's own clean-up takes the published
\* name along is up to the runtime.
Die(p) ==
  /\ Deaths /\ st[p] \in Busy \cup {"serving"}
  /\ path' \in {Gone(p)} \cup (IF st[p] = "serving" /\ path = p THEN {None} ELSE {})
  /\ port' = IF port = p THEN None ELSE port
  /\ Goto(p, "off")

Step(p) == Inspect(p) \/ Probe(p) \/ Unlink(p) \/ Stage(p) \/ Link(p) \/ TakePort(p)
Next == \E p \in Proxies : Run(p) \/ Step(p) \/ Die(p)

\* A process that is starting goes on; nobody is obliged to start one.
Spec == Init /\ [][Next]_vars /\ \A p \in Proxies : WF_vars(Step(p))

-------------------------------------------------------------------------------
(* Properties. *)

\* README.md:975-977: the proxy the admin port reaches is the one the agents'
\* socket reaches. Nothing takes the path from under it.
AdminReachesServer == \A p \in Proxies : st[p] = "serving" => path = p

\* A socket left behind by a crash is recovered from: a process that starts over
\* one ends with some proxy behind the path, unless it dies itself.
Recovers ==
  \A p \in Proxies :
    (st[p] = "inspect" /\ path # Regular) ~> (path \in Proxies \/ st[p] = "off")
===============================================================================
