------------------------------ MODULE KillSwitch ------------------------------
(* The local kill-switch: revoke/store.ts, the commands of cli/revoke.ts and   *)
(* the start of cli/run.ts.                                                    *)
(*                                                                             *)
(* One file, several processes. The running proxy holds the list in memory and *)
(* rewrites the whole file on every change. A command asks the proxy first; if *)
(* nobody answers it opens a store of its own on the same file and rewrites it *)
(* too. Each rewrite is three system calls, all on one temporary name:         *)
(* truncate `revocations.json.tmp`, write it, rename it over the file. Nothing *)
(* locks, and a process can die between any two of them.                       *)
(*                                                                             *)
(* Inodes are explicit: a file that is renamed while another process has it    *)
(* open goes on being written under its new name.                              *)
EXTENDS FiniteSets

CONSTANTS
  Agents,
  Clis,      \* `grenz revoke` and `grenz restore` processes
  Proxy,     \* the `grenz run` process
  Inodes,    \* enough for the file, the temporary file and every writer
  Overlap,   \* whether a command or a start may begin while another is under way
  None, Torn \* no inode; the content of a truncated or half-overwritten file

OverlapAssumption == Overlap \in BOOLEAN
ProxyAssumption == Proxy \notin Clis
FileAssumption ==
  /\ None \notin Inodes /\ \A set \in SUBSET Agents : set # Torn
  /\ \A i \in Inodes \cup {None} : Inodes \ {i} # {}

Procs == Clis \cup {Proxy}
Ops == {"revoke", "restore"}

VARIABLES
  file, tmp,  \* the inodes behind revocations.json and revocations.json.tmp
  data,       \* inode -> the set of agents it lists, or Torn
  phase,      \* the proxy: down, loaded (the list is read), up (it listens)
  live,       \* the proxy's list in memory
  cmd,        \* each command: idle, waiting for the proxy, offline, writing
  job,        \* each process's rewrite of the file
  promised,   \* history: agents the operator was told are cut off
  cleared     \* history: agents the operator was told are restored
disk == <<file, tmp, data>>
vars == <<disk, phase, live, cmd, job, promised, cleared>>

NoJob == [at |-> "idle"]
Free == [step |-> "idle"]

TypeOK ==
  /\ file \in Inodes \cup {None} /\ tmp \in Inodes \cup {None}
  /\ data \in [Inodes -> (SUBSET Agents) \cup {Torn}]
  /\ phase \in {"down", "loaded", "up"}
  /\ live \in SUBSET Agents
  /\ \A c \in Clis : cmd[c] = Free \/
       cmd[c] \in [step : {"waiting", "offline", "writing"}, op : Ops, agent : Agents]
  /\ \A p \in Procs : job[p] = NoJob \/
       job[p] \in [at : {"open", "write", "rename"}, ino : Inodes \cup {None},
                   set : SUBSET Agents, op : Ops, agent : Agents, asker : Procs]
  /\ promised \subseteq Agents /\ cleared \subseteq Agents

-------------------------------------------------------------------------------
(* The store. *)

\* load: an absent file is an empty list, an unreadable one is refused.
Readable == ~(file # None /\ data[file] = Torn)
Listed == IF file = None THEN {} ELSE data[file]

\* Faulty variant: lifting leaves the record in place.
ApplyNoDelete(op, a, set) == set \cup {a}

Apply(op, a, set) == IF op = "revoke" THEN set \cup {a} ELSE set \ {a}

\* restore of an agent that is not listed does not touch the file.
Writes(op, a, set) == op = "revoke" \/ a \in set

Rewrite(p, op, a, set, asker) ==
  job' = [job EXCEPT ![p] = [at |-> "open", ino |-> None, set |-> set,
                             op |-> op, agent |-> a, asker |-> asker]]

Held == {job[p].ino : p \in {q \in Procs : job[q].at \in {"write", "rename"}}}
Fresh == CHOOSE i \in Inodes : i \notin Held \cup {file, tmp}

\* Faulty variant: the file itself is truncated and written.
OpenInPlace(p) ==
  /\ job[p].at = "open"
  /\ LET i == IF file = None THEN Fresh ELSE file IN
       /\ data' = [data EXCEPT ![i] = Torn]
       /\ tmp' = i
       /\ job' = [job EXCEPT ![p].at = "write", ![p].ino = i]
  /\ UNCHANGED <<file, phase, live, cmd, promised, cleared>>

\* persist, first call: create or truncate the temporary file.
Open(p) ==
  /\ job[p].at = "open"
  /\ LET i == IF tmp = None THEN Fresh ELSE tmp IN
       /\ data' = [data EXCEPT ![i] = Torn]
       /\ tmp' = i
       /\ job' = [job EXCEPT ![p].at = "write", ![p].ino = i]
  /\ UNCHANGED <<file, phase, live, cmd, promised, cleared>>

\* Second call: the content goes where the descriptor points. Over another
\* writer's longer text it leaves that text's tail.
Write(p) ==
  /\ job[p].at = "write"
  /\ \E out \in {job[p].set, Torn} :
       /\ data[job[p].ino] \in {Torn, job[p].set} => out = job[p].set
       /\ data' = [data EXCEPT ![job[p].ino] = out]
  /\ job' = [job EXCEPT ![p].at = "rename"]
  /\ UNCHANGED <<file, tmp, phase, live, cmd, promised, cleared>>

\* A command other than the one that asked is working on the agent.
Contested(j, op) ==
  \/ \E c \in Clis \ {j.asker} : cmd[c] # Free /\ cmd[c].op = op /\ cmd[c].agent = j.agent
  \/ \E p \in Procs : job[p] # NoJob /\ job[p] # j /\ job[p].op = op /\ job[p].agent = j.agent

\* The operator hears of it. What another command is undoing meanwhile is not
\* held against anyone.
Told(j) ==
  IF j.op = "revoke"
  THEN /\ promised' = IF Contested(j, "restore") THEN promised ELSE promised \cup {j.agent}
       /\ UNCHANGED cleared
  ELSE /\ cleared' = IF Contested(j, "revoke") THEN cleared ELSE cleared \cup {j.agent}
       /\ UNCHANGED promised

Settled(asker) == IF asker = Proxy THEN cmd ELSE [cmd EXCEPT ![asker] = Free]

\* Third call. With the temporary name gone it throws: the proxy answers 500
\* and the command dies, and neither promises anything. The proxy's memory
\* keeps the change.
Rename(p) ==
  /\ job[p].at = "rename"
  /\ IF tmp = None
     THEN UNCHANGED <<disk, promised, cleared>>
     ELSE file' = tmp /\ tmp' = None /\ UNCHANGED data /\ Told(job[p])
  /\ job' = [job EXCEPT ![p] = NoJob]
  /\ cmd' = Settled(job[p].asker)
  /\ UNCHANGED <<phase, live>>

-------------------------------------------------------------------------------
(* The processes. *)

Quiet ==
  /\ \A c \in Clis : cmd[c] = Free
  /\ \A p \in Procs : job[p] = NoJob
  /\ phase # "loaded"

May == Overlap \/ Quiet

Init ==
  /\ file = None /\ tmp = None /\ data = [i \in Inodes |-> {}]
  /\ phase = "down" /\ live = {}
  /\ cmd = [c \in Clis |-> Free] /\ job = [p \in Procs |-> NoJob]
  /\ promised = {} /\ cleared = {}

\* From here on the operator no longer relies on what it was told before.
Withdraw(op, a) ==
  IF op = "revoke" THEN cleared' = cleared \ {a} /\ UNCHANGED promised
                   ELSE promised' = promised \ {a} /\ UNCHANGED cleared

\* A command starts and calls the proxy. Listening and free, the proxy changes
\* its memory and starts to persist; not listening, it is unreachable.
Call(c) ==
  /\ cmd[c] = Free /\ May
  /\ phase = "up" => job[Proxy] = NoJob
  /\ \E op \in Ops, a \in Agents :
       /\ Withdraw(op, a)
       /\ IF phase # "up"
          THEN /\ cmd' = [cmd EXCEPT ![c] = [step |-> "offline", op |-> op, agent |-> a]]
               /\ UNCHANGED <<live, job>>
          ELSE /\ live' = Apply(op, a, live)
               /\ IF Writes(op, a, live)
                  THEN /\ Rewrite(Proxy, op, a, Apply(op, a, live), c)
                       /\ cmd' = [cmd EXCEPT ![c] = [step |-> "waiting", op |-> op, agent |-> a]]
                  ELSE UNCHANGED <<job, cmd>>
  /\ UNCHANGED <<disk, phase>>

\* Faulty variant: the command writes its own record over the list.
OpenStoreBlank(c) ==
  /\ cmd[c] # Free /\ cmd[c].step = "offline"
  /\ Readable
  /\ Rewrite(c, cmd[c].op, cmd[c].agent, Apply(cmd[c].op, cmd[c].agent, {}), c)
  /\ cmd' = [cmd EXCEPT ![c].step = "writing"]
  /\ UNCHANGED <<disk, phase, live, promised, cleared>>

\* Nobody answered: the command reads the file itself, and gives up on one it
\* cannot read.
OpenStore(c) ==
  /\ cmd[c] # Free /\ cmd[c].step = "offline"
  /\ IF Readable /\ Writes(cmd[c].op, cmd[c].agent, Listed)
     THEN /\ Rewrite(c, cmd[c].op, cmd[c].agent, Apply(cmd[c].op, cmd[c].agent, Listed), c)
          /\ cmd' = [cmd EXCEPT ![c].step = "writing"]
     ELSE cmd' = [cmd EXCEPT ![c] = Free] /\ UNCHANGED job
  /\ UNCHANGED <<disk, phase, live, promised, cleared>>

\* A tripwire, a response or a decoy revokes inside the proxy, on a request.
Trip ==
  /\ phase = "up" /\ job[Proxy] = NoJob
  /\ \E a \in Agents \ live :
       /\ live' = live \cup {a}
       /\ Rewrite(Proxy, "revoke", a, live \cup {a}, Proxy)
       /\ Withdraw("revoke", a)
  /\ UNCHANGED <<disk, phase, cmd>>

\* `grenz run` reads the list; on a corrupt one it refuses to start.
Start ==
  /\ phase = "down" /\ May
  /\ Readable
  /\ phase' = "loaded" /\ live' = Listed
  /\ UNCHANGED <<disk, cmd, job, promised, cleared>>

\* It listens only after everything else is loaded and the socket is bound.
Listen ==
  /\ phase = "loaded"
  /\ phase' = "up"
  /\ UNCHANGED <<disk, live, cmd, job, promised, cleared>>

\* The proxy stops or is killed, between any two steps. The command waiting for
\* it sees its call fail and takes it for unreachable.
ProxyDies ==
  /\ phase # "down"
  /\ phase' = "down" /\ live' = {}
  /\ job' = [job EXCEPT ![Proxy] = NoJob]
  /\ cmd' = [c \in Clis |-> IF cmd[c] # Free /\ cmd[c].step = "waiting"
                            THEN [cmd[c] EXCEPT !.step = "offline"] ELSE cmd[c]]
  /\ UNCHANGED <<disk, promised, cleared>>

\* A command is interrupted; a call already made is still carried out.
CommandDies(c) ==
  /\ cmd[c] # Free /\ cmd[c].step # "waiting"
  /\ cmd' = [cmd EXCEPT ![c] = Free] /\ job' = [job EXCEPT ![c] = NoJob]
  /\ UNCHANGED <<disk, phase, live, promised, cleared>>

Next ==
  \/ \E p \in Procs : Open(p) \/ Write(p) \/ Rename(p)
  \/ \E c \in Clis : Call(c) \/ OpenStore(c) \/ CommandDies(c)
  \/ Trip \/ Start \/ Listen \/ ProxyDies

Spec == Init /\ [][Next]_vars

-------------------------------------------------------------------------------
(* Properties. *)

\* README.md:789: it survives a restart. From the moment the operator is told,
\* a file a proxy could start from lists the agent, whoever rewrites it or dies
\* rewriting it.
CutOffSurvives == Readable => promised \subseteq Listed

\* The other direction: an agent the operator was told is restored is not cut
\* off by a record that came back.
RestoresAreKept ==
  /\ phase = "up" => cleared \cap live = {}
  /\ Readable => cleared \cap Listed = {}

\* revoke/store.ts:95-96: whoever died, and whenever, once nobody is writing
\* the file is whole and the next proxy can start.
NeverLeftTorn == (\A p \in Procs : job[p] = NoJob) => Readable
===============================================================================
