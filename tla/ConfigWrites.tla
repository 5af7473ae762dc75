----------------------------- MODULE ConfigWrites -----------------------------
(* Who writes grenz.yaml and the age vault. The running proxy mints agents     *)
(* into the file under a mutex, comparing it just before it renames; each      *)
(* command of the CLI is a process of its own that reads the file, edits the   *)
(* text and renames `grenz.yaml.tmp` over it, one temporary name for all, or   *)
(* (`grenz add`) writes it in place. The vault is rewritten in place.          *)
(*                                                                             *)
(* A text is what the file says: agents, upstreams, whether a plane is named.  *)
(* A token is named after the process that generated it.                       *)
EXTENDS FiniteSets

CONSTANTS
  Ids,        \* agents that may be named
  Ups,        \* upstreams that may be named
  Clis,       \* commands, each its own process
  Mints,      \* POST /console/agents calls
  FirstText,  \* grenz.yaml as `grenz init` and an operator left it
  OrgKey, OtherKey,  \* vault keys
  Inodes, None, Torn

VARIABLES
  config, tmp,  \* the inodes behind grenz.yaml and grenz.yaml.tmp
  disk,         \* inode -> a text, or Torn
  vault,        \* the keys in vault.age, or Torn
  cli, mint,    \* where each command and each mint is
  up, live,     \* the proxy, and the agents it would authenticate
  wanted,       \* history: the text that the reported changes amount to, one after the other
  stale,        \* history: a text was written over one it was not derived from
  mixed         \* history: the files that two commands wrote at once, or a dying one half wrote
vars == <<config, tmp, disk, vault, cli, mint, up, live, wanted, stale, mixed>>

Agent == [id : Ids, token : Clis \cup Mints \cup {None}, decoy : BOOLEAN]
Text == [agents : SUBSET Agent, ups : [Ups -> {"absent", "real", "decoy"}], plane : BOOLEAN]

Command ==
  [kind : {"rotate", "decoy", "undecoy"}, name : Ids]
  \cup [kind : {"decoy_up", "undecoy_up", "add"}, name : Ups]
  \cup [kind : {"connect", "device", "vault"}, name : {None}]
Mint(id) == [kind |-> "mint", name |-> id]

-------------------------------------------------------------------------------
(* config/rewrite.ts, and the schema that decides whether a file loads. *)

Named(text, id) == {a \in text.agents : a.id = id}

\* agentSchema and configSchema: one agent at least, and neither ids nor tokens shared.
Loadable(text) ==
  /\ text # Torn /\ text.agents # {}
  /\ \A a, b \in text.agents : (a.id = b.id \/ a.token = b.token) => a = b

\* `grenz init` leaves a file that loads, with tokens of its own and without a plane; and an
\* inode is left however many the commands, the file and a temporary file hold.
ConfigAssumption ==
  /\ None \notin Inodes \cup Clis \cup Mints /\ Clis \cap Mints = {}
  /\ Torn \notin Text /\ \A keys \in SUBSET {OrgKey, OtherKey} : keys # Torn
  /\ FirstText \in Text /\ Loadable(FirstText) /\ ~FirstText.plane
  /\ \A a \in FirstText.agents : a.token = None
  /\ \A held \in [Clis -> Inodes \cup {None}], i, j \in Inodes \cup {None} :
       \E k \in Inodes : k \notin {i, j} \cup {held[c] : c \in Clis}

\* Faulty variant: a decoy of the name is not taken for an agent.
TakenByNoDecoy(text, id) == \E a \in Named(text, id) : ~a.decoy

Taken(text, id) == Named(text, id) # {}

\* What an edit refuses; unforced, connect does not replace a plane.
Accepts(cmd, text) ==
  /\ text # Torn
  /\ CASE cmd.kind = "rotate" -> Named(text, cmd.name) # {}
       [] cmd.kind \in {"mint", "decoy"} -> ~Taken(text, cmd.name)
       [] cmd.kind = "undecoy" -> \E a \in Named(text, cmd.name) : a.decoy
       [] cmd.kind = "decoy_up" -> text.ups[cmd.name] = "absent"
       [] cmd.kind = "undecoy_up" -> text.ups[cmd.name] = "decoy"
       [] cmd.kind \in {"connect", "device"} -> ~text.plane
       [] cmd.kind = "add" -> TRUE

Rewritten(cmd, token, text) ==
  CASE cmd.kind = "rotate" ->
         [text EXCEPT !.agents = {IF a.id = cmd.name THEN [a EXCEPT !.token = token] ELSE a : a \in @}]
    [] cmd.kind \in {"mint", "decoy"} ->
         [text EXCEPT !.agents = @ \cup {[id |-> cmd.name, token |-> token, decoy |-> cmd.kind = "decoy"]}]
    [] cmd.kind = "undecoy" -> [text EXCEPT !.agents = @ \ Named(text, cmd.name)]
    [] cmd.kind = "decoy_up" -> [text EXCEPT !.ups[cmd.name] = "decoy"]
    [] cmd.kind = "undecoy_up" -> [text EXCEPT !.ups[cmd.name] = "absent"]
    [] cmd.kind \in {"connect", "device"} -> [text EXCEPT !.plane = TRUE]
    [] cmd.kind = "add" -> [text EXCEPT !.ups[cmd.name] = IF @ = "absent" THEN "real" ELSE @]

\* rotate and decoy start from a file that loads; all but rotate refuse to write one that
\* would not.
Validated(cmd, token, text) ==
  /\ cmd.kind \notin {"add", "connect", "device"} => Loadable(text)
  /\ cmd.kind # "rotate" => Loadable(Rewritten(cmd, token, text))

-------------------------------------------------------------------------------
Idle == [at |-> "idle"]
Ended == [at |-> "ended"]

Init ==
  /\ config \in Inodes /\ config = CHOOSE i \in Inodes : TRUE
  /\ tmp = None
  /\ disk = [i \in Inodes |-> IF i = config THEN FirstText ELSE Torn]
  /\ vault = {}
  /\ cli = [c \in Clis |-> Idle] /\ mint = [m \in Mints |-> Idle]
  /\ up = TRUE /\ live = FirstText.agents
  /\ wanted = FirstText /\ stale = FALSE /\ mixed = {}

Goto(c, at) == cli' = [cli EXCEPT ![c].at = at]
End(c) == cli' = [cli EXCEPT ![c] = Ended]

Writing(steps) == {c \in Clis : cli[c].at \in steps}
Fresh == CHOOSE i \in Inodes : i \notin {config, tmp} \cup {cli[c].ino : c \in Writing({"write", "rename", "in_place"})}

\* A change is reported: what all of them amount to, and whether the file still says what its
\* writer last found there.
Landed(cmd, token, found) ==
  /\ wanted' = Rewritten(cmd, token, wanted)
  /\ stale' = (stale \/ found # disk[config])

-------------------------------------------------------------------------------
(* The commands. *)

\* A command reads the file once (device: again once it is approved) and edits the text.
Begin(c) ==
  /\ cli[c] = Idle
  /\ \E cmd \in Command :
       LET base == disk[config] IN
       /\ cmd.kind # "vault" => Accepts(cmd, base) /\ Validated(cmd, c, base)
       /\ cli' = [cli EXCEPT ![c] =
            [cmd |-> cmd, base |-> base, keys |-> {}, ino |-> None,
             at |-> CASE cmd.kind \in {"connect", "device", "vault"} -> "load"
                      [] cmd.kind = "add" -> "truncate"
                      [] OTHER -> "open"]]
  /\ UNCHANGED <<config, tmp, disk, vault, mint, up, live, wanted, stale, mixed>>

\* Faulty variant: the file is written first, and the token after it.
LoadLater(c) ==
  /\ cli[c].at = "load"
  /\ cli' = [cli EXCEPT ![c] =
       IF vault = Torn THEN Ended
       ELSE [@ EXCEPT !.keys = vault, !.at = IF cli[c].cmd.kind = "vault" THEN "seal" ELSE "open"]]
  /\ UNCHANGED <<config, tmp, disk, vault, mint, up, live, wanted, stale, mixed>>

\* AgeFileCredentialStore.load(); a token that is there already is kept, except by device.
Load(c) ==
  /\ cli[c].at = "load"
  /\ cli' = [cli EXCEPT ![c] =
       IF vault = Torn THEN Ended
       ELSE [@ EXCEPT !.keys = vault,
                      !.at = IF cli[c].cmd.kind = "connect" /\ OrgKey \in vault THEN "open" ELSE "seal"]]
  /\ UNCHANGED <<config, tmp, disk, vault, mint, up, live, wanted, stale, mixed>>

\* persist(): the file is truncated in place, and then written.
Seal(c) ==
  /\ cli[c].at = "seal"
  /\ vault' = Torn
  /\ mixed' = IF vault = cli[c].keys THEN mixed ELSE mixed \cup {"vault"}
  /\ Goto(c, "sealing")
  /\ UNCHANGED <<config, tmp, disk, mint, up, live, wanted, stale>>

Sealed(c) ==
  /\ cli[c].at = "sealing"
  /\ \E out \in {cli[c].keys \cup {IF cli[c].cmd.kind = "vault" THEN OtherKey ELSE OrgKey}, Torn} :
       /\ vault = Torn => out # Torn
       /\ vault' = out
  /\ IF cli[c].cmd.kind = "vault" THEN End(c) ELSE Goto(c, "open")
  /\ UNCHANGED <<config, tmp, disk, mint, up, live, wanted, stale, mixed>>

\* The temporary file is created, or truncated if another command left or holds it.
Open(c) ==
  /\ cli[c].at = "open"
  /\ LET i == IF tmp = None THEN Fresh ELSE tmp IN
       /\ disk' = [disk EXCEPT ![i] = Torn]
       /\ tmp' = i
       /\ cli' = [cli EXCEPT ![c].at = "write", ![c].ino = i]
  /\ mixed' = IF Writing({"write", "rename"}) = {} THEN mixed ELSE mixed \cup {"config"}
  /\ UNCHANGED <<config, vault, mint, up, live, wanted, stale>>

\* The text goes where the descriptor points; over another's text it may leave a tail of it.
Write(c) ==
  /\ cli[c].at = "write"
  /\ \E out \in {Rewritten(cli[c].cmd, c, cli[c].base), Torn} :
       /\ disk[cli[c].ino] = Torn => out # Torn
       /\ disk' = [disk EXCEPT ![cli[c].ino] = out]
  /\ Goto(c, "rename")
  /\ UNCHANGED <<config, tmp, vault, mint, up, live, wanted, stale, mixed>>

\* With the temporary name gone the rename throws.
Rename(c) ==
  /\ cli[c].at = "rename"
  /\ IF tmp = None THEN UNCHANGED <<config, tmp, wanted, stale>>
     ELSE config' = tmp /\ tmp' = None /\ Landed(cli[c].cmd, c, cli[c].base)
  /\ End(c)
  /\ UNCHANGED <<disk, vault, mint, up, live, mixed>>

\* `grenz add` truncates grenz.yaml itself.
Truncate(c) ==
  /\ cli[c].at = "truncate"
  /\ disk' = [disk EXCEPT ![config] = Torn]
  /\ Landed(cli[c].cmd, c, cli[c].base)
  /\ cli' = [cli EXCEPT ![c].at = "in_place", ![c].ino = config]
  /\ mixed' = IF Writing({"in_place"}) = {} THEN mixed ELSE mixed \cup {"in_place"}
  /\ UNCHANGED <<config, tmp, vault, mint, up, live>>

WriteInPlace(c) ==
  /\ cli[c].at = "in_place"
  /\ disk' = [disk EXCEPT ![cli[c].ino] = Rewritten(cli[c].cmd, c, cli[c].base)]
  /\ End(c)
  /\ UNCHANGED <<config, tmp, vault, mint, up, live, wanted, stale, mixed>>

\* A command is interrupted between any two calls.
Die(c) ==
  /\ cli[c] \notin {Idle, Ended}
  /\ mixed' = mixed \cup (IF cli[c].at = "in_place" THEN {"in_place"} ELSE {})
                    \cup (IF cli[c].at = "sealing" THEN {"vault"} ELSE {})
  /\ End(c)
  /\ UNCHANGED <<config, tmp, disk, vault, mint, up, live, wanted, stale>>

-------------------------------------------------------------------------------
(* The proxy: the console's mint, and starts. *)

Locked == \E m \in Mints : mint[m].at \in {"hash", "checked"}

\* Under the mutex: an id the live store has is refused, then the file is read.
MintRead(m) ==
  /\ up /\ mint[m] = Idle /\ ~Locked
  /\ \E id \in Ids :
       /\ \A a \in live : a.id # id
       /\ mint' = [mint EXCEPT ![m] = [at |-> "hash", cmd |-> Mint(id), base |-> disk[config], found |-> None]]
  /\ UNCHANGED <<config, tmp, disk, vault, cli, up, live, wanted, stale, mixed>>

\* Faulty variant: the file is not read again.
MintCompareBlind(m) ==
  /\ mint[m].at = "hash"
  /\ mint' = [mint EXCEPT ![m] =
       IF Accepts(@.cmd, @.base) THEN [@ EXCEPT !.at = "checked", !.found = disk[config]] ELSE Ended]
  /\ UNCHANGED <<config, tmp, disk, vault, cli, up, live, wanted, stale, mixed>>

\* The token is hashed, the text edited, and a temporary file of its own written and
\* synced; the target must still be what was read.
MintCompare(m) ==
  /\ mint[m].at = "hash"
  /\ mint' = [mint EXCEPT ![m] =
       IF Accepts(@.cmd, @.base) /\ disk[config] = @.base
       THEN [@ EXCEPT !.at = "checked", !.found = disk[config]] ELSE Ended]
  /\ UNCHANGED <<config, tmp, disk, vault, cli, up, live, wanted, stale, mixed>>

\* The rename, the live store and the answer are one synchronous call. What another
\* process put there since the comparison is written over.
MintRename(m) ==
  /\ mint[m].at = "checked"
  /\ config' = Fresh
  /\ disk' = [disk EXCEPT ![Fresh] = Rewritten(mint[m].cmd, m, mint[m].base)]
  /\ live' = live \cup {[id |-> mint[m].cmd.name, token |-> m, decoy |-> FALSE]}
  /\ mint' = [mint EXCEPT ![m] = Ended]
  /\ Landed(mint[m].cmd, m, mint[m].found)
  /\ UNCHANGED <<tmp, vault, cli, up, mixed>>

\* The proxy stops, or is killed between any two steps.
Stop ==
  /\ up
  /\ up' = FALSE /\ live' = {}
  /\ mint' = [m \in Mints |-> IF mint[m] = Idle THEN Idle ELSE Ended]
  /\ UNCHANGED <<config, tmp, disk, vault, cli, wanted, stale, mixed>>

\* A file that does not load starts nothing.
Start ==
  /\ ~up /\ Loadable(disk[config])
  /\ up' = TRUE /\ live' = disk[config].agents
  /\ UNCHANGED <<config, tmp, disk, vault, cli, mint, wanted, stale, mixed>>

Next ==
  \/ \E c \in Clis :
       \/ Begin(c) \/ Load(c) \/ Seal(c) \/ Sealed(c)
       \/ Open(c) \/ Write(c) \/ Rename(c) \/ Truncate(c) \/ WriteInPlace(c) \/ Die(c)
  \/ \E m \in Mints : MintRead(m) \/ MintCompare(m) \/ MintRename(m)
  \/ Stop \/ Start

Spec == Init /\ [][Next]_vars

-------------------------------------------------------------------------------
(* Properties. *)

ConfigMixed == mixed \cap {"config", "in_place"} # {} \/ Writing({"in_place"}) # {}
VaultMixed == "vault" \in mixed \/ Writing({"sealing"}) # {}

\* atomic-write.ts:7-10: grenz.yaml is always what the reported changes amount to, one after
\* the other - a mint drops nobody's change and two mints keep both - until a command
\* writes a copy that is no longer current, which nothing but the mint looks for.
NothingIsLost == stale \/ ConfigMixed \/ disk[config] = wanted

\* console.ts:501-503: whatever is minted, planted, rotated or removed meanwhile, and
\* whoever writes a stale copy, the next `grenz run` can load the file.
StillLoads == ConfigMixed \/ Loadable(disk[config])

\* connect.ts:14-16: grenz.yaml never names a vault key that is not there, wherever a
\* command stops.
SourceHasItsToken ==
  ~VaultMixed /\ disk[config] # Torn => (disk[config].plane => OrgKey \in vault)

\* What a document or a comment says and the code does not do: README.md, section 4.

\* atomic-write.ts:7, "201, it survives restart".
MintsSurvive == \A a \in live : a.token \in Mints => disk[config] = Torn \/ a \in disk[config].agents

\* rotate.ts:53, "so a crash never leaves a half-written config": no `grenz add` is involved here.
NeverHalfWritten == "in_place" \notin mixed /\ Writing({"in_place"}) = {} => disk[config] # Torn

\* connect.ts:312-314: "a rewrite of a stale copy would silently drop anything changed while
\* this command waited". Given a URL, connect waits for its token at a prompt and does so.
ConnectDropsNothing ==
  [][\A c \in Clis :
       cli[c].at = "rename" /\ cli[c].cmd.kind = "connect" /\ config' # config =>
         ConfigMixed \/ disk[config] = cli[c].base]_vars
===============================================================================
