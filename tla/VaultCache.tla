------------------------------ MODULE VaultCache ------------------------------
(* vault/hashicorp-vault.ts: one credential read from HashiCorp Vault. A value *)
(* is kept for a time to live, a miss or an error never, and callers that come *)
(* while a fetch is under way wait for that one. The backend reads what it     *)
(* answers some time before the answer arrives, if it arrives in time.         *)
EXTENDS Naturals

CONSTANTS
  Callers,   \* get() calls that may wait at once
  Values,    \* what the credential may be rotated to
  Absent,    \* 404, a deleted version, or no such field
  Failed,    \* unreachable, redirected elsewhere, or an answer of the wrong shape
  Ttl,       \* cache_ttl_seconds
  Timeout,   \* a fetch and the one redirect it may follow
  Horizon    \* bound: the last tick

VaultAssumption ==
  {Ttl, Timeout} \subseteq Nat /\ Absent \notin Values /\ Failed \notin Values \cup {Absent}

VARIABLES
  secret,  \* what the backend holds
  last,    \* history: the last tick each value was what the backend holds
  cache,   \* the values kept, one at most, with their time
  flight,  \* the fetches under way, one at most: when it began and what the backend answers
  caller,  \* [Callers -> idle, waiting, or an answer and its time]
  now
vars == <<secret, last, cache, flight, caller, now>>

Held == Values \cup {Absent}
Idle == [at |-> "idle"]
Waiting == [at |-> "waiting"]
Answer(v) == [at |-> "answered", value |-> v, time |-> now]

Init ==
  /\ secret \in Held /\ last = [v \in Held |-> 0]
  /\ cache = {} /\ flight = {}
  /\ caller = [c \in Callers |-> Idle]
  /\ now = 0

Fresh == {k \in cache : now - k.time < Ttl}

\* get(): a fresh value, the fetch under way, or a new one.
Get(c) ==
  /\ caller[c] # Waiting
  /\ \/ \E k \in Fresh : caller' = [caller EXCEPT ![c] = Answer(k.value)] /\ UNCHANGED flight
     \/ /\ Fresh = {}
        /\ caller' = [caller EXCEPT ![c] = Waiting]
        /\ flight' = IF flight = {} THEN {[began |-> now, answer |-> {}]} ELSE flight
  /\ UNCHANGED <<secret, last, cache, now>>

\* The backend looks up what it will answer.
Lookup ==
  /\ \E f \in flight : f.answer = {} /\ flight' = {[f EXCEPT !.answer = {secret}]}
  /\ UNCHANGED <<secret, last, cache, caller, now>>

\* Faulty variant: a miss is kept like a value.
KeepsMisses(v) == v \in Held

Keeps(v) == v \in Values

\* The answer, or an error, for everyone who waits.
Arrive ==
  /\ \E f \in flight : \E v \in f.answer \cup {Failed} :
       /\ cache' = IF Keeps(v) THEN {[value |-> v, time |-> now]} ELSE cache
       /\ caller' = [c \in Callers |-> IF caller[c] = Waiting THEN Answer(v) ELSE caller[c]]
  /\ flight' = {}
  /\ UNCHANGED <<secret, last, now>>

\* An operator writes, rotates or deletes the credential.
Rotate ==
  /\ \E v \in Held \ {secret} : secret' = v /\ last' = [last EXCEPT ![v] = now]
  /\ UNCHANGED <<cache, flight, caller, now>>

\* No fetch outlives its timeout.
Tick ==
  /\ now < Horizon
  /\ \A f \in flight : now < f.began + Timeout
  /\ now' = now + 1 /\ last' = [last EXCEPT ![secret] = now + 1]
  /\ UNCHANGED <<secret, cache, flight, caller>>

Next == (\E c \in Callers : Get(c)) \/ Lookup \/ Arrive \/ Rotate \/ Tick

Spec == Init /\ [][Next]_vars

-------------------------------------------------------------------------------
(* Properties. *)

\* A credential that is injected was the backend's at most a time to live and a fetch ago,
\* however many callers share the fetch; and a missing key is never reported longer than a
\* fetch after it was put right (hashicorp-vault.ts:33-34).
AnswersAreRecent ==
  \A c \in Callers : caller[c].at = "answered" /\ caller[c].value # Failed =>
    caller[c].time <= last[caller[c].value] + Timeout
                        + (IF caller[c].value = Absent \/ Ttl = 0 THEN 0 ELSE Ttl - 1)
===============================================================================
