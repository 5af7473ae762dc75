----------------------------- MODULE ApprovalGate -----------------------------
(***************************************************************************)
(* proxy/server.ts awaitApproval() around the broker, with the approval    *)
(* memory of approvals/memory.ts in front of it: what happens to a request *)
(* a policy decided `require_approval` for.  Code between two awaits is    *)
(* one action.  The awaits are the notifier's announcement and the         *)
(* broker's promise; during both, decisions, timers, disconnects, policy   *)
(* reloads and other requests run.                                         *)
(*                                                                         *)
(* A request asks once, and the approval it is held under bears its id.    *)
(* The clock is kept as the number of decisions remembered so far: `turn`  *)
(* dates a memory entry, and every entry dated up to `horizon` has expired.*)
(***************************************************************************)
EXTENDS ApprovalBroker, FiniteSetsExt

CONSTANTS
  Keys,        \* (agentId, tool, action, target) identities of the memory
  Quorums,     \* approvalQuorum() of the policies in force
  MaxPending,  \* the broker's maxPending
  MaxEntries   \* memory.ts MAX_ENTRIES

ASSUME GateAssumption ==
  /\ Quorums \subseteq QuorumArgs
  /\ MaxPending \in Nat
  /\ MaxEntries \in Nat

VARIABLES
  stage,    \* [Ids -> where awaitApproval() is]
  ask,      \* [Ids -> the arguments it was called with]
  gone,     \* requests whose client has disconnected (signal.aborted)
  answer,   \* [Ids -> what awaitApproval() returned]
  memory,   \* [Keys -> MemoryEntry]
  turn,     \* decisions remembered so far
  horizon   \* the latest turn whose entries have outlived ttlMs

callVars == <<stage, ask, gone, answer>>
memoryVars == <<memory, turn, horizon>>
gateVars == <<vars, callVars, memoryVars>>

Blocked == {"remembered_deny", "capacity", "denied", "expired", "abandoned"}
Released == {"approved", "remembered_grant"}

Ask == [key : Keys, useMemory : BOOLEAN, quorum : Quorums]
NoAsk == [key |-> NoOne, useMemory |-> FALSE, quorum |-> 0]

Outcomes == {"approved", "denied"}
MemoryEntry == [outcome : Outcomes \union {"none"}, turn : Nat]
NoEntry == [outcome |-> "none", turn |-> 0]

GateTypeOK ==
  /\ TypeOK
  /\ stage \in [Ids -> {"idle", "announcing", "waiting", "answered"}]
  /\ ask \in [Ids -> Ask \union {NoAsk}]
  /\ gone \subseteq Ids
  /\ answer \in [Ids -> Blocked \union Released \union {"none"}]
  /\ memory \in [Keys -> MemoryEntry]
  /\ turn \in Nat
  /\ horizon \in 0..turn

GateInit ==
  /\ Init
  /\ stage = [id \in Ids |-> "idle"]
  /\ ask = [id \in Ids |-> NoAsk]
  /\ gone = {}
  /\ answer = [id \in Ids |-> "none"]
  /\ memory = [key \in Keys |-> NoEntry]
  /\ turn = 0
  /\ horizon = 0

-----------------------------------------------------------------------------
\* The approval memory.

Kept(mem) == {key \in Keys : mem[key].outcome # "none"}

\* The first key of the Map in insertion order.
Oldest(mem) == CHOOSE key \in Kept(mem) : \A k \in Kept(mem) : mem[key].turn <= mem[k].turn

Evict(mem) ==
  IF Cardinality(Kept(mem)) > MaxEntries THEN [mem EXCEPT ![Oldest(mem)] = NoEntry] ELSE mem

\* remember(): delete and re-insert at the end, then drop the oldest if too many.
Remember(key, outcomeOf) ==
  /\ turn' = turn + 1
  /\ memory' = Evict([memory EXCEPT ![key] = [outcome |-> outcomeOf, turn |-> turn + 1]])
  /\ UNCHANGED horizon

RememberIf(wanted, key, outcomeOf) ==
  IF wanted THEN Remember(key, outcomeOf) ELSE UNCHANGED memoryVars

Live(key) == memory[key].outcome # "none" /\ memory[key].turn > horizon

\* recall(): the live outcome; what useMemory = FALSE skips is never read.
Recalled(a) == IF a.useMemory /\ Live(a.key) THEN memory[a.key].outcome ELSE "none"

\* The sweep recall() does on the key it reads.
Swept(a) ==
  /\ memory' = IF a.useMemory /\ ~Live(a.key) THEN [memory EXCEPT ![a.key] = NoEntry] ELSE memory
  /\ UNCHANGED <<turn, horizon>>

\* Time passes: the entries up to some date outlive the window.
Lapse ==
  /\ \E date \in (horizon + 1)..turn : horizon' = date
  /\ UNCHANGED <<vars, callVars, memory, turn>>

\* A policy reload (--watch, console PUT, fetched policy) clears the memory.
Clear ==
  /\ Kept(memory) # {}
  /\ memory' = [key \in Keys |-> NoEntry]
  /\ UNCHANGED <<vars, callVars, turn, horizon>>

-----------------------------------------------------------------------------
\* awaitApproval() up to its first await.

Answer(id, a) ==
  /\ stage' = [stage EXCEPT ![id] = "answered"]
  /\ answer' = [answer EXCEPT ![id] = a]

Called(id, a) ==
  /\ stage[id] = "idle"
  /\ ask' = [ask EXCEPT ![id] = a]
  /\ UNCHANGED gone

\* A remembered "yes" taken for a dual-control request.
SkipsPromptAnyQuorum(a) == Recalled(a) = "approved"

\* A remembered "yes" counts for a quorum of one only.
SkipsPrompt(a) == Recalled(a) = "approved" /\ a.quorum <= 1

RecallGrant(id, a) ==
  /\ Called(id, a)
  /\ SkipsPrompt(a)
  /\ Answer(id, "remembered_grant")
  /\ UNCHANGED <<vars, memoryVars>>

RecallDeny(id, a) ==
  /\ Called(id, a)
  /\ Recalled(a) = "denied"
  /\ Answer(id, "remembered_deny")
  /\ UNCHANGED <<vars, memoryVars>>

Prompts(id, a) ==
  /\ Called(id, a)
  /\ ~SkipsPrompt(a)
  /\ Recalled(a) # "denied"
  /\ Swept(a)

AtCapacity == Cardinality(entries) >= MaxPending

CapacityDeny(id, a) ==
  /\ Prompts(id, a)
  /\ AtCapacity
  /\ Answer(id, "capacity")
  /\ UNCHANGED vars

\* create(), the abort listener, and the announcement begun.
Hold(id, a) ==
  /\ Prompts(id, a)
  /\ ~AtCapacity
  /\ id \notin gone
  /\ Create(id, a.quorum)
  /\ stage' \in {[stage EXCEPT ![id] = s] : s \in {"announcing", "waiting"}}
  /\ UNCHANGED answer

\* create() for a client already gone: no listener would ever fire, so it cancels itself.
HoldGone(id, a) ==
  /\ Prompts(id, a)
  /\ ~AtCapacity
  /\ id \in gone
  /\ record[id].state = "none"
  /\ record' = [record EXCEPT ![id] = [state |-> "abandoned", quorum |-> AtLeastOne(a.quorum),
                                       approvedBy |-> <<>>, decidedBy |-> NoOne]]
  /\ outcome' = [outcome EXCEPT ![id] = [state |-> "abandoned", decidedBy |-> NoOne]]
  /\ stage' = [stage EXCEPT ![id] = "waiting"]
  /\ UNCHANGED <<entries, timers, answer>>

\* An announcement that is waited for only while the approval is undecided.
AnnouncedIfUndecided(id) ==
  /\ stage[id] = "announcing"
  /\ outcome[id].state = "pending"
  /\ stage' = [stage EXCEPT ![id] = "waiting"]
  /\ UNCHANGED <<vars, ask, gone, answer, memoryVars>>

\* approvalRequested() came back, or threw.
Announced(id) ==
  /\ stage[id] = "announcing"
  /\ stage' = [stage EXCEPT ![id] = "waiting"]
  /\ UNCHANGED <<vars, ask, gone, answer, memoryVars>>

-----------------------------------------------------------------------------
\* awaitApproval() after `await wait`.

Resumable(id) == stage[id] = "waiting" /\ outcome[id].state # "pending"

\* The disconnect seen through the promise only.
LeftAbandonedOnly(id) == outcome[id].state = "abandoned"

\* Cancelled, or approved while the announcement was still out and then gone.
Left(id) == outcome[id].state = "abandoned" \/ (outcome[id].state = "approved" /\ id \in gone)

ResumeAbandoned(id) ==
  /\ Resumable(id)
  /\ Left(id)
  /\ Answer(id, "abandoned")
  /\ UNCHANGED <<vars, ask, gone, memoryVars>>

ResumeApproved(id) ==
  /\ Resumable(id)
  /\ ~Left(id)
  /\ outcome[id].state = "approved"
  /\ Answer(id, "approved")
  /\ RememberIf(ask[id].useMemory /\ ask[id].quorum <= 1, ask[id].key, "approved")
  /\ UNCHANGED <<vars, ask, gone>>

ResumeDenied(id) ==
  /\ Resumable(id)
  /\ outcome[id].state = "denied"
  /\ Answer(id, "denied")
  /\ RememberIf(ask[id].useMemory, ask[id].key, "denied")
  /\ UNCHANGED <<vars, ask, gone>>

\* An expiry remembered like a refusal.
ResumeExpiredSticky(id) ==
  /\ Resumable(id)
  /\ outcome[id].state = "expired"
  /\ Answer(id, "expired")
  /\ RememberIf(ask[id].useMemory, ask[id].key, "denied")
  /\ UNCHANGED <<vars, ask, gone>>

ResumeExpired(id) ==
  /\ Resumable(id)
  /\ outcome[id].state = "expired"
  /\ Answer(id, "expired")
  /\ UNCHANGED <<vars, ask, gone, memoryVars>>

Resume(id) == ResumeAbandoned(id) \/ ResumeApproved(id) \/ ResumeDenied(id) \/ ResumeExpired(id)

\* A listener that is added only once the announcement is out.
DisconnectUnheard(id) ==
  /\ stage[id] # "answered"
  /\ id \notin gone
  /\ gone' = gone \union {id}
  /\ UNCHANGED <<vars, stage, ask, answer, memoryVars>>

\* The client leaves: the listener cancels the approval if it is still pending.
Disconnect(id) ==
  /\ stage[id] # "answered"
  /\ id \notin gone
  /\ gone' = gone \union {id}
  /\ IF Pending(id) THEN Cancel(id) ELSE UNCHANGED vars
  /\ UNCHANGED <<stage, ask, answer, memoryVars>>

\* What reaches the broker from outside the call: the console, the CLI, timers, shutdown.
Decide ==
  /\ \/ \E id \in Ids, by \in Approvers : ApproveBy(id, by) \/ Deny(id, by)
     \/ \E id \in Ids : Expire(id)
     \/ Drain
  /\ UNCHANGED <<callVars, memoryVars>>

Begin(id, a) == RecallGrant(id, a) \/ RecallDeny(id, a) \/ CapacityDeny(id, a)
                \/ Hold(id, a) \/ HoldGone(id, a)

GateNext ==
  \/ \E id \in Ids, a \in Ask : Begin(id, a)
  \/ \E id \in Ids : Announced(id) \/ Resume(id) \/ Disconnect(id)
  \/ Decide \/ Lapse \/ Clear

GateSpec == GateInit /\ [][GateNext]_gateVars

-----------------------------------------------------------------------------

(* A request is released only by a decision that was made for it: by its   *)
(* own prompt, with its quorum of different approvers, or - for a quorum   *)
(* of one - by a remembered prompt for the same identity that was itself   *)
(* answered by a human and asked with memory on.  Neither a prompt of a    *)
(* dual-control rule nor one raised by dynamic context ever feeds it.      *)
GrantsAreEarned ==
  \A id \in Ids :
    /\ answer[id] = "approved" =>
         /\ outcome[id].state = "approved"
         /\ Cardinality(Range(record[id].approvedBy)) >= ask[id].quorum
    /\ answer[id] = "remembered_grant" =>
         /\ ask[id].quorum <= 1
         /\ \E other \in Ids : /\ answer[other] = "approved"
                               /\ ask[other].key = ask[id].key
                               /\ ask[other].useMemory /\ ask[other].quorum <= 1

(* What the memory holds is always the answer some human gave to a prompt  *)
(* for that very key: an expiry, a disconnect or a capacity refusal is     *)
(* never remembered, in either direction.                                  *)
MemoryIsHuman ==
  \A key \in Keys : memory[key].outcome # "none" =>
    \E id \in Ids : /\ ask[id].key = key /\ ask[id].useMemory
                    /\ answer[id] = memory[key].outcome
                    /\ outcome[id].decidedBy \in Approvers

(* A client that has left holds no slot and can no longer be approved,     *)
(* whether it left before the prompt, during the announcement or after.    *)
LeaversHoldNothing == entries \intersect gone = {}

(* No approval into the void: a fresh human yes never releases a request   *)
(* whose client had already gone when awaitApproval() returned, not even   *)
(* when the yes came before the disconnect and the announcement outlasted  *)
(* both.                                                                   *)
NotIntoTheVoid ==
  [][\A id \in Ids : answer'[id] = "approved" /\ answer[id] # "approved" => id \notin gone]_gateVars
=============================================================================
