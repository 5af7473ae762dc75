--------------------------- MODULE ApprovalBroker ---------------------------
(***************************************************************************)
(* approvals/broker.ts: the in-memory broker a `require_approval` request  *)
(* blocks on.  Each call runs to completion on the event loop, so a call   *)
(* is one action; what interleaves is the calls: console and CLI           *)
(* decisions, the TTL timers, client disconnects and the shutdown drain.   *)
(*                                                                         *)
(* Ids stands for the results of shortId("apr"): a record is created at    *)
(* most once per id.  Time is abstract: a timer that is armed may fire.    *)
(***************************************************************************)
EXTENDS Naturals, Sequences, FiniteSets, Functions

CONSTANTS
  Ids,         \* approval ids
  Approvers,   \* labels a human decision is made under (`by`)
  QuorumArgs,  \* the `quorum` arguments create() is called with
  NoOne        \* decidedBy = null

ASSUME QuorumArgsAssumption == QuorumArgs \subseteq Nat
ASSUME NoOneAssumption == NoOne \notin Approvers

VARIABLES
  entries,  \* keys of the `entries` map
  record,   \* [Ids -> ApprovalRecord], kept after settle() for its promise's owner
  timers,   \* ids whose setTimeout is armed
  outcome   \* [Ids -> how `wait` was resolved, or NoOutcome]

vars == <<entries, record, timers, outcome>>

Final == {"approved", "denied", "expired", "abandoned"}

\* What a promise looks like before resolve() is called on it.
NoOutcome == [state |-> "pending", decidedBy |-> NoOne]

\* The record of an id not handed out yet: no call can name it.
NoRecord == [state |-> "none", quorum |-> 0, approvedBy |-> <<>>, decidedBy |-> NoOne]

ApprovalRecord ==
  [state : Final \union {"none", "pending"}, quorum : Nat,
   approvedBy : Seq(Approvers), decidedBy : Approvers \union {NoOne}]

ApprovalOutcome ==
  [state : Final \union {"pending"}, decidedBy : Approvers \union {NoOne}]

TypeOK ==
  /\ entries \subseteq Ids
  /\ timers \subseteq Ids
  /\ record \in [Ids -> ApprovalRecord]
  /\ outcome \in [Ids -> ApprovalOutcome]

Init ==
  /\ entries = {}
  /\ timers = {}
  /\ record = [id \in Ids |-> NoRecord]
  /\ outcome = [id \in Ids |-> NoOutcome]

-----------------------------------------------------------------------------

AtLeastOne(q) == IF q >= 1 THEN q ELSE 1

\* A create() that forgets setTimeout.
CreateWithoutTimer(id, quorum) ==
  /\ record[id].state = "none"
  /\ record' = [record EXCEPT ![id] = [state |-> "pending", quorum |-> AtLeastOne(quorum),
                                       approvedBy |-> <<>>, decidedBy |-> NoOne]]
  /\ entries' = entries \union {id}
  /\ UNCHANGED <<timers, outcome>>

Create(id, quorum) ==
  /\ record[id].state = "none"
  /\ record' = [record EXCEPT ![id] = [state |-> "pending", quorum |-> AtLeastOne(quorum),
                                       approvedBy |-> <<>>, decidedBy |-> NoOne]]
  /\ entries' = entries \union {id}
  /\ timers' = timers \union {id}
  /\ UNCHANGED outcome

\* settle()'s early return, as a guard: only a pending entry of the map settles.
Pending(id) == id \in entries /\ record[id].state = "pending"

\* settle() of every id in S; `rec` is the record map as the caller left it.
Settle(rec, S, state, by) ==
  /\ \A id \in S : Pending(id)
  /\ record' = [id \in Ids |-> IF id \in S THEN [rec[id] EXCEPT !.state = state, !.decidedBy = by]
                                          ELSE rec[id]]
  /\ entries' = entries \ S
  /\ timers' = timers \ S
  /\ outcome' = [id \in Ids |-> IF id \in S THEN [state |-> state, decidedBy |-> by]
                                            ELSE outcome[id]]

\* push() without includes(): one label may fill the quorum alone.
VotesWithRepeats(id, by) == Append(record[id].approvedBy, by)

\* approvedBy after `by` votes: a label already there is not pushed again.
VotesWith(id, by) ==
  IF by \in Range(record[id].approvedBy) THEN record[id].approvedBy
                                         ELSE Append(record[id].approvedBy, by)

WithVote(id, by) == [record EXCEPT ![id].approvedBy = VotesWith(id, by)]

\* `>` where approveBy compares with `>=`: a full quorum stays pending.
ApproveRecordAtQuorum(id, by) ==
  /\ Pending(id)
  /\ Len(VotesWith(id, by)) <= record[id].quorum
  /\ record' = WithVote(id, by)
  /\ UNCHANGED <<entries, timers, outcome>>

\* The reply's status stored in the record.
ApproveRecordStatus(id, by) ==
  /\ Pending(id)
  /\ Len(VotesWith(id, by)) < record[id].quorum
  /\ record' = [WithVote(id, by) EXCEPT ![id].state = "recorded"]
  /\ UNCHANGED <<entries, timers, outcome>>

\* A vote short of the quorum ("recorded", or "duplicate" when it changes nothing).
ApproveRecord(id, by) ==
  /\ Pending(id)
  /\ Len(VotesWith(id, by)) < record[id].quorum
  /\ record' = WithVote(id, by)
  /\ UNCHANGED <<entries, timers, outcome>>

\* The vote that reaches the quorum ("settled").
ApproveSettle(id, by) ==
  /\ Pending(id)
  /\ Len(VotesWith(id, by)) >= record[id].quorum
  /\ Settle(WithVote(id, by), {id}, "approved", by)

ApproveBy(id, by) == ApproveRecord(id, by) \/ ApproveSettle(id, by)

Deny(id, by) == Settle(record, {id}, "denied", by)

\* The client of the held request disconnected.
Cancel(id) == Settle(record, {id}, "abandoned", NoOne)

\* The TTL timer fires.
Expire(id) == id \in timers /\ Settle(record, {id}, "expired", NoOne)

\* Shutdown: everything still pending expires in one synchronous loop.
Drain ==
  /\ entries # {}
  /\ Settle(record, entries, "expired", NoOne)

Next ==
  \/ \E id \in Ids, q \in QuorumArgs : Create(id, q)
  \/ \E id \in Ids, by \in Approvers : ApproveBy(id, by) \/ Deny(id, by)
  \/ \E id \in Ids : Cancel(id) \/ Expire(id)
  \/ Drain

\* setTimeout callbacks do run; nobody owes the broker a decision.
Fairness == \A id \in Ids : WF_vars(Expire(id))

Spec == Init /\ [][Next]_vars
FairSpec == Spec /\ Fairness

-----------------------------------------------------------------------------

(* Dual control: a request is released as approved only once as many       *)
(* DIFFERENT approvers as its quorum asks for have said yes to it, and the *)
(* decision is attributed to one of them, whatever double votes, vetoes,   *)
(* timeouts and disconnects happened on the way.                           *)
QuorumMet ==
  \A id \in Ids : outcome[id].state = "approved" =>
    /\ Cardinality(Range(record[id].approvedBy)) >= record[id].quorum
    /\ outcome[id].decidedBy \in Range(record[id].approvedBy)

(* Nobody is kept waiting by a count that is already complete: while a     *)
(* request is held the tally counts different approvers only, and it is    *)
(* short of the quorum.                                                    *)
NoIdleQuorum ==
  \A id \in entries :
    /\ Len(record[id].approvedBy) = Cardinality(Range(record[id].approvedBy))
    /\ Len(record[id].approvedBy) < record[id].quorum

(* The map, the armed timers and the unresolved promises never diverge: no *)
(* held request without the timer that will end it, no timer left behind   *)
(* by a settled one, and what a promise resolved to is what its record     *)
(* says.                                                                   *)
HeldIffTimed ==
  /\ timers = entries
  /\ \A id \in Ids :
       /\ id \in entries <=> record[id].state = "pending"
       /\ outcome[id].state # "pending" =>
            outcome[id] = [state |-> record[id].state, decidedBy |-> record[id].decidedBy]

(* First decision wins: once a promise is resolved nothing that happens    *)
(* later (a late approval, the timer, a drain) changes the answer or the   *)
(* tally it was based on.                                                  *)
DecidedOnce ==
  [][\A id \in Ids : outcome[id].state # "pending" =>
        outcome'[id] = outcome[id] /\ record'[id] = record[id]]_vars

(* A held request is always answered in the end: by a human, a disconnect  *)
(* or its own timer (broker.ts: expire -> DENY).                           *)
EveryRequestAnswered ==
  \A id \in Ids : (id \in entries) ~> (outcome[id].state # "pending")

\* The broker implements the promise: consent is the set of recorded labels.
Decision == INSTANCE QuorumDecision WITH
  Questions <- Ids, Humans <- Approvers, Needs <- {AtLeastOne(q) : q \in QuorumArgs},
  need <- [id \in Ids |-> record[id].quorum],
  consent <- [id \in Ids |-> Range(record[id].approvedBy)],
  verdict <- [id \in Ids |-> CASE record[id].state = "none" -> "unasked"
                               [] record[id].state = "pending" -> "open"
                               [] OTHER -> record[id].state]

(* Every behaviour of the broker is one of the abstract decision protocol. *)
ImplementsQuorumDecision == Decision!Spec
=============================================================================
