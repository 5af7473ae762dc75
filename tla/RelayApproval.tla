----------------------------- MODULE RelayApproval -----------------------------
(***************************************************************************)
(* The approval gate of a headless proxy: notify/relay.ts announces every  *)
(* held request to a relay and polls it for a verdict, which it passes to  *)
(* the broker as one more caller of approveBy() and deny(); the console    *)
(* and the CLI go on deciding beside it.  And the end of the process:      *)
(* cli/run.ts shutdown() drains the broker and exits 150 ms later, while   *)
(* the server still accepts.                                               *)
(*                                                                         *)
(* The relay is not in the repository: every poll may bring any verdict,   *)
(* nonsense, or nothing, and the next one another.                         *)
(***************************************************************************)
EXTENDS ApprovalGate

CONSTANT RelayName  \* "relay", the label of a verdict that names nobody

ASSUME RelayAssumption == RelayName \in Approvers

VARIABLES
  loop,     \* [Ids -> the poll loop of its announcement]
  aborted,  \* loops whose AbortController has fired
  heard,    \* history: [Ids -> the labels recorded for the relay's verdict alone]
  phase,    \* "serving", "draining", "exited"
  late      \* history: requests held after the drain

relayVars == <<loop, aborted, heard>>
processVars == <<phase, late>>
allVars == <<gateVars, relayVars, processVars>>

RelayTypeOK ==
  /\ GateTypeOK
  /\ loop \in [Ids -> {"none", "polling", "ended"}]
  /\ aborted \subseteq Ids
  /\ heard \in [Ids -> SUBSET Approvers]
  /\ phase \in {"serving", "draining", "exited"}
  /\ late \subseteq Ids

RelayInit ==
  /\ GateInit
  /\ loop = [id \in Ids |-> "none"]
  /\ aborted = {}
  /\ heard = [id \in Ids |-> {}]
  /\ phase = "serving" /\ late = {}

-----------------------------------------------------------------------------
\* RelayChannel.

\* approvalRequested(): without an answer in the 200s within four seconds nothing is polled.
RelayAnnounced(id) ==
  /\ Announced(id)
  /\ loop' \in {loop, [loop EXCEPT ![id] = "polling"]}
  /\ UNCHANGED <<aborted, heard, processVars>>

\* A loop that polls on until its request is settled.
AfterApprovalPollOn(id) == IF Pending(id)' THEN "polling" ELSE "ended"

\* The first "approved" ends the loop, whether it settled the request or not.
AfterApproval(id) == "ended"

\* One turn of pollLoop() with a verdict: it goes to the broker, where a
\* request that is settled already ignores it.
PollApproved(id, by) ==
  /\ loop[id] = "polling"
  /\ IF Pending(id)
     THEN /\ ApproveBy(id, by)
          /\ heard' = [heard EXCEPT ![id] = @ \union ({by} \ Range(record[id].approvedBy))]
     ELSE UNCHANGED <<vars, heard>>
  /\ loop' = [loop EXCEPT ![id] = AfterApproval(id)]
  /\ UNCHANGED <<callVars, memoryVars, aborted, processVars>>

PollDenied(id, by) ==
  /\ loop[id] = "polling"
  /\ IF Pending(id) THEN Deny(id, by) ELSE UNCHANGED vars
  /\ loop' = [loop EXCEPT ![id] = "ended"]
  /\ UNCHANGED <<callVars, memoryVars, aborted, heard, processVars>>

\* The condition of the loop fails: the local deadline, which the clock may
\* reach before the timer has fired, or the abort.  A turn without a verdict -
\* no answer, a malformed one, "pending" or "expired" - only backs off.
PollEnds(id) ==
  /\ loop[id] = "polling"
  /\ loop' = [loop EXCEPT ![id] = "ended"]
  /\ UNCHANGED <<gateVars, aborted, heard, processVars>>

PollLoop(id) ==
  \/ \E by \in Approvers : PollApproved(id, by) \/ PollDenied(id, by)  \* RelayName, if nobody is named
  \/ PollEnds(id)

\* approvalResolved() for a relay that only posts the outcome.
ClosedUnheard(id) == UNCHANGED aborted

\* approvalResolved(): the loop that is registered for this request is aborted.
Closed(id) == aborted' = IF loop[id] = "polling" THEN aborted \union {id} ELSE aborted

RelayResume(id) ==
  /\ Resume(id)
  /\ Closed(id)
  /\ UNCHANGED <<loop, heard, processVars>>

-----------------------------------------------------------------------------
\* The process.

\* Every request that is held is announced when a channel is configured.
RelayBegin(id, a) ==
  /\ Begin(id, a)
  /\ id \in entries' => stage'[id] = "announcing"
  /\ late' = IF phase = "draining" /\ id \in entries' THEN late \union {id} ELSE late
  /\ UNCHANGED <<relayVars, phase>>

\* A drain that lets go of the timers but leaves the prompts to their clients.
DrainNothing == UNCHANGED <<vars, callVars, memoryVars>>

DrainBroker == (Drain \/ (entries = {} /\ UNCHANGED vars)) /\ UNCHANGED <<callVars, memoryVars>>

Shutdown ==
  /\ phase = "serving"
  /\ DrainBroker
  /\ phase' = "draining"
  /\ UNCHANGED <<relayVars, late>>

\* 150 ms later, when the promises resolved by the drain have long run on.
Exit ==
  /\ phase = "draining"
  /\ \A id \in Ids : ~Resumable(id)
  /\ phase' = "exited"
  /\ UNCHANGED <<gateVars, relayVars, late>>

Locally ==
  /\ \/ \E id \in Ids, by \in Approvers : ApproveBy(id, by) \/ Deny(id, by)
     \/ \E id \in Ids : Expire(id)
  /\ UNCHANGED <<callVars, memoryVars, relayVars, processVars>>

RelayNext ==
  /\ phase # "exited"
  /\ \/ \E id \in Ids, a \in Ask : RelayBegin(id, a)
     \/ \E id \in Ids : \/ RelayAnnounced(id) \/ PollLoop(id) \/ RelayResume(id)
                        \/ Disconnect(id) /\ UNCHANGED <<relayVars, processVars>>
     \/ (Lapse \/ Clear) /\ UNCHANGED <<relayVars, processVars>>
     \/ Locally \/ Shutdown \/ Exit

RelaySpec == RelayInit /\ [][RelayNext]_allVars

\* Every fetch has a timeout, every backoff a timer, the TTL timer fires and a
\* resolved promise resumes its owner - as long as the process runs.
RelayFairness ==
  \A id \in Ids :
    /\ WF_allVars(phase # "exited" /\ RelayAnnounced(id))
    /\ WF_allVars(phase # "exited" /\ RelayResume(id))
    /\ WF_allVars(phase # "exited" /\ PollLoop(id))
    /\ WF_allVars(phase # "exited" /\ Expire(id) /\ UNCHANGED <<callVars, memoryVars, relayVars, processVars>>)

FairRelaySpec == RelaySpec /\ RelayFairness

-----------------------------------------------------------------------------

(* The relay is one voice: whatever it answers, and however often it is    *)
(* polled, it adds at most one label to a request's tally, so a request    *)
(* under dual control is never released by the relay alone - somebody has  *)
(* said yes at the console or the command line.                            *)
RelayIsOneVoice ==
  \A id \in Ids : outcome[id].state = "approved" /\ ask[id].quorum > 1 => Range(record[id].approvedBy) \ heard[id] # {}

(* A poll loop does not outlive its call: once awaitApproval() has         *)
(* returned, by whatever path the request was settled and even if that     *)
(* happened while the announcement was still out, its loop has ended or    *)
(* has been told to.                                                       *)
LoopsEndWithTheCall ==
  \A id \in Ids : answer[id] # "none" => loop[id] \in {"none", "ended"} \/ id \in aborted

(* GrantsAreEarned of ApprovalGate, and with it: the relay has one voice   *)
(* in a quorum, the memory holds nothing but what a human answered, nobody *)
(* who has left can be approved any more, and no poll loop outlives the    *)
(* call it would answer.                                                   *)
OnlyHumansRelease ==
  GrantsAreEarned /\ RelayIsOneVoice /\ MemoryIsHuman /\ LeaversHoldNothing /\ LoopsEndWithTheCall

(* Shutdown leaves no held request without its denial: what has no answer  *)
(* when the process exits was accepted after the drain, or its             *)
(* announcement was still being posted.                                    *)
DrainedAreAnswered ==
  phase = "exited" => \A id \in Ids : stage[id] \in {"announcing", "waiting"} => id \in late \/ stage[id] = "announcing"

(* Every call of awaitApproval() returns unless the process exits first,   *)
(* with only the timers, the timeouts of the relay's fetches and the event *)
(* loop to count on; the relay need never answer.                          *)
EveryAskReturns ==
  \A id \in Ids : (stage[id] # "idle") ~> (stage[id] = "answered" \/ phase = "exited")

\* What a comment says and the code does not do: README.md, section 4.

(* cli/run.ts:934: held approvals are released and their responses flushed *)
(* to the waiting clients before the process stops.                        *)
DrainAnswersAll == phase = "exited" => \A id \in Ids : stage[id] \in {"idle", "answered"}
=============================================================================
