-------------------------------- MODULE MCRelay --------------------------------
(* Instances of ApprovalBroker, ApprovalGate and RelayApproval: two requests and one slot.    *)
EXTENDS RelayApproval

CONSTANT k1

VARIABLE course  \* "broker": any quorum; "memory": the gate with its memory; "relay": the
                 \* relay and the process

Everything == <<allVars, course>>

\* One request under dual control, which no memory answers, and one that is remembered.
CONSTANT i1
Fresh ==
  \A id \in Ids : ask[id] = NoAsk \/ ask[id] = [key |-> k1, useMemory |-> id # i1, quorum |-> IF id = i1 THEN 2 ELSE 1]

MCInit == course \in {"broker", "memory", "relay"} /\ RelayInit

MCNext ==
  /\ UNCHANGED course
  /\ \/ course = "broker" /\ Next /\ UNCHANGED <<callVars, memoryVars, relayVars, processVars>>
     \/ course = "memory" /\ GateNext /\ UNCHANGED <<relayVars, processVars>>
     \/ course = "relay" /\ RelayNext /\ Fresh'

MCFairness ==
  \A id \in Ids :
    /\ WF_Everything(course = "memory" /\ Announced(id) /\ UNCHANGED <<relayVars, processVars, course>>)
    /\ WF_Everything(course = "memory" /\ Resume(id) /\ UNCHANGED <<relayVars, processVars, course>>)
    /\ WF_Everything(/\ course = "memory" /\ Expire(id)
                     /\ UNCHANGED <<callVars, memoryVars, relayVars, processVars, course>>)
    /\ WF_Everything(/\ course = "relay" /\ phase # "exited"
                     /\ RelayAnnounced(id) /\ UNCHANGED course)
    /\ WF_Everything(/\ course = "relay" /\ phase # "exited"
                     /\ RelayResume(id) /\ UNCHANGED course)
    /\ WF_Everything(/\ course = "relay" /\ phase # "exited"
                     /\ PollLoop(id) /\ UNCHANGED course)
    /\ WF_Everything(/\ course = "relay" /\ phase # "exited" /\ Expire(id)
                     /\ UNCHANGED <<callVars, memoryVars, relayVars, processVars, course>>)

MCSpec == MCInit /\ [][MCNext]_Everything /\ MCFairness
=============================================================================
