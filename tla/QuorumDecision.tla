--------------------------- MODULE QuorumDecision ---------------------------
(***************************************************************************)
(* What an approval broker promises the request it holds, with none of the *)
(* bookkeeping: every question put to the humans is answered at most once, *)
(* "approved" needs the consent of `need` different approvers, one human   *)
(* may refuse on behalf of all, and a question may always lapse or be      *)
(* withdrawn.  ApprovalBroker implements this module.                      *)
(***************************************************************************)
EXTENDS Naturals, FiniteSets

CONSTANTS
  Questions,  \* identities of the questions
  Humans,     \* labels approvers answer under
  Needs       \* numbers of different approvers a question may need

VARIABLES
  need,      \* [Questions -> number of approvers it needs, 0 before it is put]
  consent,   \* [Questions -> set of humans that said yes while it was open]
  verdict    \* [Questions -> "unasked", "open" or how it ended]

vars == <<need, consent, verdict>>

Init ==
  /\ need = [q \in Questions |-> 0]
  /\ consent = [q \in Questions |-> {}]
  /\ verdict = [q \in Questions |-> "unasked"]

Ask(q, n) ==
  /\ verdict[q] = "unasked"
  /\ verdict' = [verdict EXCEPT ![q] = "open"]
  /\ need' = [need EXCEPT ![q] = n]
  /\ UNCHANGED consent

\* The question is put for somebody who has left already: it is withdrawn with the same breath.
AskInVain(q, n) ==
  /\ verdict[q] = "unasked"
  /\ verdict' = [verdict EXCEPT ![q] = "abandoned"]
  /\ need' = [need EXCEPT ![q] = n]
  /\ UNCHANGED consent

\* A yes that leaves the question open: not enough different humans yet.
Consent(q, h) ==
  /\ verdict[q] = "open"
  /\ Cardinality(consent[q] \union {h}) < need[q]
  /\ consent' = [consent EXCEPT ![q] = @ \union {h}]
  /\ UNCHANGED <<need, verdict>>

\* The yes that completes the quorum.
Grant(q, h) ==
  /\ verdict[q] = "open"
  /\ Cardinality(consent[q] \union {h}) >= need[q]
  /\ consent' = [consent EXCEPT ![q] = @ \union {h}]
  /\ verdict' = [verdict EXCEPT ![q] = "approved"]
  /\ UNCHANGED need

\* Any number of open questions end without a grant; all of them the same way
\* (a shutdown ends every one in a single step).
Close(Q, how) ==
  /\ \A q \in Q : verdict[q] = "open"
  /\ verdict' = [q \in Questions |-> IF q \in Q THEN how ELSE verdict[q]]
  /\ UNCHANGED <<need, consent>>

Next ==
  \/ \E q \in Questions, n \in Needs : Ask(q, n) \/ AskInVain(q, n)
  \/ \E q \in Questions, h \in Humans : Consent(q, h) \/ Grant(q, h)
  \/ \E Q \in SUBSET Questions, how \in {"denied", "expired", "abandoned"} : Close(Q, how)

Spec == Init /\ [][Next]_vars
=============================================================================
