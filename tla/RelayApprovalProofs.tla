------------------------- MODULE RelayApprovalProofs -------------------------
(***************************************************************************)
(* Proofs about the approval broker, the gate and the relay, for any       *)
(* number of requests, approvers, quorums and remembered keys.             *)
(*                                                                         *)
(* The broker: the two-approver rule and its bookkeeping, and finality of  *)
(* a decision.  The gate and the relay: every release is a human's,        *)
(* the relay is one voice among them, nothing is released into the void,   *)
(* no poll loop outlives its call, a shutdown leaves no request unanswered *)
(* that it could answer.  All of it implements QuorumDecision.             *)
(***************************************************************************)
EXTENDS RelayApproval, FiniteSetTheorems, SequenceTheorems, TLAPS

-----------------------------------------------------------------------------
(* The broker. *)

(* The labels in a list of votes form a finite set.                        *)
LEMMA VotersFinite ==
  ASSUME NEW S, NEW votes \in Seq(S)
  PROVE  IsFiniteSet(Range(votes)) /\ Range(votes) \subseteq S
<1>1. votes \in Surjection(1..Len(votes), Range(votes))
  BY LenProperties DEF Surjection, Range
<1>2. IsFiniteSet(1..Len(votes))
  BY LenProperties, FS_Interval
<1>3. IsFiniteSet(Range(votes))
  BY <1>1, <1>2, FS_Surjection
<1>4. Range(votes) \subseteq S
  BY LenProperties DEF Range
<1> QED
  BY <1>3, <1>4

(* Pushing a label adds exactly that label to the voters.                  *)
LEMMA VotersAppend ==
  ASSUME NEW S, NEW votes \in Seq(S), NEW by \in S
  PROVE  /\ Append(votes, by) \in Seq(S)
         /\ Len(Append(votes, by)) = Len(votes) + 1
         /\ Range(Append(votes, by)) = Range(votes) \union {by}
<1> DEFINE longer == Append(votes, by)
<1>1. longer \in Seq(S) /\ Len(longer) = Len(votes) + 1
  OBVIOUS
<1>2. DOMAIN longer = 1..Len(votes) + 1 /\ DOMAIN votes = 1..Len(votes) /\ Len(votes) \in Nat
  BY <1>1, LenProperties
<1>3. \A i \in 1..Len(votes) : longer[i] = votes[i]
  OBVIOUS
<1>4. longer[Len(votes) + 1] = by
  OBVIOUS
<1>5. Range(longer) \subseteq Range(votes) \union {by}
  <2> SUFFICES ASSUME NEW i \in 1..Len(votes) + 1
               PROVE  longer[i] \in Range(votes) \union {by}
    BY <1>2 DEF Range
  <2>1. CASE i = Len(votes) + 1
    BY <2>1, <1>4
  <2>2. CASE i # Len(votes) + 1
    <3>1. i \in 1..Len(votes)
      BY <2>2, <1>2
    <3> QED
      BY <3>1, <1>3, <1>2 DEF Range
  <2> QED
    BY <2>1, <2>2
<1>6. Range(votes) \subseteq Range(longer)
  <2> SUFFICES ASSUME NEW i \in 1..Len(votes)
               PROVE  votes[i] \in Range(longer)
    BY <1>2 DEF Range
  <2>1. i \in 1..Len(votes) + 1 /\ longer[i] = votes[i]
    BY <1>2, <1>3
  <2> QED
    BY <2>1, <1>2 DEF Range
<1>7. by \in Range(longer)
  <2>1. Len(votes) + 1 \in DOMAIN longer
    BY <1>2
  <2> QED
    BY <2>1, <1>4 DEF Range
<1> QED
  BY <1>1, <1>5, <1>6, <1>7

(* The step every vote takes: the voters gain `by`, and a tally that       *)
(* counted different approvers still does.                                 *)
LEMMA VoteTally ==
  ASSUME TypeOK, NEW id \in Ids, NEW by \in Approvers
  PROVE  LET votes == record[id].approvedBy
         IN /\ VotesWith(id, by) \in Seq(Approvers)
            /\ Range(VotesWith(id, by)) = Range(votes) \union {by}
            /\ Len(votes) = Cardinality(Range(votes)) =>
                 Len(VotesWith(id, by)) = Cardinality(Range(VotesWith(id, by)))
<1> DEFINE votes == record[id].approvedBy
<1>1. votes \in Seq(Approvers)
  BY DEF TypeOK, ApprovalRecord
<1>2. CASE by \in Range(votes)
  BY <1>1, <1>2 DEF VotesWith
<1>3. CASE by \notin Range(votes)
  <2>1. VotesWith(id, by) = Append(votes, by)
    BY <1>3 DEF VotesWith
  <2>2. Cardinality(Range(votes) \union {by}) = Cardinality(Range(votes)) + 1
    BY <1>1, <1>3, VotersFinite, FS_AddElement
  <2>3. /\ Append(votes, by) \in Seq(Approvers)
        /\ Len(Append(votes, by)) = Len(votes) + 1
        /\ Range(Append(votes, by)) = Range(votes) \union {by}
    BY <1>1, VotersAppend
  <2> QED
    BY <2>1, <2>2, <2>3
<1> QED
  BY <1>2, <1>3

(* A clamped quorum is at least one.                                       *)
LEMMA QuorumAtLeastOne ==
  ASSUME NEW q \in QuorumArgs
  PROVE  AtLeastOne(q) \in Nat /\ AtLeastOne(q) >= 1
  BY QuorumArgsAssumption DEF AtLeastOne

-----------------------------------------------------------------------------

\* Held requests are typed, timed and short of their quorum; decided ones have it.
IInv ==
  /\ TypeOK /\ HeldIffTimed /\ NoIdleQuorum /\ QuorumMet
  /\ \A id \in Ids : record[id].state = "none" => record[id].approvedBy = <<>>

LEMMA InitInv == Init => IInv
<1> SUFFICES ASSUME Init PROVE IInv
  OBVIOUS
<1>1. <<>> \in Seq(Approvers)
  OBVIOUS
<1> QED
  BY <1>1 DEF Init, IInv, TypeOK, HeldIffTimed, NoIdleQuorum, QuorumMet, NoRecord, NoOutcome,
             ApprovalRecord, ApprovalOutcome, Final

(* settle() of a set of pending entries keeps the invariant, provided the  *)
(* caller changed only their votes and an approval comes with its quorum.  *)
LEMMA SettleInv ==
  ASSUME IInv, NEW S \in SUBSET Ids, NEW rec,
         rec \in [Ids -> ApprovalRecord],
         \A i \in Ids \ S : rec[i] = record[i],
         NEW state \in Final, NEW by \in Approvers \union {NoOne},
         state = "approved" => \A i \in S : /\ Cardinality(Range(rec[i].approvedBy)) >= rec[i].quorum
                                            /\ by \in Range(rec[i].approvedBy),
         Settle(rec, S, state, by)
  PROVE  IInv'
<1>0. \A i \in S : /\ rec[i] \in ApprovalRecord
                   /\ record'[i] = [rec[i] EXCEPT !.state = state, !.decidedBy = by]
                   /\ outcome'[i] = [state |-> state, decidedBy |-> by]
  BY DEF Settle
<1>1. \A i \in S : /\ record'[i] \in ApprovalRecord
                   /\ record'[i].state = state
                   /\ record'[i].decidedBy = by
                   /\ record'[i].approvedBy = rec[i].approvedBy
                   /\ record'[i].quorum = rec[i].quorum
  <2> SUFFICES ASSUME NEW i \in S
               PROVE  /\ record'[i] \in ApprovalRecord
                      /\ record'[i].state = state
                      /\ record'[i].decidedBy = by
                      /\ record'[i].approvedBy = rec[i].approvedBy
                      /\ record'[i].quorum = rec[i].quorum
    OBVIOUS
  <2>1. rec[i] \in ApprovalRecord /\ record'[i] = [rec[i] EXCEPT !.state = state, !.decidedBy = by]
    BY <1>0
  <2> QED
    BY <2>1 DEF ApprovalRecord
<1>7. \A i \in S : outcome'[i].state = state /\ outcome'[i].decidedBy = by
  <2> SUFFICES ASSUME NEW i \in S PROVE outcome'[i].state = state /\ outcome'[i].decidedBy = by
    OBVIOUS
  <2>1. outcome'[i] = [state |-> state, decidedBy |-> by]
    BY <1>0
  <2> QED
    BY <2>1
<1>2. \A i \in Ids \ S : record'[i] = record[i] /\ outcome'[i] = outcome[i]
  BY DEF Settle
<1>3. TypeOK'
  <2>1. DOMAIN record' = Ids /\ record' = [i \in Ids |-> record'[i]]
    BY DEF Settle
  <2>2. \A i \in Ids : record'[i] \in ApprovalRecord
    BY <1>1, <1>2 DEF IInv, TypeOK
  <2>3. outcome' = [i \in Ids |-> outcome'[i]]
    BY DEF Settle
  <2>4. \A i \in Ids : outcome'[i] \in ApprovalOutcome
    <3>1. [state |-> state, decidedBy |-> by] \in ApprovalOutcome
      BY DEF ApprovalOutcome
    <3>2. \A i \in Ids \ S : outcome[i] \in ApprovalOutcome
      BY DEF IInv, TypeOK
    <3> QED
      BY <1>0, <1>2, <3>1, <3>2
  <2>5. entries' \subseteq Ids /\ timers' \subseteq Ids
    BY DEF Settle, IInv, TypeOK
  <2> QED
    BY <2>1, <2>2, <2>3, <2>4, <2>5 DEF TypeOK
<1>4. HeldIffTimed'
  <2>1. timers' = entries' /\ entries' = entries \ S
    BY DEF Settle, IInv, HeldIffTimed
  <2> SUFFICES ASSUME NEW i \in Ids
               PROVE  /\ i \in entries' <=> record'[i].state = "pending"
                      /\ outcome'[i].state # "pending" =>
                           outcome'[i] = [state |-> record'[i].state,
                                          decidedBy |-> record'[i].decidedBy]
    BY <2>1 DEF HeldIffTimed
  <2>2. CASE i \in S
    BY <2>1, <2>2, <1>0, <1>1 DEF Final
  <2>3. CASE i \notin S
    BY <2>1, <2>3, <1>2 DEF IInv, HeldIffTimed
  <2> QED
    BY <2>2, <2>3
<1>5. NoIdleQuorum'
  <2>1. \A i \in entries' : i \in entries /\ record'[i] = record[i]
    BY <1>2 DEF Settle, IInv, TypeOK
  <2> QED
    BY <2>1 DEF IInv, NoIdleQuorum
<1>6. QuorumMet'
  <2> SUFFICES ASSUME NEW i \in Ids, outcome'[i].state = "approved"
               PROVE  /\ Cardinality(Range(record'[i].approvedBy)) >= record'[i].quorum
                      /\ outcome'[i].decidedBy \in Range(record'[i].approvedBy)
    BY DEF QuorumMet
  <2>1. CASE i \in S
    <3>1. state = "approved" /\ outcome'[i].decidedBy = by
      BY <2>1, <1>7
    <3> QED
      BY <2>1, <3>1, <1>1
  <2>2. CASE i \notin S
    BY <2>2, <1>2 DEF IInv, QuorumMet
  <2> QED
    BY <2>1, <2>2
<1>8. \A i \in Ids : record'[i].state = "none" => record'[i].approvedBy = <<>>
  BY <1>1, <1>2 DEF IInv, Final
<1> QED
  BY <1>3, <1>4, <1>5, <1>6, <1>8 DEF IInv

LEMMA NextInv == IInv /\ [Next]_vars => IInv'
<1> SUFFICES ASSUME IInv, [Next]_vars PROVE IInv'
  OBVIOUS
<1>1. ASSUME NEW id \in Ids, NEW q \in QuorumArgs, Create(id, q)
      PROVE  IInv'
  <2>1. AtLeastOne(q) \in Nat /\ AtLeastOne(q) >= 1
    BY QuorumAtLeastOne
  <2>2. <<>> \in Seq(Approvers) /\ Len(<<>>) = 0
    OBVIOUS
  <2>3. Range(<<>>) = {} /\ Cardinality({}) = 0
    BY FS_EmptySet DEF Range
  <2> DEFINE fresh == [state |-> "pending", quorum |-> AtLeastOne(q),
                       approvedBy |-> <<>>, decidedBy |-> NoOne]
  <2>9. fresh \in ApprovalRecord
    BY <2>1, <2>2 DEF ApprovalRecord
  <2>4. TypeOK'
    BY <1>1, <2>9 DEF IInv, TypeOK, Create
  <2>5. HeldIffTimed'
    <3>1. outcome[id].state = "pending"
      BY <1>1 DEF IInv, TypeOK, HeldIffTimed, ApprovalOutcome, Create, Final
    <3>2. \A i \in Ids \ {id} : record'[i] = record[i]
      BY <1>1 DEF IInv, TypeOK, Create
    <3>3. record'[id].state = "pending"
      BY <1>1 DEF IInv, TypeOK, Create
    <3> QED
      BY <1>1, <3>1, <3>2, <3>3 DEF IInv, HeldIffTimed, Create
  <2>6. NoIdleQuorum'
    <3> SUFFICES ASSUME NEW i \in entries'
                 PROVE  /\ Len(record'[i].approvedBy) = Cardinality(Range(record'[i].approvedBy))
                        /\ Len(record'[i].approvedBy) < record'[i].quorum
      BY DEF NoIdleQuorum
    <3>1. CASE i = id
      <4>1. record'[i].approvedBy = <<>> /\ record'[i].quorum = AtLeastOne(q)
        BY <3>1, <1>1 DEF IInv, TypeOK, Create
      <4>2. Len(record'[i].approvedBy) = 0 /\ Cardinality(Range(record'[i].approvedBy)) = 0
        BY <4>1, <2>2, <2>3
      <4> QED
        BY <4>1, <4>2, <2>1
    <3>2. CASE i # id
      BY <3>2, <1>1 DEF IInv, TypeOK, NoIdleQuorum, Create
    <3> QED
      BY <3>1, <3>2
  <2>7. QuorumMet'
    BY <1>1 DEF IInv, TypeOK, HeldIffTimed, QuorumMet, Create
  <2>8. \A i \in Ids : record'[i].state = "none" => record'[i].approvedBy = <<>>
    BY <1>1 DEF IInv, TypeOK, Create
  <2> QED
    BY <2>4, <2>5, <2>6, <2>7, <2>8 DEF IInv
<1>2. ASSUME NEW id \in Ids, NEW by \in Approvers, ApproveRecord(id, by)
      PROVE  IInv'
  <2> DEFINE votes == VotesWith(id, by)
  <2>1. votes \in Seq(Approvers) /\ Len(votes) < record[id].quorum /\ id \in entries
    BY <1>2, VoteTally DEF IInv, ApproveRecord, Pending
  <2>2. Len(votes) = Cardinality(Range(votes))
    BY <2>1, VoteTally DEF IInv, NoIdleQuorum
  <2>3. /\ record' = [record EXCEPT ![id].approvedBy = votes]
        /\ record[id].state = "pending"
        /\ UNCHANGED <<entries, timers, outcome>>
    BY <1>2 DEF ApproveRecord, WithVote, Pending
  <2> HIDE DEF votes
  <2>4. TypeOK'
    BY <2>1, <2>3 DEF IInv, TypeOK, ApprovalRecord
  <2>5. HeldIffTimed'
    BY <2>3 DEF IInv, TypeOK, HeldIffTimed
  <2>6. NoIdleQuorum'
    BY <2>1, <2>2, <2>3 DEF IInv, TypeOK, NoIdleQuorum
  <2>7. QuorumMet'
    BY <2>3 DEF IInv, TypeOK, HeldIffTimed, QuorumMet
  <2>8. \A i \in Ids : record'[i].state = "none" => record'[i].approvedBy = <<>>
    BY <2>3 DEF IInv, TypeOK
  <2> QED
    BY <2>4, <2>5, <2>6, <2>7, <2>8 DEF IInv
<1>3. ASSUME NEW id \in Ids, NEW by \in Approvers, ApproveSettle(id, by)
      PROVE  IInv'
  <2> DEFINE votes == VotesWith(id, by)
             rec == WithVote(id, by)
  <2>1. /\ votes \in Seq(Approvers)
        /\ Range(votes) = Range(record[id].approvedBy) \union {by}
        /\ Len(votes) >= record[id].quorum
        /\ id \in entries
        /\ Settle(rec, {id}, "approved", by)
    BY <1>3, VoteTally DEF IInv, ApproveSettle, Pending
  <2>2. Len(votes) = Cardinality(Range(votes))
    BY <2>1, VoteTally DEF IInv, NoIdleQuorum
  <2>3. rec = [record EXCEPT ![id].approvedBy = votes]
    BY DEF WithVote
  <2>4. rec \in [Ids -> ApprovalRecord]
    BY <2>1, <2>3 DEF IInv, TypeOK, ApprovalRecord
  <2>5. \A i \in Ids \ {id} : rec[i] = record[i]
    BY <2>3 DEF IInv, TypeOK
  <2>6. rec[id].approvedBy = votes /\ rec[id].quorum = record[id].quorum
    BY <2>3 DEF IInv, TypeOK
  <2>7. "approved" \in Final
    BY DEF Final
  <2>8. \A i \in {id} : /\ Cardinality(Range(rec[i].approvedBy)) >= rec[i].quorum
                        /\ by \in Range(rec[i].approvedBy)
    BY <2>1, <2>2, <2>6
  <2> HIDE DEF rec, votes
  <2> QED
    BY <2>1, <2>4, <2>5, <2>7, <2>8, SettleInv
<1>4. ASSUME NEW S \in SUBSET Ids, NEW state \in Final \ {"approved"},
             NEW by \in Approvers \union {NoOne}, Settle(record, S, state, by)
      PROVE  IInv'
  <2>1. record \in [Ids -> ApprovalRecord]
    BY DEF IInv, TypeOK
  <2> QED
    BY <1>4, <2>1, SettleInv
<1>5. ASSUME NEW id \in Ids, NEW by \in Approvers, Deny(id, by)
      PROVE  IInv'
  BY <1>4, <1>5 DEF Deny, Final
<1>6. ASSUME NEW id \in Ids, Cancel(id) \/ Expire(id)
      PROVE  IInv'
  BY <1>4, <1>6 DEF Cancel, Expire, Final
<1>7. ASSUME Drain
      PROVE  IInv'
  <2>1. entries \in SUBSET Ids
    BY DEF IInv, TypeOK
  <2> QED
    BY <1>4, <1>7, <2>1 DEF Drain, Final
<1>8. ASSUME UNCHANGED vars
      PROVE  IInv'
  BY <1>8 DEF vars, IInv, TypeOK, HeldIffTimed, NoIdleQuorum, QuorumMet
<1> QED
  BY <1>1, <1>2, <1>3, <1>5, <1>6, <1>7, <1>8 DEF Next, ApproveBy

(* The inductive invariant holds in every reachable state.                 *)
THEOREM BrokerInvariant == Spec => []IInv
  BY InitInv, NextInv, PTL DEF Spec

(* Every reachable broker state is well typed.                             *)
THEOREM BrokerTypeOK == Spec => []TypeOK
<1>1. IInv => TypeOK
  BY DEF IInv
<1> QED
  BY <1>1, BrokerInvariant, PTL

(* A request is released as approved only with its quorum of different     *)
(* approvers, for any number of approvers and any quorums.                 *)
THEOREM BrokerQuorumMet == Spec => []QuorumMet
<1>1. IInv => QuorumMet
  BY DEF IInv
<1> QED
  BY <1>1, BrokerInvariant, PTL

(* Every held request has its timer, and no timer outlives its request.    *)
THEOREM BrokerHeldIffTimed == Spec => []HeldIffTimed
<1>1. IInv => HeldIffTimed
  BY DEF IInv
<1> QED
  BY <1>1, BrokerInvariant, PTL

(* No step changes a promise that has been resolved, nor its tally.        *)
LEMMA SettledStay ==
  ASSUME IInv, [Next]_vars, NEW id \in Ids, outcome[id].state # "pending"
  PROVE  outcome'[id] = outcome[id] /\ record'[id] = record[id]
<1>1. outcome[id].state \in Final /\ record[id].state = outcome[id].state
  BY DEF IInv, TypeOK, ApprovalOutcome, HeldIffTimed
<1>2. ~Pending(id) /\ record[id].state # "none"
  BY <1>1 DEF Pending, Final
<1>3. ASSUME NEW S \in SUBSET Ids, NEW rec, NEW state, NEW by, Settle(rec, S, state, by),
             \A i \in Ids \ S : rec[i] = record[i]
      PROVE  outcome'[id] = outcome[id] /\ record'[id] = record[id]
  BY <1>2, <1>3 DEF Settle
<1>4. ASSUME NEW i \in Ids, NEW q \in QuorumArgs, Create(i, q)
      PROVE  outcome'[id] = outcome[id] /\ record'[id] = record[id]
  BY <1>2, <1>4 DEF Create, IInv, TypeOK
<1>5. ASSUME NEW i \in Ids, NEW by \in Approvers, ApproveRecord(i, by)
      PROVE  outcome'[id] = outcome[id] /\ record'[id] = record[id]
  BY <1>2, <1>5 DEF ApproveRecord, WithVote, IInv, TypeOK
<1>6. ASSUME NEW i \in Ids, NEW by \in Approvers, ApproveSettle(i, by)
      PROVE  outcome'[id] = outcome[id] /\ record'[id] = record[id]
  <2>1. \A j \in Ids \ {i} : WithVote(i, by)[j] = record[j]
    BY DEF WithVote, IInv, TypeOK
  <2> QED
    BY <1>3, <1>6, <2>1 DEF ApproveSettle
<1>7. ASSUME NEW i \in Ids, NEW by \in Approvers, Deny(i, by)
      PROVE  outcome'[id] = outcome[id] /\ record'[id] = record[id]
  BY <1>3, <1>7 DEF Deny
<1>8. ASSUME NEW i \in Ids, Cancel(i) \/ Expire(i)
      PROVE  outcome'[id] = outcome[id] /\ record'[id] = record[id]
  BY <1>3, <1>8 DEF Cancel, Expire
<1>9. ASSUME Drain
      PROVE  outcome'[id] = outcome[id] /\ record'[id] = record[id]
  BY <1>3, <1>9 DEF Drain, IInv, TypeOK
<1>10. ASSUME UNCHANGED vars
       PROVE  outcome'[id] = outcome[id] /\ record'[id] = record[id]
  BY <1>10 DEF vars
<1> QED
  BY <1>4, <1>5, <1>6, <1>7, <1>8, <1>9, <1>10 DEF Next, ApproveBy

(* A resolved promise and the tally behind it never change again.          *)
THEOREM BrokerDecidedOnce == Spec => DecidedOnce
<1>1. IInv /\ [Next]_vars => [\A id \in Ids : outcome[id].state # "pending" =>
                                outcome'[id] = outcome[id] /\ record'[id] = record[id]]_vars
  BY SettledStay
<1> QED
  BY <1>1, BrokerInvariant, PTL DEF Spec, DecidedOnce

-----------------------------------------------------------------------------
(* Refinement of QuorumDecision under the mapping `Decision`.              *)

(* QuorumDecision counts with its own instance of the same Cardinality.    *)
LEMMA SameCardinality == \A S : Decision!Cardinality(S) = Cardinality(S)
  BY DEF Decision!Cardinality, Cardinality

(* Every way of settling without an approval is a Close of the promise.    *)
LEMMA SettleRefines ==
  ASSUME IInv, NEW S \in SUBSET Ids, NEW state \in {"denied", "expired", "abandoned"}, NEW by,
         Settle(record, S, state, by)
  PROVE  Decision!Close(S, state)
<1>1. \A i \in S : record[i].state = "pending"
  BY DEF Settle, Pending
<1>2. \A i \in S : /\ record'[i].state = state
                   /\ record'[i].approvedBy = record[i].approvedBy
                   /\ record'[i].quorum = record[i].quorum
  BY DEF Settle, IInv, TypeOK, ApprovalRecord
<1>3. \A i \in Ids \ S : record'[i] = record[i]
  BY DEF Settle
<1>4. \A i \in Ids : record'[i].quorum = record[i].quorum /\ record'[i].approvedBy = record[i].approvedBy
  BY <1>2, <1>3
<1> QED
  BY <1>1, <1>2, <1>3, <1>4 DEF Decision!Close

LEMMA InitRefines == Init => Decision!Init
  BY DEF Init, Decision!Init, NoRecord, Range

LEMMA NextRefines == IInv /\ [Next]_vars => [Decision!Next]_Decision!vars
<1> SUFFICES ASSUME IInv, [Next]_vars
             PROVE  [Decision!Next]_Decision!vars
  OBVIOUS
<1>1. ASSUME NEW id \in Ids, NEW q \in QuorumArgs, Create(id, q)
      PROVE  Decision!Next
  <2>1. /\ record[id].state = "none"
        /\ record'[id].state = "pending"
        /\ record'[id].quorum = AtLeastOne(q)
        /\ record'[id].approvedBy = <<>>
    BY <1>1 DEF Create, IInv, TypeOK
  <2>2. \A i \in Ids \ {id} : record'[i] = record[i]
    BY <1>1 DEF Create, IInv, TypeOK
  <2>3. record[id].approvedBy = <<>>
    BY <2>1 DEF IInv
  <2>4. Decision!Ask(id, AtLeastOne(q))
    BY <2>1, <2>2, <2>3 DEF Decision!Ask
  <2> QED
    BY <2>4 DEF Decision!Next
<1>2. ASSUME NEW id \in Ids, NEW by \in Approvers, ApproveRecord(id, by)
      PROVE  Decision!Next
  <2>1. /\ record[id].state = "pending"
        /\ record' = WithVote(id, by)
        /\ id \in entries
        /\ Len(VotesWith(id, by)) < record[id].quorum
    BY <1>2 DEF ApproveRecord, Pending
  <2>2. /\ record'[id].state = "pending"
        /\ record'[id].quorum = record[id].quorum
        /\ record'[id].approvedBy = VotesWith(id, by)
        /\ \A i \in Ids \ {id} : record'[i] = record[i]
    BY <2>1 DEF WithVote, IInv, TypeOK, ApprovalRecord
  <2>3. /\ Range(VotesWith(id, by)) = Range(record[id].approvedBy) \union {by}
        /\ Len(VotesWith(id, by)) = Cardinality(Range(VotesWith(id, by)))
    BY <2>1, VoteTally DEF IInv, NoIdleQuorum
  <2>4. Decision!Consent(id, by)
    BY <2>1, <2>2, <2>3, SameCardinality DEF Decision!Consent
  <2> QED
    BY <2>4 DEF Decision!Next
<1>3. ASSUME NEW id \in Ids, NEW by \in Approvers, ApproveSettle(id, by)
      PROVE  Decision!Next
  <2>1. /\ record[id].state = "pending"
        /\ id \in entries
        /\ Len(VotesWith(id, by)) >= record[id].quorum
        /\ record' = [i \in Ids |-> IF i \in {id}
                        THEN [WithVote(id, by)[i] EXCEPT !.state = "approved", !.decidedBy = by]
                        ELSE WithVote(id, by)[i]]
    BY <1>3 DEF ApproveSettle, Settle, Pending
  <2>2. /\ WithVote(id, by)[id] = [record[id] EXCEPT !.approvedBy = VotesWith(id, by)]
        /\ \A i \in Ids \ {id} : WithVote(id, by)[i] = record[i]
    BY DEF WithVote, IInv, TypeOK
  <2>3. record'[id] = [[record[id] EXCEPT !.approvedBy = VotesWith(id, by)]
                         EXCEPT !.state = "approved", !.decidedBy = by]
    BY <2>1, <2>2
  <2>4. /\ record'[id].state = "approved"
        /\ record'[id].quorum = record[id].quorum
        /\ record'[id].approvedBy = VotesWith(id, by)
    BY <2>3 DEF IInv, TypeOK, ApprovalRecord
  <2>5. \A i \in Ids \ {id} : record'[i] = record[i]
    BY <2>1, <2>2
  <2>6. /\ Range(VotesWith(id, by)) = Range(record[id].approvedBy) \union {by}
        /\ Len(VotesWith(id, by)) = Cardinality(Range(VotesWith(id, by)))
    BY <2>1, VoteTally DEF IInv, NoIdleQuorum
  <2> DEFINE shown(state) == CASE state = "none" -> "unasked" [] state = "pending" -> "open" [] OTHER -> state
  <2>7. Decision!Cardinality(Range(record[id].approvedBy) \union {by}) >= record[id].quorum
    BY <2>1, <2>6, SameCardinality
  <2>8. [i \in Ids |-> Range(record[i].approvedBy)]'
        = [[i \in Ids |-> Range(record[i].approvedBy)] EXCEPT ![id] = Range(record[id].approvedBy) \union {by}]
    BY <2>4, <2>5, <2>6
  <2>9. shown("pending") = "open" /\ shown("approved") = "approved"
    OBVIOUS
  <2> HIDE DEF shown
  <2>10. [i \in Ids |-> shown(record[i].state)]'
         = [[i \in Ids |-> shown(record[i].state)] EXCEPT ![id] = "approved"]
    BY <2>4, <2>5, <2>9
  <2>11. shown(record[id].state) = "open"
    BY <2>1, <2>9
  <2>12. [i \in Ids |-> record[i].quorum]' = [i \in Ids |-> record[i].quorum]
    BY <2>4, <2>5
  <2>13. Decision!Grant(id, by)
    BY <2>7, <2>8, <2>10, <2>11, <2>12 DEF Decision!Grant, shown
  <2> QED
    BY <2>13 DEF Decision!Next
<1>4. ASSUME NEW id \in Ids, NEW by \in Approvers, Deny(id, by)
      PROVE  Decision!Next
  BY <1>4, SettleRefines DEF Deny, Decision!Next
<1>5. ASSUME NEW id \in Ids, Cancel(id) \/ Expire(id)
      PROVE  Decision!Next
  BY <1>5, SettleRefines DEF Cancel, Expire, Decision!Next
<1>6. ASSUME Drain
      PROVE  Decision!Next
  <2>1. entries \in SUBSET Ids
    BY DEF IInv, TypeOK
  <2> QED
    BY <1>6, <2>1, SettleRefines DEF Drain, Decision!Next
<1>7. ASSUME UNCHANGED vars
      PROVE  UNCHANGED Decision!vars
  BY <1>7 DEF vars, Decision!vars
<1> QED
  BY <1>1, <1>2, <1>3, <1>4, <1>5, <1>6, <1>7 DEF Next, ApproveBy

(* The broker implements the abstract decision protocol.                   *)
THEOREM BrokerImplementsDecision == Spec => ImplementsQuorumDecision
  BY BrokerInvariant, InitRefines, NextRefines, PTL
     DEF Spec, ImplementsQuorumDecision, Decision!Spec

-----------------------------------------------------------------------------
(* The gate and the relay. *)

\* A decided request has resolved its promise, and a human's answer bears a human's name.
Resolved ==
  \A id \in Ids :
    /\ record[id].state \in Final => outcome[id].state # "pending"
    /\ outcome[id].state \in Outcomes => outcome[id].decidedBy \in Approvers

\* Where a call is, against its record: what it asked for is what is voted on, and what it
\* returned is how its promise was resolved.
Calls ==
  \A id \in Ids :
    /\ stage[id] = "idle" => record[id].state = "none"
    /\ stage[id] \in {"announcing", "waiting"} => record[id].state # "none"
    /\ stage[id] # "answered" => answer[id] = "none"
    /\ record[id].state # "none" => record[id].quorum = AtLeastOne(ask[id].quorum) /\ ask[id] \in Ask
    /\ answer[id] \in Outcomes => outcome[id].state = answer[id]

\* Some prompt for this key, asked with memory on, was answered this way by a human; a yes
\* is that of a rule which one approver satisfies.
AnsweredByHuman(key, how) ==
  \E id \in Ids : /\ ask[id].key = key /\ ask[id].useMemory
                  /\ answer[id] = how /\ how \in Outcomes
                  /\ how = "approved" => ask[id].quorum <= 1

\* Whatever the memory holds, and whatever was released by it, goes back to such a prompt.
Remembered ==
  /\ \A key \in Keys : memory[key].outcome # "none" => AnsweredByHuman(key, memory[key].outcome)
  /\ \A id \in Ids : answer[id] = "remembered_grant" =>
       ask[id].quorum <= 1 /\ AnsweredByHuman(ask[id].key, "approved")

GateInv == IInv /\ GateTypeOK /\ Resolved /\ Calls /\ Remembered /\ LeaversHoldNothing

\* A loop polls for an announced call only, and its one approval is the last thing it does.
Loops ==
  \A id \in Ids :
    /\ stage[id] \in {"idle", "announcing"} => loop[id] = "none"
    /\ loop[id] \in {"none", "polling"} => heard[id] = {}
    /\ \A a, b \in heard[id] : a = b

\* From the drain on, whatever is held was accepted since.
Drained ==
  /\ phase # "serving" => entries \subseteq late
  /\ phase = "exited" => \A id \in Ids : stage[id] = "waiting" => id \in late

RelayInv == GateInv /\ RelayTypeOK /\ Loops /\ LoopsEndWithTheCall /\ Drained

-----------------------------------------------------------------------------
\* What a decision does to the broker, whoever it comes from.

\* A decision from outside the call, or the client's own leaving.
Decides ==
  \/ \E id \in Ids, by \in Approvers : ApproveBy(id, by) \/ Deny(id, by)
  \/ \E id \in Ids : Cancel(id) \/ Expire(id)
  \/ Drain

\* No call is opened or put another question, and what ends is resolved.
Disposes ==
  /\ \A id \in Ids : /\ record'[id].state = "none" <=> record[id].state = "none"
                     /\ record'[id].quorum = record[id].quorum
  /\ entries' \subseteq entries
  /\ Resolved'

(* settle() opens no call and resolves the promises of those it ends.      *)
LEMMA SettleDisposes ==
  ASSUME IInv, Resolved, NEW S \in SUBSET Ids, NEW rec \in [Ids -> ApprovalRecord],
         \A id \in Ids : rec[id].state = record[id].state /\ rec[id].quorum = record[id].quorum,
         NEW state \in Final, NEW by \in Approvers \union {NoOne}, state \in Outcomes => by \in Approvers,
         Settle(rec, S, state, by)
  PROVE  Disposes
<1>1. ASSUME NEW id \in S
      PROVE  /\ record'[id].state = state /\ record'[id].quorum = record[id].quorum
             /\ outcome'[id].state = state /\ outcome'[id].decidedBy = by
             /\ record[id].state = "pending"
  <2>1. /\ rec[id] \in ApprovalRecord
        /\ record'[id] = [rec[id] EXCEPT !.state = state, !.decidedBy = by]
        /\ outcome'[id] = [state |-> state, decidedBy |-> by]
        /\ record[id].state = "pending"
    BY <1>1 DEF Settle, Pending
  <2> QED
    BY <1>1, <2>1 DEF ApprovalRecord
<1>2. ASSUME NEW id \in Ids \ S
      PROVE  /\ record'[id].state = record[id].state /\ record'[id].quorum = record[id].quorum
             /\ outcome'[id] = outcome[id]
  BY <1>2 DEF Settle
<1>3. Resolved'
  <2> SUFFICES ASSUME NEW id \in Ids
               PROVE  /\ record'[id].state \in Final => outcome'[id].state # "pending"
                      /\ outcome'[id].state \in Outcomes => outcome'[id].decidedBy \in Approvers
    BY DEF Resolved
  <2>1. CASE id \in S
    BY <1>1, <2>1 DEF Final
  <2>2. CASE id \notin S
    BY <1>2, <2>2 DEF Resolved
  <2> QED
    BY <2>1, <2>2
<1>4. \A id \in Ids : /\ record'[id].state = "none" <=> record[id].state = "none"
                      /\ record'[id].quorum = record[id].quorum
  BY <1>1, <1>2 DEF Final
<1> QED
  BY <1>3, <1>4 DEF Disposes, Settle

(* So does every vote, veto, timeout, disconnect and drain.                *)
LEMMA DecidesDisposes == ASSUME IInv, Resolved, Decides PROVE Disposes
<1>0. record \in [Ids -> ApprovalRecord]
  BY DEF IInv, TypeOK
<1>1. ASSUME NEW id \in Ids, NEW by \in Approvers
      PROVE  /\ WithVote(id, by) \in [Ids -> ApprovalRecord]
             /\ \A i \in Ids : /\ WithVote(id, by)[i].state = record[i].state
                               /\ WithVote(id, by)[i].quorum = record[i].quorum
  <2>1. VotesWith(id, by) \in Seq(Approvers)
    BY VoteTally DEF IInv
  <2> QED
    BY <1>0, <2>1 DEF WithVote, ApprovalRecord
<1>2. ASSUME NEW id \in Ids, NEW by \in Approvers, ApproveRecord(id, by) PROVE Disposes
  <2>1. record' = WithVote(id, by) /\ UNCHANGED <<entries, outcome>>
    BY <1>2 DEF ApproveRecord
  <2> QED
    BY <1>1, <2>1 DEF Disposes, Resolved
<1>3. ASSUME NEW id \in Ids, NEW by \in Approvers, ApproveSettle(id, by) PROVE Disposes
  <2>1. Settle(WithVote(id, by), {id}, "approved", by) /\ "approved" \in Final
    BY <1>3 DEF ApproveSettle, Final
  <2> QED
    BY <1>1, <2>1, SettleDisposes
<1>4. ASSUME NEW S \in SUBSET Ids, NEW state \in Final, NEW by \in Approvers \union {NoOne},
             state \in Outcomes => by \in Approvers, Settle(record, S, state, by)
      PROVE  Disposes
  BY <1>0, <1>4, SettleDisposes
<1>5. ASSUME NEW id \in Ids, NEW by \in Approvers, Deny(id, by) PROVE Disposes
  BY <1>4, <1>5 DEF Deny, Final
<1>6. ASSUME NEW id \in Ids, Cancel(id) \/ Expire(id) PROVE Disposes
  BY <1>4, <1>6 DEF Cancel, Expire, Final, Outcomes
<1>7. CASE Drain
  <2>1. entries \in SUBSET Ids
    BY DEF IInv, TypeOK
  <2> QED
    BY <1>4, <1>7, <2>1 DEF Drain, Final, Outcomes
<1> QED
  BY <1>2, <1>3, <1>5, <1>6, <1>7 DEF Decides, ApproveBy

(* A request held for a client that has gone is decided at once.           *)
LEMMA HoldGoneInv == ASSUME IInv, Resolved, NEW id \in Ids, NEW a \in Ask, HoldGone(id, a) PROVE IInv' /\ Resolved'
<1> DEFINE fresh == [state |-> "abandoned", quorum |-> AtLeastOne(a.quorum), approvedBy |-> <<>>, decidedBy |-> NoOne]
           left == [state |-> "abandoned", decidedBy |-> NoOne]
<1>1. fresh \in ApprovalRecord /\ left \in ApprovalOutcome
  <2>1. a.quorum \in QuorumArgs
    BY GateAssumption DEF Ask
  <2>2. AtLeastOne(a.quorum) \in Nat /\ <<>> \in Seq(Approvers)
    BY <2>1, QuorumAtLeastOne
  <2> QED
    BY <2>2 DEF ApprovalRecord, ApprovalOutcome, Final
<1>2. /\ record' = [record EXCEPT ![id] = fresh] /\ outcome' = [outcome EXCEPT ![id] = left]
      /\ UNCHANGED <<entries, timers>> /\ record[id].state = "none"
  BY DEF HoldGone
<1>3. fresh.state = "abandoned" /\ fresh.approvedBy = <<>> /\ left.state = "abandoned"
      /\ left = [state |-> fresh.state, decidedBy |-> fresh.decidedBy]
  OBVIOUS
<1> HIDE DEF fresh, left
<1>4. /\ record'[id] = fresh /\ outcome'[id] = left
      /\ \A i \in Ids \ {id} : record'[i] = record[i] /\ outcome'[i] = outcome[i]
  BY <1>2 DEF IInv, TypeOK
<1>5. TypeOK'
  BY <1>1, <1>2 DEF IInv, TypeOK
<1>6. HeldIffTimed'
  <2> SUFFICES ASSUME NEW i \in Ids
               PROVE  /\ i \in entries' <=> record'[i].state = "pending"
                      /\ outcome'[i].state # "pending" =>
                           outcome'[i] = [state |-> record'[i].state, decidedBy |-> record'[i].decidedBy]
    BY <1>2 DEF IInv, HeldIffTimed
  <2>1. CASE i = id
    BY <2>1, <1>2, <1>3, <1>4 DEF IInv, HeldIffTimed
  <2>2. CASE i # id
    BY <2>2, <1>2, <1>4 DEF IInv, HeldIffTimed
  <2> QED
    BY <2>1, <2>2
<1>7. NoIdleQuorum'
  BY <1>2, <1>4 DEF IInv, TypeOK, NoIdleQuorum, HeldIffTimed
<1>8. QuorumMet'
  BY <1>3, <1>4 DEF IInv, QuorumMet
<1>9. Resolved'
  BY <1>3, <1>4 DEF Resolved, Outcomes
<1>10. \A i \in Ids : record'[i].state = "none" => record'[i].approvedBy = <<>>
  BY <1>3, <1>4 DEF IInv
<1> QED
  BY <1>5, <1>6, <1>7, <1>8, <1>9, <1>10 DEF IInv

-----------------------------------------------------------------------------
\* The approval gate.

\* A memory that has forgotten something and learnt nothing.
Forgets == memory' \in [Keys -> MemoryEntry] /\ \A key \in Keys : memory'[key] \in {memory[key], NoEntry}

(* Dropping the oldest entry forgets, and does nothing else.               *)
LEMMA EvictForgets ==
  ASSUME NEW mem \in [Keys -> MemoryEntry]
  PROVE  Evict(mem) \in [Keys -> MemoryEntry] /\ \A key \in Keys : Evict(mem)[key] \in {mem[key], NoEntry}
<1>1. NoEntry \in MemoryEntry
  BY DEF NoEntry, MemoryEntry
<1> QED
  BY <1>1 DEF Evict

(* What was answered by a human stays so, for a call returns once and a    *)
(* promise is resolved once.                                               *)
LEMMA HumansAnswersStay ==
  ASSUME GateInv, NEW key, NEW how, AnsweredByHuman(key, how),
         \A id \in Ids : answer[id] # "none" => ask'[id] = ask[id] /\ answer'[id] = answer[id]
  PROVE  AnsweredByHuman(key, how)'
<1>1. PICK id \in Ids : /\ ask[id].key = key /\ ask[id].useMemory
                        /\ answer[id] = how /\ how \in Outcomes
                        /\ how = "approved" => ask[id].quorum <= 1
  BY DEF AnsweredByHuman
<1>2. answer[id] # "none"
  BY <1>1 DEF Outcomes
<1>3. ask'[id] = ask[id] /\ answer'[id] = answer[id]
  BY <1>2
<1> QED
  BY <1>1, <1>3 DEF AnsweredByHuman

(* What releases by memory stays accounted for while nothing is learnt.    *)
LEMMA ForgettingKeepsRemembered ==
  ASSUME GateInv, Forgets,
         \A id \in Ids : answer[id] # "none" => ask'[id] = ask[id] /\ answer'[id] = answer[id],
         \A id \in Ids : answer'[id] = "remembered_grant" /\ answer[id] # "remembered_grant" =>
           ask'[id].quorum <= 1 /\ AnsweredByHuman(ask'[id].key, "approved")
  PROVE  Remembered'
<1>1. ASSUME NEW key \in Keys, memory'[key].outcome # "none"
      PROVE  AnsweredByHuman(key, memory[key].outcome)'
  <2>1. memory'[key] = memory[key]
    BY <1>1 DEF Forgets, NoEntry
  <2>2. PICK how : how = memory[key].outcome /\ AnsweredByHuman(key, how)
    BY <1>1, <2>1 DEF GateInv, Remembered
  <2>3. AnsweredByHuman(key, how)'
    BY <2>2, HumansAnswersStay
  <2> QED
    BY <2>1, <2>2, <2>3 DEF AnsweredByHuman
<1>2. ASSUME NEW id \in Ids, answer'[id] = "remembered_grant"
      PROVE  ask'[id].quorum <= 1 /\ AnsweredByHuman(ask[id].key, "approved")'
  <2>1. CASE answer[id] = "remembered_grant"
    <3>1. ask'[id] = ask[id] /\ ask[id].quorum <= 1 /\ AnsweredByHuman(ask[id].key, "approved")
      BY <2>1 DEF GateInv, Remembered
    <3>2. PICK key : key = ask'[id].key /\ AnsweredByHuman(key, "approved")
      BY <3>1
    <3>3. AnsweredByHuman(key, "approved")'
      BY <3>2, HumansAnswersStay
    <3> QED
      BY <3>1, <3>2, <3>3 DEF AnsweredByHuman
  <2>2. CASE answer[id] # "remembered_grant"
    <3>1. PICK key : key = ask'[id].key /\ AnsweredByHuman(key, "approved") /\ ask'[id].quorum <= 1
      BY <1>2, <2>2
    <3>2. AnsweredByHuman(key, "approved")'
      BY <3>1, HumansAnswersStay
    <3> QED
      BY <3>1, <3>2 DEF AnsweredByHuman
  <2> QED
    BY <2>1, <2>2
<1> QED
  BY <1>1, <1>2 DEF Remembered

(* The gate's invariant survives whatever only decides, waits, leaves or   *)
(* forgets: no call is opened or returns.                                  *)
LEMMA DecidedKeeps ==
  ASSUME GateInv, Decides \/ UNCHANGED vars, Forgets, UNCHANGED <<ask, answer>>,
         stage' \in [Ids -> {"idle", "announcing", "waiting", "answered"}],
         \A id \in Ids : stage'[id] = stage[id] \/ (stage[id] = "announcing" /\ stage'[id] = "waiting"),
         gone' \subseteq Ids, entries' \intersect gone' = {},
         turn' \in Nat, horizon' \in 0..turn'
  PROVE  GateInv'
<1>1. [Next]_vars
  BY DEF Decides, Next
<1>2. IInv'
  BY <1>1, NextInv DEF GateInv
<1>3. Disposes
  <2>1. CASE Decides
    BY <2>1, DecidesDisposes DEF GateInv
  <2>2. CASE UNCHANGED vars
    BY <2>2 DEF vars, Disposes, Resolved, GateInv
  <2> QED
    BY <2>1, <2>2
<1>4. GateTypeOK'
  BY <1>2 DEF GateInv, GateTypeOK, IInv, Forgets
<1>5. \A id \in Ids : outcome[id].state # "pending" => outcome'[id] = outcome[id]
  BY <1>1, SettledStay DEF GateInv
<1>6. Calls'
  BY <1>3, <1>5 DEF GateInv, Calls, Disposes, Outcomes
<1>7. Remembered'
  BY ForgettingKeepsRemembered
<1> QED
  BY <1>2, <1>3, <1>4, <1>6, <1>7 DEF GateInv, Disposes, LeaversHoldNothing

(* Nothing is answered, held or prompted for twice: what Begin opens was   *)
(* idle, and has neither a record nor an answer.                           *)
LEMMA BeginKeeps == ASSUME GateInv, NEW id \in Ids, NEW a \in Ask, Begin(id, a) PROVE GateInv'
<1>1. /\ stage[id] = "idle" /\ record[id].state = "none" /\ answer[id] = "none"
      /\ ask' = [ask EXCEPT ![id] = a] /\ gone' = gone
  BY DEF Begin, RecallGrant, RecallDeny, CapacityDeny, Hold, HoldGone, Prompts, Called, GateInv, Calls
<1>2. ask'[id] = a /\ (\A i \in Ids \ {id} : ask'[i] = ask[i]) /\ ask' \in [Ids -> Ask \union {NoAsk}]
  BY <1>1 DEF GateInv, GateTypeOK
<1>3. Forgets /\ turn' = turn /\ horizon' = horizon
  <2>1. UNCHANGED memoryVars \/ Swept(a)
    BY DEF Begin, RecallGrant, RecallDeny, CapacityDeny, Hold, HoldGone, Prompts
  <2>2. (memory' = memory \/ memory' = [memory EXCEPT ![a.key] = NoEntry]) /\ turn' = turn /\ horizon' = horizon
    BY <2>1 DEF Swept, memoryVars
  <2>3. NoEntry \in MemoryEntry /\ memory \in [Keys -> MemoryEntry]
    BY DEF NoEntry, MemoryEntry, GateInv, GateTypeOK
  <2> QED
    BY <2>2, <2>3 DEF Forgets
<1>4. ASSUME NEW how \in Blocked \union Released, how \notin Outcomes, Answer(id, how), UNCHANGED vars,
             how = "remembered_grant" => a.quorum <= 1 /\ AnsweredByHuman(a.key, "approved")
      PROVE  GateInv'
  <2>1. IInv' /\ Resolved'
    BY <1>4, NextInv DEF GateInv, Resolved, vars
  <2>2. /\ stage'[id] = "answered" /\ answer'[id] = how
        /\ \A i \in Ids \ {id} : stage'[i] = stage[i] /\ answer'[i] = answer[i]
    BY <1>4 DEF Answer, GateInv, GateTypeOK
  <2>3. GateTypeOK'
    BY <1>1, <1>2, <1>3, <1>4, <2>1 DEF GateInv, GateTypeOK, Answer, IInv, Forgets
  <2>4. Calls'
    BY <1>1, <1>2, <1>4, <2>2 DEF GateInv, Calls, vars
  <2>5. Remembered'
    BY <1>1, <1>2, <1>3, <1>4, <2>2, ForgettingKeepsRemembered
  <2>6. LeaversHoldNothing'
    BY <1>1, <1>4 DEF GateInv, LeaversHoldNothing, vars
  <2> QED
    BY <2>1, <2>3, <2>4, <2>5, <2>6 DEF GateInv
<1>5. CASE RecallGrant(id, a)
  <2>1. a.quorum <= 1 /\ AnsweredByHuman(a.key, "approved")
    BY <1>5 DEF RecallGrant, SkipsPrompt, Recalled, Live, GateInv, Remembered, Ask
  <2> QED
    BY <1>4, <1>5, <2>1 DEF RecallGrant, Released, Outcomes
<1>6. CASE RecallDeny(id, a)
  BY <1>4, <1>6 DEF RecallDeny, Blocked, Outcomes
<1>7. CASE CapacityDeny(id, a)
  BY <1>4, <1>7 DEF CapacityDeny, Blocked, Outcomes
<1>8. ASSUME NEW s \in {"announcing", "waiting"}, stage' = [stage EXCEPT ![id] = s], UNCHANGED answer,
             IInv', Resolved', entries' \intersect gone = {},
             record'[id].state # "none", record'[id].quorum = AtLeastOne(a.quorum),
             \A i \in Ids \ {id} : record'[i] = record[i] /\ outcome'[i] = outcome[i]
      PROVE  GateInv'
  <2>1. stage'[id] = s /\ \A i \in Ids \ {id} : stage'[i] = stage[i]
    BY <1>8 DEF GateInv, GateTypeOK
  <2>2. GateTypeOK'
    BY <1>1, <1>2, <1>3, <1>8 DEF GateInv, GateTypeOK, IInv, Forgets
  <2>3. Calls'
    BY <1>1, <1>2, <1>8, <2>1 DEF GateInv, Calls, Outcomes
  <2>4. Remembered'
    BY <1>1, <1>2, <1>3, <1>8, ForgettingKeepsRemembered
  <2> QED
    BY <1>1, <1>8, <2>2, <2>3, <2>4 DEF GateInv, LeaversHoldNothing
<1>9. CASE Hold(id, a)
  <2>0. Create(id, a.quorum) /\ a.quorum \in QuorumArgs
    BY <1>9, GateAssumption DEF Hold, Ask
  <2>1. IInv'
    BY <2>0, NextInv DEF Next, GateInv
  <2>2. /\ record'[id].state = "pending" /\ record'[id].quorum = AtLeastOne(a.quorum)
        /\ \A i \in Ids \ {id} : record'[i] = record[i]
        /\ entries' = entries \union {id} /\ outcome' = outcome
    BY <2>0 DEF Create, GateInv, IInv, TypeOK
  <2>3. Resolved'
    BY <2>2 DEF GateInv, Resolved, Final
  <2>4. entries' \intersect gone = {}
    BY <1>9, <2>2 DEF Hold, GateInv, LeaversHoldNothing
  <2>5. PICK s \in {"announcing", "waiting"} : stage' = [stage EXCEPT ![id] = s] /\ UNCHANGED answer
    BY <1>9 DEF Hold
  <2> QED
    BY <1>8, <2>1, <2>2, <2>3, <2>4, <2>5
<1>10. CASE HoldGone(id, a)
  <2>1. IInv' /\ Resolved'
    BY <1>10, HoldGoneInv DEF GateInv
  <2>2. /\ record'[id].state = "abandoned" /\ record'[id].quorum = AtLeastOne(a.quorum)
        /\ \A i \in Ids \ {id} : record'[i] = record[i] /\ outcome'[i] = outcome[i]
        /\ entries' = entries /\ stage' = [stage EXCEPT ![id] = "waiting"] /\ UNCHANGED answer
    BY <1>10 DEF HoldGone, GateInv, IInv, TypeOK
  <2>3. entries' \intersect gone = {}
    BY <2>2 DEF GateInv, LeaversHoldNothing
  <2> QED
    BY <1>8, <2>1, <2>2, <2>3
<1> QED
  BY <1>5, <1>6, <1>7, <1>9, <1>10 DEF Begin

(* What a call returns is how its promise was resolved, and only a human's *)
(* answer to a prompt that asked for it is remembered.                     *)
LEMMA ResumeKeeps == ASSUME GateInv, NEW id \in Ids, Resume(id) PROVE GateInv'
<1>1. /\ stage[id] = "waiting" /\ outcome[id].state # "pending" /\ answer[id] = "none"
      /\ UNCHANGED <<vars, ask, gone>>
  BY DEF Resume, ResumeAbandoned, ResumeApproved, ResumeDenied, ResumeExpired, Resumable, GateInv, Calls
<1>2. PICK how \in {"abandoned", "approved", "denied", "expired"} :
        /\ Answer(id, how)
        /\ how \in Outcomes => outcome[id].state = how
        /\ \/ UNCHANGED memoryVars
           \/ /\ Remember(ask[id].key, how) /\ how \in Outcomes /\ ask[id].useMemory
              /\ how = "approved" => ask[id].quorum <= 1
  BY DEF Resume, ResumeAbandoned, ResumeApproved, ResumeDenied, ResumeExpired, RememberIf, Outcomes
<1>3. /\ stage'[id] = "answered" /\ answer'[id] = how
      /\ \A i \in Ids \ {id} : stage'[i] = stage[i] /\ answer'[i] = answer[i]
      /\ answer' \in [Ids -> Blocked \union Released \union {"none"}]
      /\ stage' \in [Ids -> {"idle", "announcing", "waiting", "answered"}]
  BY <1>2 DEF Answer, GateInv, GateTypeOK, Blocked, Released
<1>4. IInv' /\ Resolved' /\ LeaversHoldNothing'
  BY <1>1, NextInv DEF GateInv, Resolved, LeaversHoldNothing, vars
<1>5. Calls'
  BY <1>1, <1>2, <1>3 DEF GateInv, Calls, vars
<1>6. ask[id] \in Ask
  BY <1>1 DEF GateInv, Calls
<1>7. CASE UNCHANGED memoryVars
  <2>1. Forgets /\ memory' \in [Keys -> MemoryEntry] /\ turn' \in Nat /\ horizon' \in 0..turn'
    BY <1>7 DEF Forgets, memoryVars, GateInv, GateTypeOK
  <2>2. Remembered'
    BY <1>1, <1>3, <2>1, ForgettingKeepsRemembered
  <2> QED
    BY <1>1, <1>3, <1>4, <1>5, <2>1, <2>2 DEF GateInv, GateTypeOK, IInv
<1>8. CASE /\ Remember(ask[id].key, how) /\ how \in Outcomes /\ ask[id].useMemory
           /\ how = "approved" => ask[id].quorum <= 1
  <2> DEFINE key == ask[id].key
             entry == [outcome |-> how, turn |-> turn + 1]
             mem == [memory EXCEPT ![key] = entry]
  <2>1. key \in Keys /\ memory \in [Keys -> MemoryEntry] /\ turn \in Nat /\ horizon \in 0..turn
    BY <1>6 DEF Ask, GateInv, GateTypeOK
  <2>2. mem \in [Keys -> MemoryEntry]
    BY <1>8, <2>1 DEF MemoryEntry
  <2>3. mem[key].outcome = how /\ \A k \in Keys \ {key} : mem[k] = memory[k]
    BY <2>1
  <2>4. memory' = Evict(mem) /\ turn' = turn + 1 /\ horizon' = horizon
    BY <1>8 DEF Remember
  <2> HIDE DEF mem
  <2>5. memory' \in [Keys -> MemoryEntry] /\ \A k \in Keys : memory'[k] \in {mem[k], NoEntry}
    BY <2>2, <2>4, EvictForgets
  <2>6. GateTypeOK'
    BY <1>1, <1>3, <1>4, <2>1, <2>4, <2>5 DEF GateInv, GateTypeOK, IInv
  <2>7. \A i \in Ids : answer[i] # "none" => ask'[i] = ask[i] /\ answer'[i] = answer[i]
    BY <1>1, <1>3
  <2>8. ASSUME NEW k \in Keys, memory'[k].outcome # "none"
        PROVE  AnsweredByHuman(k, memory[k].outcome)'
    <3>1. memory'[k] = mem[k]
      BY <2>5, <2>8 DEF NoEntry
    <3>2. CASE k = key
      BY <1>1, <1>3, <1>8, <2>3, <3>1, <3>2 DEF AnsweredByHuman
    <3>3. CASE k # key
      <4>1. PICK h : h = memory[k].outcome /\ AnsweredByHuman(k, h)
        BY <2>3, <2>8, <3>1, <3>3 DEF GateInv, Remembered
      <4>2. AnsweredByHuman(k, h)'
        BY <2>7, <4>1, HumansAnswersStay
      <4> QED
        BY <2>3, <3>1, <3>3, <4>1, <4>2 DEF AnsweredByHuman
    <3> QED
      BY <3>2, <3>3
  <2>9. ASSUME NEW i \in Ids, answer'[i] = "remembered_grant"
        PROVE  ask'[i].quorum <= 1 /\ AnsweredByHuman(ask[i].key, "approved")'
    <3>1. answer[i] = "remembered_grant"
      BY <1>2, <1>3, <2>9
    <3>2. PICK k : k = ask[i].key /\ ask[i].quorum <= 1 /\ AnsweredByHuman(k, "approved")
      BY <3>1 DEF GateInv, Remembered
    <3>3. AnsweredByHuman(k, "approved")'
      BY <2>7, <3>2, HumansAnswersStay
    <3> QED
      BY <1>1, <3>2, <3>3 DEF AnsweredByHuman
  <2>10. Remembered'
    BY <2>8, <2>9 DEF Remembered
  <2> QED
    BY <1>4, <1>5, <2>6, <2>10 DEF GateInv
<1> QED
  BY <1>2, <1>7, <1>8

LEMMA GateInitInv == GateInit => GateInv
<1> SUFFICES ASSUME GateInit PROVE GateInv
  OBVIOUS
<1>1. IInv
  BY InitInv DEF GateInit
<1>2. GateTypeOK
  BY <1>1 DEF GateInit, GateTypeOK, IInv, MemoryEntry, NoEntry
<1>3. Resolved /\ Calls /\ LeaversHoldNothing
  BY DEF GateInit, Init, Resolved, Calls, LeaversHoldNothing, NoRecord, NoOutcome, Final, Outcomes
<1>4. Remembered
  BY DEF GateInit, Remembered, NoEntry
<1> QED
  BY <1>1, <1>2, <1>3, <1>4 DEF GateInv

(* Every step of the gate keeps its invariant.                             *)
LEMMA GateNextInv == GateInv /\ [GateNext]_gateVars => GateInv'
<1> SUFFICES ASSUME GateInv, [GateNext]_gateVars PROVE GateInv'
  OBVIOUS
<1>0. /\ GateTypeOK /\ memory \in [Keys -> MemoryEntry] /\ turn \in Nat /\ horizon \in 0..turn
      /\ gone \subseteq Ids /\ stage \in [Ids -> {"idle", "announcing", "waiting", "answered"}]
      /\ entries \intersect gone = {} /\ NoEntry \in MemoryEntry
  BY DEF GateInv, GateTypeOK, LeaversHoldNothing, NoEntry, MemoryEntry
<1>1. ASSUME Decides, UNCHANGED <<callVars, memoryVars>> PROVE GateInv'
  <2>1. entries' \intersect gone = {}
    BY <1>0, <1>1, DecidesDisposes DEF Disposes, GateInv
  <2>2. Forgets
    BY <1>0, <1>1 DEF Forgets, memoryVars
  <2> QED
    BY <1>0, <1>1, <2>1, <2>2, DecidedKeeps DEF callVars, memoryVars
<1>2. CASE Decide
  BY <1>1, <1>2 DEF Decide, Decides
<1>3. ASSUME NEW id \in Ids, NEW a \in Ask, Begin(id, a) PROVE GateInv'
  BY <1>3, BeginKeeps
<1>4. ASSUME NEW id \in Ids, Announced(id) PROVE GateInv'
  <2>1. Forgets
    BY <1>0, <1>4 DEF Announced, Forgets, memoryVars
  <2> QED
    BY <1>0, <1>4, <2>1, DecidedKeeps DEF Announced, memoryVars, vars
<1>5. ASSUME NEW id \in Ids, Resume(id) PROVE GateInv'
  BY <1>5, ResumeKeeps
<1>6. ASSUME NEW id \in Ids, Disconnect(id) PROVE GateInv'
  <2>1. Forgets /\ gone' = gone \union {id} /\ UNCHANGED <<stage, ask, answer, turn, horizon>>
    BY <1>0, <1>6 DEF Disconnect, Forgets, memoryVars
  <2>2. CASE Cancel(id)
    <3>1. entries' = entries \ {id}
      BY <2>2 DEF Cancel, Settle
    <3> QED
      BY <1>0, <2>1, <2>2, <3>1, DecidedKeeps DEF Decides
  <2>3. CASE UNCHANGED vars /\ ~Pending(id)
    <3>1. id \notin entries
      BY <2>3 DEF Pending, GateInv, IInv, HeldIffTimed
    <3> QED
      BY <1>0, <2>1, <2>3, <3>1, DecidedKeeps DEF vars
  <2> QED
    BY <1>6, <2>2, <2>3 DEF Disconnect
<1>7. CASE Lapse \/ Clear
  <2>1. UNCHANGED <<vars, stage, ask, gone, answer>> /\ turn' = turn
    BY <1>7 DEF Lapse, Clear, callVars
  <2>2. Forgets
    BY <1>0, <1>7 DEF Lapse, Clear, Forgets
  <2>3. horizon' \in 0..turn
    BY <1>0, <1>7 DEF Lapse, Clear
  <2> QED
    BY <1>0, <2>1, <2>2, <2>3, DecidedKeeps DEF vars
<1>8. CASE UNCHANGED gateVars
  <2>1. Forgets
    BY <1>0, <1>8 DEF Forgets, gateVars, memoryVars
  <2> QED
    BY <1>0, <1>8, <2>1, DecidedKeeps DEF gateVars, callVars, memoryVars, vars
<1> QED
  BY <1>2, <1>3, <1>4, <1>5, <1>6, <1>7, <1>8 DEF GateNext

THEOREM GateInvariant == GateSpec => []GateInv
  BY GateInitInv, GateNextInv, PTL DEF GateSpec

(* The relay and the end of the process only add callers to the gate: each *)
(* of their steps is one of the gate's, or none.                           *)
LEMMA RelayIsGate == [RelayNext]_allVars => [GateNext]_gateVars
<1> SUFFICES ASSUME [RelayNext]_allVars PROVE [GateNext]_gateVars
  OBVIOUS
<1>1. ASSUME NEW id \in Ids, NEW a \in Ask, RelayBegin(id, a) PROVE GateNext
  BY <1>1 DEF RelayBegin, GateNext
<1>2. ASSUME NEW id \in Ids, RelayAnnounced(id) \/ RelayResume(id) \/ Disconnect(id) PROVE GateNext
  BY <1>2 DEF RelayAnnounced, RelayResume, GateNext
<1>3. ASSUME NEW id \in Ids, PollLoop(id) PROVE [GateNext]_gateVars
  <2>1. ASSUME NEW by \in Approvers, PollApproved(id, by) PROVE [GateNext]_gateVars
    BY <2>1 DEF PollApproved, Decide, GateNext, gateVars, callVars, memoryVars
  <2>2. ASSUME NEW by \in Approvers, PollDenied(id, by) PROVE [GateNext]_gateVars
    BY <2>2 DEF PollDenied, Decide, GateNext, gateVars, callVars, memoryVars
  <2>3. CASE PollEnds(id)
    BY <2>3 DEF PollEnds
  <2> QED
    BY <1>3, <2>1, <2>2, <2>3 DEF PollLoop
<1>4. CASE Locally
  BY <1>4 DEF Locally, Decide, GateNext
<1>5. CASE Shutdown
  BY <1>5 DEF Shutdown, DrainBroker, Decide, GateNext, gateVars
<1>6. CASE Exit
  BY <1>6 DEF Exit
<1>7. CASE Lapse \/ Clear
  BY <1>7 DEF GateNext
<1>8. CASE UNCHANGED allVars
  BY <1>8 DEF allVars
<1> QED
  BY <1>1, <1>2, <1>3, <1>4, <1>5, <1>6, <1>7, <1>8 DEF RelayNext

-----------------------------------------------------------------------------
\* The relay and the process.

LEMMA RelayInitInv == RelayInit => RelayInv
<1> SUFFICES ASSUME RelayInit PROVE RelayInv
  OBVIOUS
<1>1. GateInv
  BY GateInitInv DEF RelayInit
<1>2. RelayTypeOK /\ Loops /\ LoopsEndWithTheCall /\ Drained
  BY <1>1 DEF RelayInit, GateInv, RelayTypeOK, Loops, LoopsEndWithTheCall, Drained
<1> QED
  BY <1>1, <1>2 DEF RelayInv

(* Only a call that begins adds to what is held, and one that does so      *)
(* after the drain is counted as late.                                     *)
LEMMA DrainedStays == ASSUME RelayInv, RelayNext PROVE Drained'
<1>0. GateInv /\ Resolved /\ IInv /\ phase # "exited" /\ phase \in {"serving", "draining", "exited"}
  BY DEF RelayInv, GateInv, RelayTypeOK, RelayNext
<1>1. ASSUME NEW id \in Ids, NEW a \in Ask, RelayBegin(id, a) PROVE Drained'
  <2>1. entries' \subseteq entries \union {id} /\ phase' = phase
    BY <1>1 DEF RelayBegin, Begin, RecallGrant, RecallDeny, CapacityDeny, Hold, HoldGone, Create, vars
  <2> QED
    BY <1>0, <1>1, <2>1 DEF RelayBegin, RelayInv, Drained
<1>2. ASSUME Decides \/ UNCHANGED vars, UNCHANGED processVars PROVE Drained'
  <2>1. entries' \subseteq entries
    BY <1>0, <1>2, DecidesDisposes DEF Disposes, vars
  <2> QED
    BY <1>0, <1>2, <2>1 DEF processVars, RelayInv, Drained
<1>3. ASSUME NEW id \in Ids, RelayAnnounced(id) \/ RelayResume(id) PROVE Drained'
  BY <1>2, <1>3 DEF RelayAnnounced, Announced, RelayResume, Resume, ResumeAbandoned, ResumeApproved, ResumeDenied, ResumeExpired
<1>4. ASSUME NEW id \in Ids, PollLoop(id) PROVE Drained'
  <2>1. (Decides \/ UNCHANGED vars) /\ UNCHANGED processVars
    BY <1>4 DEF PollLoop, PollApproved, PollDenied, PollEnds, Decides, gateVars
  <2> QED
    BY <1>2, <2>1
<1>5. ASSUME NEW id \in Ids, Disconnect(id) /\ UNCHANGED <<relayVars, processVars>> PROVE Drained'
  BY <1>2, <1>5 DEF Disconnect, Decides
<1>6. CASE (Lapse \/ Clear) /\ UNCHANGED <<relayVars, processVars>>
  BY <1>2, <1>6 DEF Lapse, Clear
<1>7. CASE Locally
  BY <1>2, <1>7 DEF Locally, Decides
<1>8. CASE Shutdown
  <2>1. entries' = {} /\ phase' = "draining"
    BY <1>8 DEF Shutdown, DrainBroker, Drain, Settle, vars
  <2> QED
    BY <2>1 DEF Drained
<1>9. CASE Exit
  <2>1. phase = "draining" /\ phase' = "exited" /\ UNCHANGED <<gateVars, late>> /\ \A id \in Ids : ~Resumable(id)
    BY <1>9 DEF Exit
  <2>2. ASSUME NEW id \in Ids, stage[id] = "waiting" PROVE id \in entries
    <3>1. outcome[id].state = "pending" /\ record[id].state # "none"
      BY <1>0, <2>1, <2>2 DEF Resumable, GateInv, Calls
    <3>2. record[id].state \notin Final
      BY <1>0, <3>1 DEF Resolved
    <3>3. record[id].state = "pending"
      BY <1>0, <3>1, <3>2 DEF IInv, TypeOK, ApprovalRecord
    <3> QED
      BY <1>0, <3>3 DEF IInv, HeldIffTimed
  <2>3. entries \subseteq late
    BY <2>1 DEF RelayInv, Drained
  <2> QED
    BY <2>1, <2>2, <2>3 DEF Drained, gateVars, vars, callVars
<1> QED
  BY <1>1, <1>3, <1>4, <1>5, <1>6, <1>7, <1>8, <1>9 DEF RelayNext

(* A loop is opened by an announcement, adds one voice at most, and is     *)
(* told to stop when the call returns.                                     *)
LEMMA LoopsStay == ASSUME RelayInv, RelayNext PROVE RelayTypeOK' /\ Loops' /\ LoopsEndWithTheCall'
<1>0. /\ GateInv /\ RelayTypeOK /\ Loops /\ LoopsEndWithTheCall
      /\ stage \in [Ids -> {"idle", "announcing", "waiting", "answered"}]
      /\ answer \in [Ids -> Blocked \union Released \union {"none"}]
      /\ loop \in [Ids -> {"none", "polling", "ended"}]
      /\ heard \in [Ids -> SUBSET Approvers] /\ aborted \subseteq Ids /\ late \subseteq Ids
  BY DEF RelayInv, RelayTypeOK, GateTypeOK
<1>1. GateTypeOK' /\ GateInv'
  BY <1>0, RelayIsGate, GateNextInv DEF GateInv
<1> USE <1>0, <1>1
<1>2. ASSUME NEW id \in Ids, NEW a \in Ask, RelayBegin(id, a)
      PROVE  RelayTypeOK' /\ Loops' /\ LoopsEndWithTheCall'
  <2>1. /\ stage[id] = "idle" /\ UNCHANGED <<loop, aborted, heard, phase>> /\ loop[id] = "none" /\ late' \subseteq Ids
        /\ \A i \in Ids \ {id} : stage'[i] = stage[i] /\ answer'[i] = answer[i]
    BY <1>2 DEF RelayBegin, relayVars, Begin, RecallGrant, RecallDeny, CapacityDeny, Hold, HoldGone, Prompts, Called, Answer, Loops
  <2> QED
    BY <2>1 DEF RelayTypeOK, Loops, LoopsEndWithTheCall
<1>3. ASSUME NEW id \in Ids, RelayAnnounced(id)
      PROVE  RelayTypeOK' /\ Loops' /\ LoopsEndWithTheCall'
  <2>1. /\ stage[id] = "announcing" /\ stage'[id] = "waiting" /\ loop[id] = "none" /\ answer[id] = "none"
        /\ UNCHANGED <<answer, aborted, heard, phase, late>> /\ loop'[id] \in {"none", "polling"}
        /\ loop' \in [Ids -> {"none", "polling", "ended"}]
        /\ \A i \in Ids \ {id} : stage'[i] = stage[i] /\ loop'[i] = loop[i]
    BY <1>3 DEF RelayAnnounced, Announced, processVars, Loops, GateInv, Calls
  <2> QED
    BY <2>1 DEF RelayTypeOK, Loops, LoopsEndWithTheCall
<1>4. ASSUME NEW id \in Ids, PollLoop(id)
      PROVE  RelayTypeOK' /\ Loops' /\ LoopsEndWithTheCall'
  <2>1. /\ loop[id] = "polling" /\ loop' = [loop EXCEPT ![id] = "ended"]
        /\ UNCHANGED <<stage, answer, aborted, phase, late>>
        /\ \/ heard' = heard
           \/ \E by \in Approvers : heard' = [heard EXCEPT ![id] = @ \union ({by} \ Range(record[id].approvedBy))]
    BY <1>4 DEF PollLoop, PollApproved, PollDenied, PollEnds, AfterApproval, callVars, processVars, gateVars
  <2>2. loop'[id] = "ended" /\ \A i \in Ids \ {id} : loop'[i] = loop[i] /\ heard'[i] = heard[i]
    BY <2>1
  <2>3. heard[id] = {} /\ stage[id] \notin {"idle", "announcing"}
    BY <2>1 DEF Loops
  <2>4. heard' \in [Ids -> SUBSET Approvers] /\ \A a, b \in heard'[id] : a = b
    <3>1. CASE heard' = heard
      BY <2>3, <3>1
    <3>2. ASSUME NEW by \in Approvers, heard' = [heard EXCEPT ![id] = @ \union ({by} \ Range(record[id].approvedBy))]
          PROVE  heard' \in [Ids -> SUBSET Approvers] /\ \A a, b \in heard'[id] : a = b
      BY <2>3, <3>2
    <3> QED
      BY <2>1, <3>1, <3>2
  <2>5. RelayTypeOK'
    BY <2>1, <2>4 DEF RelayTypeOK
  <2>6. Loops'
    BY <2>1, <2>2, <2>3, <2>4 DEF Loops
  <2>7. LoopsEndWithTheCall'
    BY <2>1, <2>2 DEF LoopsEndWithTheCall
  <2> QED
    BY <2>5, <2>6, <2>7
<1>5. ASSUME NEW id \in Ids, RelayResume(id)
      PROVE  RelayTypeOK' /\ Loops' /\ LoopsEndWithTheCall'
  <2>1. /\ UNCHANGED <<loop, heard, phase, late>> /\ stage'[id] = "answered"
        /\ \A i \in Ids \ {id} : stage'[i] = stage[i] /\ answer'[i] = answer[i]
        /\ aborted' = IF loop[id] = "polling" THEN aborted \union {id} ELSE aborted
    BY <1>5 DEF RelayResume, Closed, Resume, ResumeAbandoned, ResumeApproved, ResumeDenied, ResumeExpired, Answer, processVars
  <2> QED
    BY <2>1 DEF RelayTypeOK, Loops, LoopsEndWithTheCall
<1>6. ASSUME UNCHANGED <<stage, answer, loop, aborted, heard>>, phase' \in {"serving", "draining", "exited"}, late' = late
      PROVE  RelayTypeOK' /\ Loops' /\ LoopsEndWithTheCall'
  BY <1>6 DEF RelayTypeOK, Loops, LoopsEndWithTheCall
<1>7. ASSUME NEW id \in Ids, Disconnect(id) /\ UNCHANGED <<relayVars, processVars>>
      PROVE  RelayTypeOK' /\ Loops' /\ LoopsEndWithTheCall'
  BY <1>6, <1>7 DEF Disconnect, relayVars, processVars, RelayTypeOK
<1>8. CASE Locally \/ ((Lapse \/ Clear) /\ UNCHANGED <<relayVars, processVars>>)
  BY <1>6, <1>8 DEF Locally, Lapse, Clear, callVars, relayVars, processVars, RelayTypeOK
<1>9. CASE Shutdown
  <2>1. UNCHANGED <<stage, answer, loop, aborted, heard, late>> /\ phase' = "draining"
    BY <1>9 DEF Shutdown, DrainBroker, callVars, relayVars
  <2> QED
    BY <1>6, <2>1
<1>10. CASE Exit
  <2>1. UNCHANGED <<stage, answer, loop, aborted, heard, late>> /\ phase' = "exited"
    BY <1>10 DEF Exit, gateVars, callVars, relayVars
  <2> QED
    BY <1>6, <2>1
<1> QED
  BY <1>2, <1>3, <1>4, <1>5, <1>7, <1>8, <1>9, <1>10 DEF RelayNext

(* Every step of the headless proxy keeps the whole invariant.             *)
LEMMA RelayNextInv == RelayInv /\ [RelayNext]_allVars => RelayInv'
<1>1. ASSUME RelayInv, [RelayNext]_allVars PROVE GateInv'
  BY <1>1, RelayIsGate, GateNextInv DEF RelayInv
<1>2. ASSUME RelayInv, RelayNext PROVE RelayInv'
  BY <1>1, <1>2, DrainedStays, LoopsStay DEF RelayInv
<1>3. ASSUME RelayInv, UNCHANGED allVars PROVE RelayInv'
  <2>1. GateInv'
    BY <1>1, <1>3
  <2>2. UNCHANGED <<entries, stage, answer, loop, aborted, heard, phase, late>>
    BY <1>3 DEF allVars, gateVars, vars, callVars, relayVars, processVars
  <2> QED
    BY <1>3, <2>1, <2>2 DEF RelayInv, RelayTypeOK, GateInv, Loops, LoopsEndWithTheCall, Drained
<1> QED
  BY <1>2, <1>3

\* In every state a headless proxy reaches, from its start to its exit.
THEOREM RelayInvariant == RelaySpec => []RelayInv
  BY RelayInitInv, RelayNextInv, PTL DEF RelaySpec

(* A gate with a relay beside it and a process around it is still a gate.  *)
THEOREM RelayImplementsGate == RelaySpec => GateSpec
<1>1. RelayInit => GateInit
  BY DEF RelayInit
<1> QED
  BY <1>1, RelayIsGate, PTL DEF RelaySpec, GateSpec

(* A promise was resolved as its record says.                              *)
LEMMA ResolvedAsRecorded ==
  ASSUME IInv, NEW id \in Ids, outcome[id].state # "pending"
  PROVE  record[id].state = outcome[id].state
BY DEF IInv, TypeOK, ApprovalOutcome, HeldIffTimed

(* What was released has its quorum of different approvers, or goes back   *)
(* by the memory to a prompt for the same identity that has.               *)
LEMMA GrantsEarned == GateInv => GrantsAreEarned
<1> SUFFICES ASSUME GateInv PROVE GrantsAreEarned
  OBVIOUS
<1>1. ASSUME NEW id \in Ids, answer[id] = "approved"
      PROVE  outcome[id].state = "approved" /\ Cardinality(Range(record[id].approvedBy)) >= ask[id].quorum
  <2>1. outcome[id].state = "approved"
    BY <1>1 DEF GateInv, Calls, Outcomes
  <2>2. /\ record[id].state # "none" /\ Cardinality(Range(record[id].approvedBy)) >= record[id].quorum
        /\ record[id].approvedBy \in Seq(Approvers)
    <3>1. record[id].state = "approved"
      BY <2>1, ResolvedAsRecorded DEF GateInv
    <3>2. record[id].approvedBy \in Seq(Approvers)
      BY DEF GateInv, IInv, TypeOK, ApprovalRecord
    <3> QED
      BY <2>1, <3>1, <3>2 DEF GateInv, IInv, QuorumMet
  <2>3. record[id].quorum = AtLeastOne(ask[id].quorum) /\ ask[id].quorum \in Nat
    BY <2>2, GateAssumption, QuorumArgsAssumption DEF GateInv, Calls, Ask
  <2>4. Cardinality(Range(record[id].approvedBy)) \in Nat
    BY <2>2, VotersFinite, FS_CardinalityType
  <2> QED
    BY <2>1, <2>2, <2>3, <2>4 DEF AtLeastOne
<1>2. ASSUME NEW id \in Ids, answer[id] = "remembered_grant"
      PROVE  /\ ask[id].quorum <= 1
             /\ \E other \in Ids : /\ answer[other] = "approved" /\ ask[other].key = ask[id].key
                                   /\ ask[other].useMemory /\ ask[other].quorum <= 1
  BY <1>2 DEF GateInv, Remembered, AnsweredByHuman
<1> QED
  BY <1>1, <1>2 DEF GrantsAreEarned

(* What the memory holds is an answer that a named human gave.             *)
LEMMA MemoryHuman == GateInv => MemoryIsHuman
<1> SUFFICES ASSUME GateInv, NEW key \in Keys, memory[key].outcome # "none"
             PROVE  \E id \in Ids : /\ ask[id].key = key /\ ask[id].useMemory
                                    /\ answer[id] = memory[key].outcome
                                    /\ outcome[id].decidedBy \in Approvers
  BY DEF MemoryIsHuman
<1>1. PICK id \in Ids : /\ ask[id].key = key /\ ask[id].useMemory
                        /\ answer[id] = memory[key].outcome /\ memory[key].outcome \in Outcomes
  BY DEF GateInv, Remembered, AnsweredByHuman
<1>2. outcome[id].state \in Outcomes
  BY <1>1 DEF GateInv, Calls
<1>3. outcome[id].decidedBy \in Approvers
  BY <1>2 DEF GateInv, Resolved
<1> QED
  BY <1>1, <1>3

(* Two approvers are more than the one voice a poll loop adds.             *)
LEMMA OneVoice == RelayInv => RelayIsOneVoice
<1> SUFFICES ASSUME RelayInv, NEW id \in Ids, outcome[id].state = "approved", ask[id].quorum > 1,
                    Range(record[id].approvedBy) \subseteq heard[id]
             PROVE  FALSE
  BY DEF RelayIsOneVoice
<1> DEFINE voters == Range(record[id].approvedBy)
<1>1. /\ record[id].state # "none" /\ Cardinality(voters) >= record[id].quorum
      /\ record[id].quorum = AtLeastOne(ask[id].quorum)
  <2>1. record[id].state = "approved"
    BY ResolvedAsRecorded DEF RelayInv, GateInv
  <2> QED
    BY <2>1 DEF RelayInv, GateInv, IInv, QuorumMet, Calls
<1>2. ask[id].quorum \in Nat
  BY <1>1, GateAssumption, QuorumArgsAssumption DEF RelayInv, GateInv, Calls, Ask
<1>3. voters = {} \/ \E a \in heard[id] : voters = {a}
  BY DEF RelayInv, Loops
<1> HIDE DEF voters
<1>4. CASE voters = {}
  <2>1. Cardinality(voters) = 0
    BY <1>4, FS_EmptySet
  <2> QED
    BY <1>1, <1>2, <2>1 DEF AtLeastOne
<1>5. ASSUME NEW a \in heard[id], voters = {a} PROVE FALSE
  <2>1. Cardinality(voters) = 1
    BY <1>5, FS_Singleton
  <2> QED
    BY <1>1, <1>2, <2>1 DEF AtLeastOne
<1> QED
  BY <1>3, <1>4, <1>5

(* Releases are earned, the relay is one voice, the memory is human, who   *)
(* has left holds nothing, and no poll loop outlives its call: for every   *)
(* number of requests, approvers, quorums and keys.                        *)
THEOREM RelayReleasesByHumans == RelaySpec => []OnlyHumansRelease
<1>1. RelayInv => OnlyHumansRelease
  BY GrantsEarned, MemoryHuman, OneVoice DEF RelayInv, GateInv, OnlyHumansRelease
<1> QED
  BY <1>1, RelayInvariant, PTL

(* The same of any gate, without a relay.                                  *)
THEOREM GateReleasesByHumans == GateSpec => [](GrantsAreEarned /\ MemoryIsHuman /\ LeaversHoldNothing)
<1>1. GateInv => GrantsAreEarned /\ MemoryIsHuman /\ LeaversHoldNothing
  BY GrantsEarned, MemoryHuman DEF GateInv
<1> QED
  BY <1>1, GateInvariant, PTL

(* Shutdown denies whatever it can: what is unanswered at the exit came    *)
(* after the drain or was still being announced.                           *)
THEOREM ShutdownAnswers == RelaySpec => []DrainedAreAnswered
<1>1. RelayInv => DrainedAreAnswered
  BY DEF RelayInv, Drained, DrainedAreAnswered
<1> QED
  BY <1>1, RelayInvariant, PTL

(* No fresh yes releases a request whose client has gone: a call that      *)
(* resumes looks at its client once more.                                  *)
THEOREM GateSparesTheVoid == GateSpec => NotIntoTheVoid
<1> DEFINE Fresh == \A id \in Ids : answer'[id] = "approved" /\ answer[id] # "approved" => id \notin gone
<1>1. GateInv /\ [GateNext]_gateVars => [Fresh]_gateVars
  <2> SUFFICES ASSUME GateInv, GateNext, NEW id \in Ids, answer'[id] = "approved", answer[id] # "approved"
               PROVE  id \notin gone
    OBVIOUS
  <2>0. answer \in [Ids -> Blocked \union Released \union {"none"}]
    BY DEF GateInv, GateTypeOK
  <2>1. ASSUME NEW i \in Ids, NEW how \in Blocked \union Released, Answer(i, how) PROVE i = id /\ how = "approved"
    BY <2>0, <2>1 DEF Answer
  <2>2. ASSUME NEW i \in Ids, NEW a \in Ask, Begin(i, a) PROVE FALSE
    BY <2>1, <2>2 DEF Begin, RecallGrant, RecallDeny, CapacityDeny, Hold, HoldGone, Blocked, Released
  <2>3. ASSUME NEW i \in Ids, Resume(i) PROVE id \notin gone
    BY <2>1, <2>3 DEF Resume, ResumeAbandoned, ResumeApproved, ResumeDenied, ResumeExpired, Left, Blocked, Released
  <2>4. CASE UNCHANGED answer
    BY <2>4
  <2> QED
    BY <2>2, <2>3, <2>4 DEF GateNext, Announced, Disconnect, Decide, Lapse, Clear, callVars
<1> QED
  BY <1>1, GateInvariant, PTL DEF GateSpec, NotIntoTheVoid

-----------------------------------------------------------------------------
\* The whole gate is still the decision protocol.

(* A prompt put for a client that has gone is a question withdrawn with    *)
(* the same breath.                                                        *)
LEMMA HoldGoneRefines ==
  ASSUME GateInv, NEW id \in Ids, NEW a \in Ask, HoldGone(id, a)
  PROVE  Decision!Next
<1>1. /\ record[id].state = "none" /\ record'[id].state = "abandoned"
      /\ record'[id].quorum = AtLeastOne(a.quorum) /\ record'[id].approvedBy = <<>>
      /\ \A i \in Ids \ {id} : record'[i] = record[i]
  BY DEF HoldGone, GateInv, IInv, TypeOK
<1>2. record[id].approvedBy = <<>>
  BY <1>1 DEF GateInv, IInv
<1>3. a.quorum \in QuorumArgs
  BY GateAssumption DEF Ask
<1>4. Decision!AskInVain(id, AtLeastOne(a.quorum))
  BY <1>1, <1>2 DEF Decision!AskInVain
<1> QED
  BY <1>3, <1>4 DEF Decision!Next

(* Every other step of the gate is one of the broker's, or none.           *)
LEMMA GateNextRefines == GateInv /\ [GateNext]_gateVars => [Decision!Next]_Decision!vars
<1> SUFFICES ASSUME GateInv, [GateNext]_gateVars PROVE [Decision!Next]_Decision!vars
  OBVIOUS
<1>1. CASE [Next]_vars
  BY <1>1, NextRefines DEF GateInv
<1>2. ASSUME NEW id \in Ids, NEW a \in Ask, Begin(id, a) PROVE [Decision!Next]_Decision!vars
  <2>1. CASE HoldGone(id, a)
    BY <2>1, HoldGoneRefines
  <2>2. CASE Hold(id, a)
    <3>1. Create(id, a.quorum) /\ a.quorum \in QuorumArgs
      BY <2>2, GateAssumption DEF Hold, Ask
    <3> QED
      BY <1>1, <3>1 DEF Next
  <2>3. CASE UNCHANGED vars
    BY <1>1, <2>3
  <2> QED
    BY <1>2, <2>1, <2>2, <2>3 DEF Begin, RecallGrant, RecallDeny, CapacityDeny
<1>3. ASSUME NEW id \in Ids, Announced(id) \/ Resume(id) \/ Disconnect(id) PROVE [Next]_vars
  BY <1>3 DEF Announced, Resume, ResumeAbandoned, ResumeApproved, ResumeDenied, ResumeExpired, Disconnect, Next
<1>4. CASE Decide
  BY <1>1, <1>4 DEF Decide, Next
<1>5. CASE Lapse \/ Clear
  BY <1>1, <1>5 DEF Lapse, Clear
<1>6. CASE UNCHANGED gateVars
  BY <1>1, <1>6 DEF gateVars
<1> QED
  BY <1>1, <1>2, <1>3, <1>4, <1>5, <1>6 DEF GateNext

(* The gate, with its memory, its announcements and its disconnects,       *)
(* implements the abstract decision protocol of QuorumDecision.            *)
THEOREM GateImplementsDecision == GateSpec => ImplementsQuorumDecision
<1>1. GateInit => Decision!Init
  BY InitRefines DEF GateInit
<1> QED
  BY <1>1, GateInvariant, GateNextRefines, PTL DEF GateSpec, ImplementsQuorumDecision, Decision!Spec

(* So do the relay and the process: what the gate promises of its steps    *)
(* holds of a headless proxy.                                              *)
THEOREM RelayKeepsThePromise == RelaySpec => ImplementsQuorumDecision /\ NotIntoTheVoid
  BY RelayImplementsGate, GateImplementsDecision, GateSparesTheVoid, PTL
=============================================================================
