------------------------------ MODULE AdminTokens ------------------------------
(* admin/token-store.ts and the console routes that use it: named operator     *)
(* tokens with roles, in memory and in admin-tokens.json, and the votes that    *)
(* are cast under their names.                                                 *)
(*                                                                             *)
(* A handler runs to its end once its operator is resolved, except the mint,   *)
(* which awaits the request body and then the hash of the new token. A write   *)
(* is a rename in synchronous code: a death leaves the file of before, and     *)
(* takes the answer with it, as if the call had not been handled.              *)
EXTENDS Naturals, Sequences, FiniteSets, SequencesExt

CONSTANTS
  Boot,         \* the secret in admin.token
  Bootstrap,    \* the name it acts under
  Secrets,      \* what generateToken() may return
  Names,        \* names operators are given
  Calls,        \* mints that may be open at once
  Quorum,       \* approvers the approval at hand needs
  Nobody,
  MaxFaults,    \* writes the disk refuses
  MaxRestarts

ASSUME BootAssumption == Boot \notin Secrets
ASSUME NobodyAssumption == Nobody \notin Secrets \cup {Boot}
ASSUME QuorumAssumption == Quorum \in Nat \ {0}

Roles == {"viewer", "approver", "admin"}
Rank(r) == CASE r = "viewer" -> 0 [] r = "approver" -> 1 [] r = "admin" -> 2

VARIABLES
  records,   \* the store's records, oldest first
  file,      \* admin-tokens.json
  call,      \* [Calls -> a mint in progress]
  votes,     \* names that approved the approval at hand
  voters,    \* the secrets they did it with
  issued,    \* secrets shown to an operator with a success
  cut,       \* secrets whose revocation was reported done
  faults, restarts
vars == <<records, file, call, votes, voters, issued, cut, faults, restarts>>

TokenRecord == [name : Names \cup {Bootstrap}, role : Roles, secret : Secrets, revoked : BOOLEAN]
Idle == [at |-> "idle", who |-> Nobody, name |-> Bootstrap, role |-> "viewer"]

TypeOK ==
  /\ records \in Seq(TokenRecord) /\ file \in Seq(TokenRecord)
  /\ call \in [Calls -> [at : {"idle", "body", "hash"}, who : Secrets \cup {Boot, Nobody},
                         name : Names \cup {Bootstrap}, role : Roles]]
  /\ votes \subseteq Names \cup {Bootstrap}
  /\ voters \subseteq Secrets \cup {Boot}
  /\ issued \subseteq Secrets /\ cut \subseteq Secrets
  /\ faults \in 0..MaxFaults /\ restarts \in 0..MaxRestarts

Init ==
  /\ records = <<>> /\ file = <<>>
  /\ call = [c \in Calls |-> Idle]
  /\ votes = {} /\ voters = {}
  /\ issued = {} /\ cut = {}
  /\ faults = 0 /\ restarts = 0

-------------------------------------------------------------------------------
\* The operator behind a secret.

Live == {rec \in ToSet(records) : ~rec.revoked}
LiveNamed(n) == {i \in DOMAIN records : records[i].name = n /\ ~records[i].revoked}

\* resolve(), and the token that is always an admin.
MayAct(s, need) ==
  \/ s = Boot
  \/ \E rec \in Live : rec.secret = s /\ Rank(rec.role) >= Rank(need)

\* identity.name.
NameOf(s) == IF s = Boot THEN Bootstrap ELSE (CHOOSE rec \in Live : rec.secret = s).name

\* Faulty variant: the file is written before the memory is changed.
SaveBefore(changed) ==
  /\ records' = changed
  /\ \/ file' = records /\ UNCHANGED faults
     \/ faults < MaxFaults /\ faults' = faults + 1 /\ UNCHANGED file

\* The memory is changed, then persist() is called, which may throw.
Save(changed) ==
  /\ records' = changed
  /\ \/ file' = changed /\ UNCHANGED faults
     \/ faults < MaxFaults /\ faults' = faults + 1 /\ UNCHANGED file

Saved == faults' = faults

-------------------------------------------------------------------------------
\* The routes.

\* POST /console/tokens, up to the body. The name is the caller's choice.
MintOpen(c, s, n, r) ==
  /\ call[c] = Idle
  /\ MayAct(s, "admin")
  /\ call' = [call EXCEPT ![c] = [at |-> "body", who |-> s, name |-> n, role |-> r]]
  /\ UNCHANGED <<records, file, votes, voters, issued, cut, faults, restarts>>

\* create() up to its await: a live name is refused.
MintCheck(c) ==
  /\ call[c].at = "body"
  /\ call' = [call EXCEPT ![c] = IF LiveNamed(call[c].name) = {} THEN [@ EXCEPT !.at = "hash"] ELSE Idle]
  /\ UNCHANGED <<records, file, votes, voters, issued, cut, faults, restarts>>

Fresh == {k \in Secrets : \A i \in DOMAIN records : records[i].secret # k} \ issued

\* The rest of create(): a token nobody has had is stored, and shown if the file took it.
MintStore(c) ==
  /\ call[c].at = "hash"
  /\ \E k \in Fresh :
       /\ Save(Append(records, [name |-> call[c].name, role |-> call[c].role, secret |-> k, revoked |-> FALSE]))
       /\ issued' = IF Saved THEN issued \cup {k} ELSE issued
  /\ call' = [call EXCEPT ![c] = Idle]
  /\ UNCHANGED <<votes, voters, cut, restarts>>

\* Faulty variant: the first record under the name, live or not.
RevokedOldest(n) ==
  [records EXCEPT ![Min({i \in DOMAIN records : records[i].name = n})].revoked = TRUE]

\* The first live record under the name.
Revoked(n) == [records EXCEPT ![Min(LiveNamed(n))].revoked = TRUE]

\* DELETE /console/tokens/<name>.
Revoke(s, n) ==
  /\ MayAct(s, "admin")
  /\ LiveNamed(n) # {}
  /\ Save(Revoked(n))
  /\ cut' = IF Saved THEN cut \cup {records[Min(LiveNamed(n))].secret} ELSE cut
  /\ UNCHANGED <<call, votes, voters, issued, restarts>>

Decided == Cardinality(votes) >= Quorum

\* Faulty variant: the label comes with the request.
ApproveAs(s) ==
  /\ ~Decided
  /\ MayAct(s, "approver")
  /\ \E n \in Names \cup {Bootstrap} : votes' = votes \cup {n}
  /\ voters' = voters \cup {s}
  /\ UNCHANGED <<records, file, call, issued, cut, faults, restarts>>

\* POST /console/approvals/<id>/approve: the vote bears the token's name.
Approve(s) ==
  /\ ~Decided
  /\ MayAct(s, "approver")
  /\ votes' = votes \cup {NameOf(s)}
  /\ voters' = voters \cup {s}
  /\ UNCHANGED <<records, file, call, issued, cut, faults, restarts>>

\* The proxy starts over: open mints and held approvals are gone.
Restart ==
  /\ restarts < MaxRestarts
  /\ restarts' = restarts + 1
  /\ records' = file
  /\ call' = [c \in Calls |-> Idle]
  /\ votes' = {} /\ voters' = {}
  /\ UNCHANGED <<file, issued, cut, faults>>

Next ==
  \/ \E c \in Calls : MintCheck(c) \/ MintStore(c)
  \/ \E s \in Secrets \cup {Boot} :
       \/ Approve(s)
       \/ \E n \in Names \cup {Bootstrap} :
            Revoke(s, n) \/ \E c \in Calls, r \in Roles : MintOpen(c, s, n, r)
  \/ Restart

Spec == Init /\ [][Next]_vars

-------------------------------------------------------------------------------
(* Properties. *)

\* A revocation that was reported done stays done, whatever write is refused and
\* whatever restart follows (quickstart.md:472).
RevokedStaysOut == \A k \in cut : ~MayAct(k, "viewer")

\* A token that was shown as created works until somebody revokes it, over
\* restarts too. A revocation that was reported as failed may have taken effect.
IssuedWorks ==
  \A k \in issued : (\A i \in DOMAIN records : records[i].secret = k => ~records[i].revoked)
                     => MayAct(k, "viewer")

\* quickstart.md:465-468: a quorum is met by that many different tokens, never by
\* one operator under several names.
QuorumNeedsTokens == Decided => Cardinality(voters) >= Quorum

\* What a document or a comment says and the code does not do: README.md, section 4.

\* token-store.ts:63-64: one live token a name. It is what makes `grenz token
\* revoke <name>` reach whoever holds the name.
OneLivePerName == \A n \in Names \cup {Bootstrap} : Cardinality(LiveNamed(n)) <= 1

\* quickstart.md:472, "Revoke an operator instantly": nothing is minted for an
\* operator after the revocation was reported done.
RevokedMintsNothing ==
  [][\A c \in Calls : call[c].at = "hash" /\ call[c].who \in cut => issued' = issued]_vars
===============================================================================
