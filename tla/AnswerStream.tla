----------------------------- MODULE AnswerStream -----------------------------
(* The answer of an upstream on its way to the agent: what forward() makes of  *)
(* its head (proxy/forward.ts) and the counting passthrough its body goes      *)
(* through (response/cap.ts).  Chunks are decoded bytes; the length an answer  *)
(* declares is that of the body on the wire, which an encoding makes another.  *)
EXTENDS Naturals, FiniteSetsExt

CONSTANTS
  MaxBytes,    \* caps a policy may set
  ChunkSizes,
  MaxBody      \* bytes an upstream produces (a bound on the run)

StreamAssumption == MaxBytes \subseteq Nat \ {0} /\ ChunkSizes \subseteq Nat \ {0} /\ MaxBody \in Nat

VARIABLES
  limit,     \* what the policy says: [bytes, exceed]
  answer,    \* waiting, streaming, and how it ended: whole, cut, failed, refused, left
  head,      \* of the answer: [declared, encoded], declared a set of one length at most
  flagged,   \* the agent was told that it gets a part
  produced,  \* bytes the upstream has produced
  sent       \* bytes the agent has received

vars == <<limit, answer, head, flagged, produced, sent>>

Uncapped == MaxBody + 1
NoHead == [declared |-> {}, encoded |-> FALSE]

Init ==
  /\ limit \in [bytes : MaxBytes, exceed : {"truncate", "deny"}] \cup {[bytes |-> Uncapped, exceed |-> "truncate"]}
  /\ answer = "waiting" /\ head = NoHead /\ flagged = FALSE
  /\ produced = 0 /\ sent = 0

Exceeds(h) == \E n \in h.declared : n > limit.bytes

\* A cap that is looked at when the answer would be refused only.
FlagsIfDenied(h) == limit.exceed = "deny" /\ Exceeds(h)
Flags(h) == Exceeds(h)

\* The head is here.  A declared excess is refused under deny, else announced.
Answered(h) ==
  /\ answer = "waiting"
  /\ head' = h
  /\ IF limit.exceed = "deny" /\ Exceeds(h)
     THEN answer' = "refused" /\ UNCHANGED flagged
     ELSE answer' = "streaming" /\ flagged' = Flags(h)
  /\ UNCHANGED <<limit, produced, sent>>

\* A cut past the cap, not at it.
CutsPast(n) == sent + n > limit.bytes

Cuts(n) == sent + n >= limit.bytes

\* transform(): what fits is passed on, and the stream is cut at the cap.
Chunk(n) ==
  /\ answer = "streaming"
  /\ produced + n <= MaxBody
  /\ ~head.encoded => \A d \in head.declared : produced + n <= d
  /\ produced' = produced + n
  /\ sent' = Min({sent + n, limit.bytes})
  /\ answer' = IF Cuts(n) THEN "cut" ELSE "streaming"
  /\ UNCHANGED <<limit, head, flagged>>

\* The upstream is done: a plain body is as long as it was declared.
End ==
  /\ answer = "streaming"
  /\ ~head.encoded => head.declared \subseteq {produced}
  /\ answer' = "whole"
  /\ UNCHANGED <<limit, head, flagged, produced, sent>>

\* The connection to the upstream breaks, or the agent goes.
Fail(outcome) ==
  /\ answer = "streaming"
  /\ answer' = outcome
  /\ UNCHANGED <<limit, head, flagged, produced, sent>>

Next ==
  \/ \E d \in {{}} \cup {{n} : n \in 0..MaxBody}, e \in BOOLEAN : Answered([declared |-> d, encoded |-> e])
  \/ \E n \in ChunkSizes : Chunk(n)
  \/ End \/ Fail("failed") \/ Fail("left")

(* However the upstream slices, encodes or declares its answer: the agent  *)
(* gets a prefix of it within the cap; an answer that has reached the cap  *)
(* is over, though the upstream may have no end; one that ended or was cut *)
(* without an announcement was, if plain and of declared length, whole;    *)
(* and one announced as a part was never passed on whole, if plain.        *)
CapHolds ==
  /\ sent = Min({produced, limit.bytes})
  /\ answer = "streaming" => sent < limit.bytes
  /\ answer = "refused" => sent = 0 /\ limit.exceed = "deny"
  /\ (answer \in {"whole", "cut"} /\ ~head.encoded) =>
       /\ ~flagged => \A d \in head.declared : sent = d
       /\ flagged => answer = "cut"

\* What a document or a comment says and the code does not do: README.md, section 4.

(* docs/quickstart.md:299: under deny, an oversized answer that declares a *)
(* length is refused.                                                      *)
OversizedIsRefused ==
  limit.exceed = "deny" /\ head.declared # {} => produced <= limit.bytes
===============================================================================
