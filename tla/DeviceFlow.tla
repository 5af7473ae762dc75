------------------------------- MODULE DeviceFlow -------------------------------
(* `grenz connect` without a URL (cli/device-flow.ts): the plane hands out a code,  *)
(* a human approves it in the console, and the command polls for the token minted   *)
(* for it.  The plane and the network are external: a question or an answer may be  *)
(* lost, and the plane may say anything.  A tick is a second.                       *)
EXTENDS Integers, Sequences

CONSTANTS
  MinInterval, MaxInterval,  \* MIN_INTERVAL_SECONDS, MAX_INTERVAL_SECONDS
  MinLifetime, MaxLifetime,  \* 30, MAX_LIFETIME_SECONDS
  MaxFailures,               \* MAX_TRANSIENT_FAILURES
  Offers,                    \* what a plane may name as an interval or a lifetime
  LastTick                   \* bound on the run

FlowAssumption ==
  /\ {MinInterval, MaxInterval, MinLifetime, MaxLifetime} \subseteq Nat \ {0}
  /\ MinInterval <= MaxInterval /\ MinLifetime <= MaxLifetime
  /\ MaxFailures \in Nat /\ Offers \subseteq Int

VARIABLES
  at,        \* idle, asleep, asking, or how the command ended
  tick,
  deadline, interval, failures,
  wakes,     \* when the sleep is over
  code,      \* the plane's record of the code: none, open, approved, picked (its token is handed out), over
  asked,     \* history: when each question of this flow was put, the first one first
  lost       \* history: whether each question of this flow was lost

vars == <<at, tick, deadline, interval, failures, wakes, code, asked, lost>>

Ends == {"ready", "lost_contact", "timed_out", "refused"}

Clamp(n, low, high) == IF n < low THEN low ELSE IF n > high THEN high ELSE n

Init ==
  /\ at = "idle" /\ tick = 0
  /\ deadline = 0 /\ interval = MinInterval /\ failures = 0 /\ wakes = 0
  /\ code = "none" /\ asked = <<>> /\ lost = <<>>

\* The plane's answer is incomplete or an error: no flow.
StartRefused ==
  /\ at = "idle"
  /\ at' = "refused"
  /\ UNCHANGED <<tick, deadline, interval, failures, wakes, code, asked, lost>>

\* What the plane offers is brought within bounds.
Start(expires, every) ==
  /\ at = "idle"
  /\ deadline' = tick + Clamp(expires, MinLifetime, MaxLifetime)
  /\ interval' = Clamp(every, MinInterval, MaxInterval)
  /\ at' = "asleep" /\ wakes' = tick + interval'
  /\ code' = "open"
  /\ UNCHANGED <<tick, failures, asked, lost>>

\* The sleep is over, on time or late, and the question goes out.
Ask ==
  /\ at = "asleep" /\ tick >= wakes
  /\ at' = "asking"
  /\ asked' = Append(asked, tick)
  /\ UNCHANGED <<tick, deadline, interval, failures, wakes, code, lost>>

\* Faulty variant: only the plane's word ends the loop.
AgainForever == at' = "asleep" /\ wakes' = tick + interval'

\* The head of the loop.
Again ==
  IF tick < deadline THEN at' = "asleep" /\ wakes' = tick + interval'
  ELSE at' = "timed_out" /\ wakes' = wakes

\* The question or its answer is lost.  The plane may have handed the token out by then.
Lost ==
  /\ at = "asking"
  /\ failures' = failures + 1
  /\ IF failures' > MaxFailures
     THEN at' = "lost_contact" /\ UNCHANGED <<interval, wakes>>
     ELSE interval' = Clamp(interval * 2, 0, MaxInterval) /\ Again
  /\ code' \in IF code = "approved" THEN {"approved", "picked"} ELSE {code}
  /\ lost' = Append(lost, TRUE)
  /\ UNCHANGED <<tick, deadline, asked>>

Heard == at = "asking" /\ failures' = 0 /\ lost' = Append(lost, FALSE)

\* "pending" may name another interval; an answer without a known status only goes on.
Pending(every) ==
  /\ Heard /\ code = "open"
  /\ interval' = Clamp(every, MinInterval, MaxInterval)
  /\ Again
  /\ UNCHANGED <<tick, deadline, code, asked>>

PendingUnchanged ==
  /\ Heard
  /\ interval' = interval
  /\ Again
  /\ UNCHANGED <<tick, deadline, code, asked>>

\* "expired", "consumed", "unknown", an incomplete "ready", another error.
Refused ==
  /\ Heard
  /\ at' = "refused"
  /\ code' = IF code = "approved" THEN "picked" ELSE code
  /\ UNCHANGED <<tick, deadline, interval, wakes, asked>>

Ready ==
  /\ Heard /\ code = "approved"
  /\ at' = "ready" /\ code' = "picked"
  /\ UNCHANGED <<tick, deadline, interval, wakes, asked>>

-------------------------------------------------------------------------------
(* The console and the clock. *)

Approve == code = "open" /\ code' = "approved" /\ UNCHANGED <<at, tick, deadline, interval, failures, wakes, asked, lost>>
Expire == code \in {"open", "approved"} /\ code' = "over" /\ UNCHANGED <<at, tick, deadline, interval, failures, wakes, asked, lost>>

Tick ==
  /\ tick < LastTick /\ at # "idle"
  /\ tick' = tick + 1
  /\ UNCHANGED <<at, deadline, interval, failures, wakes, code, asked, lost>>

Answer == Lost \/ (\E every \in Offers : Pending(every)) \/ PendingUnchanged \/ Refused \/ Ready

Next ==
  \/ StartRefused
  \/ \E expires, every \in Offers : Start(expires, every)
  \/ Ask \/ Answer \/ Approve \/ Expire \/ Tick

\* Time passes, a timer that is due fires, and a fetch ends: it has no timeout of its own.
Spec == Init /\ [][Next]_vars /\ WF_vars(Tick) /\ WF_vars(Ask) /\ WF_vars(Answer)
-------------------------------------------------------------------------------
(* Properties. *)

\* device-flow.ts:44-52, 100-105: whatever the plane offers and however late a timer fires,
\* questions are MinInterval apart, one at most is put once the code is over by the
\* command's own clock, and the command ends by itself only when that time has come, or
\* contact was lost more than MaxFailures times without an answer in between.
PaceIsKept ==
  LET k == Len(lost) IN
  /\ \A i \in 1..(Len(asked) - 1) : asked[i + 1] - asked[i] >= MinInterval
  /\ \A i \in 1..(Len(asked) - 1) : asked[i] < deadline
  /\ at = "timed_out" => tick >= deadline
  /\ at = "lost_contact" => k > MaxFailures
  /\ (at = "lost_contact") = (k > MaxFailures /\ \A i \in (k - MaxFailures)..k : lost[i])

\* A flow that has begun ends, though the plane answers "pending" for ever.
FlowEnds == at \in {"asleep", "asking"} ~> at \in Ends

\* What a document or a comment says and the code does not do: README.md, section 4.

\* device-flow.ts:128, "Back off, but never past the ceiling or the deadline".
BackoffStopsAtDeadline == at = "asleep" /\ failures > 0 => wakes <= deadline
===============================================================================
