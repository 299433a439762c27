---------------------------- MODULE RemoteCalls ----------------------------
(***************************************************************************)
(* What the transaction layer of P2WP promises to the cartridge's screens  *)
(* and to the firmware's commands, without frames, sequence numbers or     *)
(* retries: a call is executed at most once, "done" is said only of a call *)
(* that was executed, and a call that is given up may still be executed    *)
(* until the next call is answered or a new session starts.                *)
(***************************************************************************)
EXTENDS Sequences, Integers

CONSTANTS
  Requests,  \* what can be asked for
  Alike      \* pairs of requests the peripheral cannot tell apart

VARIABLES
  calling,   \* the call in progress, {} or {c}
  outcome,   \* how the last call, or the last attempt at a session, ended
  pending,   \* requests the peripheral may still receive
  ran,       \* what it executed since the last answer
  crashed    \* it restarted since the session started

vars == <<calling, outcome, pending, ran, crashed>>

Init ==
  /\ calling = {} /\ pending = {} /\ ran = <<>>
  /\ outcome = "NONE" /\ crashed = FALSE

Call(c) ==
  /\ calling = {}
  /\ calling' = {c}
  /\ pending' = pending \cup {c}
  /\ UNCHANGED <<outcome, ran, crashed>>

\* Requests get lost; the one in progress is sent again.
Lose ==
  /\ pending' \in SUBSET pending
  /\ calling \subseteq pending'
  /\ UNCHANGED <<calling, outcome, ran, crashed>>

Execute(c) ==
  /\ c \in pending
  /\ ran = <<>>
  /\ ran' = <<c>>
  /\ pending' \in SUBSET pending
  /\ calling \subseteq pending'
  /\ UNCHANGED <<calling, outcome, crashed>>

Answered(how) ==
  /\ calling' = {} /\ pending' = {} /\ ran' = <<>>
  /\ outcome' = how
  /\ UNCHANGED crashed

Done(c) ==
  /\ calling = {c}
  /\ Len(ran) = 1 /\ <<ran[1], c>> \in Alike
  /\ Answered("OK")

\* A call is refused when it was not executed, or so long ago that the
\* peripheral has forgotten it in a restart.
Refused(c) ==
  /\ calling = {c}
  /\ ran = <<>> \/ <<ran[1], c>> \notin Alike \/ crashed
  /\ Answered("REMOTE_ERROR")

\* The call ends without an answer, or the caller restarts.
GiveUp ==
  /\ calling' = {}
  /\ outcome' \in {"TIMEOUT", "INVALID", "NONE"}
  /\ pending' \in SUBSET pending
  /\ UNCHANGED <<ran, crashed>>

Crash ==
  /\ crashed' = TRUE
  /\ pending' = calling
  /\ UNCHANGED <<calling, outcome, ran>>

\* A session starts at the peripheral, then at the caller.
NewSession ==
  /\ calling = {}
  /\ ran' = <<>> /\ pending' = {}
  /\ UNCHANGED <<calling, outcome, crashed>>

SessionKnown ==
  /\ calling = {} /\ ran = <<>> /\ pending = {}
  /\ outcome' = "OK"
  /\ crashed' = FALSE
  /\ UNCHANGED <<calling, ran, pending>>

NoSession ==
  /\ calling = {}
  /\ outcome' \in {"INVALID", "INCOMPATIBLE", "REMOTE_ERROR"}
  /\ UNCHANGED <<calling, pending, ran, crashed>>

Next ==
  \/ \E c \in Requests : Call(c) \/ Execute(c) \/ Done(c) \/ Refused(c)
  \/ Lose \/ GiveUp \/ Crash \/ NewSession \/ SessionKnown \/ NoSession

Spec == Init /\ [][Next]_vars
=============================================================================
