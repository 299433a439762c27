----------------------------- MODULE HalfDuplex -----------------------------
(***************************************************************************)
(* The line between cartridge and Pico as the transactions of P2wpSession  *)
(* rely on it, without bytes and without what the frames say.  One end     *)
(* speaks at a time: a frame gets past its opening delimiter only while    *)
(* the Pico reads, so that a cartridge that listens hears the answer to    *)
(* its own frame.  Frames may be lost either way.                          *)
(***************************************************************************)
EXTENDS Integers

VARIABLES
  phase,    \* of the cartridge
  parked,   \* frames the Pico has that lack a closing delimiter, 0 or 1
  inbound,  \* frames it has whole, or whose delimiter is on its way
  outbound  \* answers being sent

lineVars == <<phase, parked, inbound, outbound>>

Init == phase = "away" /\ parked = 0 /\ inbound = 0 /\ outbound = 0

Begin ==
  /\ phase = "away"
  /\ phase' = "open"
  /\ UNCHANGED <<parked, inbound, outbound>>

\* The opening delimiter completes a frame left parked.
SendOpening ==
  /\ phase = "open"
  /\ phase' = "body"
  /\ inbound' = inbound + parked
  /\ parked' = 0
  /\ UNCHANGED outbound

PicoReads == inbound = 0 /\ outbound = 0

\* The rest of the frame arrives, is lost, or all but its last delimiter arrives.
SendBody ==
  /\ phase = "body"
  /\ PicoReads
  /\ phase' = "receive"
  /\ \/ inbound' = 1 /\ UNCHANGED parked
     \/ parked' = 1 /\ UNCHANGED inbound
     \/ UNCHANGED <<inbound, parked>>
  /\ UNCHANGED outbound

\* The attempt is given up, maybe just before the last delimiter.
Leave ==
  /\ phase # "away"
  /\ phase' \in {"open", "away"}
  /\ \/ phase = "body" /\ PicoReads /\ parked' = 1
     \/ UNCHANGED parked
  /\ UNCHANGED <<inbound, outbound>>

\* What is heard is no answer; the rest of it may still follow.
Mishear ==
  /\ phase = "receive" /\ outbound = 1
  /\ phase' \in {"open", "away"}
  /\ outbound' \in {0, 1}
  /\ UNCHANGED <<parked, inbound>>

Hear ==
  /\ phase = "receive" /\ outbound = 1
  /\ phase' = "away"
  /\ outbound' = 0
  /\ UNCHANGED <<parked, inbound>>

Answer ==
  /\ inbound = 1 /\ outbound = 0
  /\ inbound' = 0 /\ outbound' = 1
  /\ UNCHANGED <<phase, parked>>

AbandonAnswer ==
  /\ outbound = 1
  /\ outbound' = 0
  /\ UNCHANGED <<phase, parked, inbound>>

DropParked ==
  /\ parked = 1
  /\ parked' = 0
  /\ UNCHANGED <<phase, inbound, outbound>>

Restart ==
  /\ parked' = 0 /\ inbound' = 0 /\ outbound' = 0
  /\ UNCHANGED phase

Next ==
  \/ Begin \/ SendOpening \/ SendBody \/ Leave \/ Mishear \/ Hear
  \/ Answer \/ AbandonAnswer \/ DropParked \/ Restart

Spec == Init /\ [][Next]_lineVars
=============================================================================
