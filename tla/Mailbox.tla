------------------------------ MODULE Mailbox ------------------------------
(***************************************************************************)
(* The byte mailbox between the Z80 (src/p2wp.c, ports 0x40 to 0x42) and   *)
(* core 1 of the Pico (firmware/src/main.c, GPIO), with the flip-flops of  *)
(* the board in between.  Each direction holds one byte.                   *)
(*                                                                         *)
(*   host to Pico   the write sets TX_FULL (U5A); the Pico samples the     *)
(*                  byte and pulses /TX_CLR, which clears it               *)
(*   Pico to host   the Pico raises RX_READY; the read sets RX_ACK_PENDING *)
(*                  (U5B); the Pico lowers RX_READY and pulses /RX_ACK_CLR *)
(*                                                                         *)
(* A flip-flop whose clear input is held low cannot be set.                *)
(*                                                                         *)
(* Core 1 reacts to a flip-flop within a microsecond and the Z80 needs     *)
(* several for an instruction, so the Z80 does not get between the steps   *)
(* of a handshake (Prompt) unless core 1 is paused: core 0 pauses it for   *)
(* the time of a flash update (flash_safe_execute).  A pause is shorter    *)
(* than the firmware's timeouts of a second, and these are longer than a   *)
(* host that is listening takes to read a byte.                            *)
(*                                                                         *)
(* A frame is a delimiter, a body and a delimiter.  A receiver takes a     *)
(* frame for whole by the length of its body, in place of length and CRC.  *)
(***************************************************************************)
EXTENDS Integers

CONSTANTS
  Body,      \* bytes between the delimiters of a frame
  Attempts   \* transmissions per transaction

\* A body has a header and a checksum, so more than one byte.
ASSUME SizesAssumption == Body \in Nat \ {0, 1} /\ Attempts \in Nat \ {0}

Bytes     == {"delimiter", "body"}
HostPlaces == {"away", "send", "listen", "read"}
PicoPlaces == {"listen", "taken", "clear", "free", "offer", "clear_ack", "release"}

VARIABLES
  \* The board
  txFull,      \* U5A, TX_READY is its complement
  txByte,      \* the byte in U1
  txClear,     \* the Pico holds /TX_CLR low
  rxReady,     \* the Pico's RX_READY
  rxByte,      \* the byte on GPIO8 to 15
  ackPending,  \* U5B
  ackClear,    \* the Pico holds /RX_ACK_CLR low
  \* The cartridge, in transact
  hostAt,      \* "send" in send_byte, "listen" and "read" in receive_byte
  sent,        \* bytes of the frame written
  hostActive,  \* receive_frame has seen a delimiter
  hostLength,  \* body bytes it has stored
  attempt,     \* attempts used up
  late,        \* the deadline has passed
  \* Core 1 of the Pico
  picoAt,      \* "listen" in mailbox_core_main, from "free" on in mailbox_send
  held,        \* the byte sampled
  picoActive,  \* parser.active
  picoLength,  \* parser.length
  put,         \* bytes of the response acknowledged
  paused,      \* in the lockout of a flash update
  \* History
  unread,      \* bytes written since the Pico last sampled one, up to 2
  current      \* the response answers the frame the host sent last

boardVars == <<txFull, txByte, txClear, rxReady, rxByte, ackPending, ackClear>>
hostVars  == <<hostAt, sent, hostActive, hostLength, attempt, late>>
picoVars  == <<picoAt, held, picoActive, picoLength, put>>
vars == <<boardVars, hostVars, picoVars, paused, unread, current>>

\* The i-th byte of a frame, from 0.
ByteAt(i) == IF i \in {0, Body + 1} THEN "delimiter" ELSE "body"

Sending == picoAt \in {"free", "offer", "clear_ack", "release"}

\* Core 1 is between two steps of a handshake that follow at once.
Prompt ==
  \/ picoAt \in {"taken", "clear", "clear_ack", "release"}
  \/ picoAt = "offer" /\ ackPending

\* The Z80 reaches a port.
HostTurn == paused \/ ~Prompt

-----------------------------------------------------------------------------
(***************************************************************************)
(* The cartridge.                                                          *)
(***************************************************************************)
Begin ==
  /\ hostAt = "away"
  /\ hostAt' = "send"
  /\ sent' = 0 /\ attempt' = 0 /\ late' = FALSE
  /\ UNCHANGED <<boardVars, hostActive, hostLength, picoVars, paused, unread, current>>

Deadline ==
  /\ hostAt # "away" /\ ~late
  /\ late' = TRUE
  /\ UNCHANGED <<boardVars, hostAt, sent, hostActive, hostLength, attempt,
                 picoVars, paused, unread, current>>

AttemptFails ==
  /\ attempt' = attempt + 1
  /\ hostAt' = IF attempt + 1 < Attempts THEN "send" ELSE "away"
  /\ sent' = 0
  /\ hostActive' = FALSE /\ hostLength' = 0
  /\ UNCHANGED late

\* (mutant) A byte is written without a look at TX_READY.
WriteUnchecked ==
  /\ hostAt = "send" /\ HostTurn
  /\ txFull' = ~txClear
  /\ txByte' = ByteAt(sent)
  /\ unread' = IF unread = 0 THEN 1 ELSE 2
  /\ sent' = sent + 1
  /\ hostAt' = IF sent = Body + 1 THEN "listen" ELSE "send"
  /\ hostActive' = FALSE /\ hostLength' = 0
  /\ UNCHANGED <<txClear, rxReady, rxByte, ackPending, ackClear, attempt, late,
                 picoVars, paused, current>>

\* send_byte: TX_READY, then a write to port 0x40.
WriteByte ==
  /\ hostAt = "send" /\ HostTurn
  /\ ~txFull
  /\ txFull' = ~txClear
  /\ txByte' = ByteAt(sent)
  /\ unread' = IF unread = 0 THEN 1 ELSE 2
  /\ sent' = sent + 1
  /\ hostAt' = IF sent = Body + 1 THEN "listen" ELSE "send"
  /\ hostActive' = FALSE /\ hostLength' = 0
  /\ UNCHANGED <<txClear, rxReady, rxByte, ackPending, ackClear, attempt, late,
                 picoVars, paused, current>>

SendTimesOut ==
  /\ hostAt = "send" /\ HostTurn
  /\ txFull /\ late
  /\ AttemptFails
  /\ UNCHANGED <<boardVars, picoVars, paused, unread, current>>

\* receive_byte: RX_READY, then a read of port 0x41.
SeeReady ==
  /\ hostAt = "listen" /\ HostTurn
  /\ rxReady
  /\ hostAt' = "read"
  /\ UNCHANGED <<boardVars, sent, hostActive, hostLength, attempt, late,
                 picoVars, paused, unread, current>>

\* (mutant) The deadline is looked at only within a frame.
ListenTimesOutInFrame ==
  /\ hostAt = "listen" /\ HostTurn
  /\ ~rxReady /\ late /\ hostActive
  /\ AttemptFails
  /\ UNCHANGED <<boardVars, picoVars, paused, unread, current>>

ListenTimesOut ==
  /\ hostAt = "listen" /\ HostTurn
  /\ ~rxReady /\ late
  /\ AttemptFails
  /\ UNCHANGED <<boardVars, picoVars, paused, unread, current>>

\* receive_frame takes in the byte read: a delimiter opens the frame, is idle
\* fill, or closes it; the frame is whole, damaged or too long.
HostParse ==
  \/ /\ rxByte = "delimiter" /\ (~hostActive \/ hostLength = 0)
     /\ hostActive' = TRUE
     /\ hostAt' = "listen"
     /\ UNCHANGED <<sent, hostLength, attempt, late>>
  \/ /\ rxByte = "delimiter" /\ hostActive /\ hostLength = Body
     /\ hostAt' = "away"
     /\ UNCHANGED <<sent, hostActive, hostLength, attempt, late>>
  \/ /\ rxByte = "delimiter" /\ hostActive /\ hostLength \notin {0, Body}
     /\ AttemptFails
  \/ /\ rxByte = "body" /\ ~hostActive
     /\ hostAt' = "listen"
     /\ UNCHANGED <<sent, hostActive, hostLength, attempt, late>>
  \/ /\ rxByte = "body" /\ hostActive /\ hostLength <= Body
     /\ hostLength' = hostLength + 1
     /\ hostAt' = "listen"
     /\ UNCHANGED <<sent, hostActive, attempt, late>>
  \/ /\ rxByte = "body" /\ hostActive /\ hostLength > Body
     /\ AttemptFails

ReadByte ==
  /\ hostAt = "read" /\ HostTurn
  /\ ackPending' = ~ackClear
  /\ HostParse
  /\ UNCHANGED <<txFull, txByte, txClear, rxReady, rxByte, ackClear, picoVars,
                 paused, unread, current>>

-----------------------------------------------------------------------------
(***************************************************************************)
(* Core 1 of the Pico.                                                     *)
(***************************************************************************)

\* mailbox_try_receive samples the byte, ...
Sample ==
  /\ picoAt = "listen" /\ ~paused
  /\ txFull
  /\ held' = txByte
  /\ unread' = 0
  /\ picoAt' = "taken"
  /\ UNCHANGED <<boardVars, hostVars, picoActive, picoLength, put, paused, current>>

\* (mutant) /TX_CLR is released before TX_FULL has fallen.
ClearTooShort ==
  /\ picoAt = "taken" /\ ~paused
  /\ txClear' = TRUE
  /\ picoAt' = "clear"
  /\ UNCHANGED <<txFull, txByte, rxReady, rxByte, ackPending, ackClear, hostVars,
                 held, picoActive, picoLength, put, paused, unread, current>>

\* ... holds /TX_CLR low until TX_FULL falls, ...
ClearFull ==
  /\ picoAt = "taken" /\ ~paused
  /\ txClear' = TRUE /\ txFull' = FALSE
  /\ picoAt' = "clear"
  /\ UNCHANGED <<txByte, rxReady, rxByte, ackPending, ackClear, hostVars, held,
                 picoActive, picoLength, put, paused, unread, current>>

\* ... and releases it.  p2wp_parser_feed takes in the byte; the delimiter that
\* closes a whole frame has it handled and answered.
Feed ==
  /\ picoAt = "clear" /\ ~paused
  /\ txClear' = FALSE
  /\ LET whole == held = "delimiter" /\ picoActive /\ picoLength = Body
     IN  /\ picoAt' = IF whole THEN "free" ELSE "listen"
         /\ current' = IF whole THEN hostAt \in {"listen", "read"} ELSE current
  /\ put' = 0
  /\ picoActive' = (picoActive \/ held = "delimiter")
  /\ picoLength' = IF held = "delimiter" THEN 0
                   ELSE IF picoActive /\ picoLength <= Body THEN picoLength + 1
                   ELSE picoLength
  /\ UNCHANGED <<txFull, txByte, rxReady, rxByte, ackPending, ackClear, hostVars,
                 held, paused, unread>>

\* The host fell silent in the middle of a frame for a second.
PartialTimesOut ==
  /\ picoAt = "listen" /\ ~paused
  /\ ~txFull /\ hostAt # "send"
  /\ picoActive /\ picoLength # 0
  /\ picoActive' = FALSE /\ picoLength' = 0
  /\ UNCHANGED <<boardVars, hostVars, picoAt, held, put, paused, unread, current>>

\* mailbox_send_byte waits until RX_ACK_PENDING is low, ...
Offer ==
  /\ picoAt = "free" /\ ~paused
  /\ ~ackPending
  /\ rxByte' = ByteAt(put)
  /\ rxReady' = TRUE
  /\ picoAt' = "offer"
  /\ UNCHANGED <<txFull, txByte, txClear, ackPending, ackClear, hostVars, held,
                 picoActive, picoLength, put, paused, unread, current>>

\* (mutant) RX_READY stays high from one byte to the next.
RetractNothing ==
  /\ picoAt = "offer" /\ ~paused
  /\ ackPending
  /\ picoAt' = "clear_ack"
  /\ UNCHANGED <<boardVars, hostVars, held, picoActive, picoLength, put, paused,
                 unread, current>>

\* ... then until it is high, lowers RX_READY, ...
Retract ==
  /\ picoAt = "offer" /\ ~paused
  /\ ackPending
  /\ rxReady' = FALSE
  /\ picoAt' = "clear_ack"
  /\ UNCHANGED <<txFull, txByte, txClear, rxByte, ackPending, ackClear, hostVars,
                 held, picoActive, picoLength, put, paused, unread, current>>

\* ... holds /RX_ACK_CLR low until it falls, ...
ClearAck ==
  /\ picoAt = "clear_ack" /\ ~paused
  /\ ackClear' = TRUE /\ ackPending' = FALSE
  /\ picoAt' = "release"
  /\ UNCHANGED <<txFull, txByte, txClear, rxReady, rxByte, hostVars, held,
                 picoActive, picoLength, put, paused, unread, current>>

\* ... and releases it.  mailbox_send goes on to the next byte.
Release ==
  /\ picoAt = "release" /\ ~paused
  /\ ackClear' = FALSE
  /\ put' = put + 1
  /\ picoAt' = IF put = Body + 1 THEN "listen" ELSE "free"
  /\ UNCHANGED <<txFull, txByte, txClear, rxReady, rxByte, ackPending, hostVars,
                 held, picoActive, picoLength, paused, unread, current>>

\* (mutant) The Pico gives up sooner than a listening host reads.
SendByteImpatient ==
  /\ ~paused
  /\ \/ picoAt = "free" /\ ackPending
     \/ picoAt = "offer" /\ ~ackPending
  /\ rxReady' = FALSE
  /\ picoAt' = "listen"
  /\ UNCHANGED <<txFull, txByte, txClear, rxByte, ackPending, ackClear, hostVars,
                 held, picoActive, picoLength, put, paused, unread, current>>

\* (mutant) Only the first of the two waits has a timeout.
SendByteWaits ==
  /\ ~paused
  /\ picoAt = "free" /\ ackPending
  /\ rxReady' = FALSE
  /\ picoAt' = "listen"
  /\ UNCHANGED <<txFull, txByte, txClear, rxByte, ackPending, ackClear, hostVars,
                 held, picoActive, picoLength, put, paused, unread, current>>

\* A wait of mailbox_send_byte lasts a second; the response is abandoned.
SendByteTimesOut ==
  /\ ~paused
  /\ \/ picoAt = "free" /\ ackPending
     \/ picoAt = "offer" /\ ~ackPending /\ hostAt \notin {"listen", "read"}
  /\ rxReady' = FALSE
  /\ picoAt' = "listen"
  /\ UNCHANGED <<txFull, txByte, txClear, rxByte, ackPending, ackClear, hostVars,
                 held, picoActive, picoLength, put, paused, unread, current>>

\* A reset of the Pico alone, to the end of mailbox_init; it takes longer than
\* the host takes from seeing RX_READY to reading.
PicoRestart ==
  /\ hostAt # "read"
  /\ txFull' = FALSE /\ txClear' = FALSE
  /\ rxReady' = FALSE /\ ackPending' = FALSE /\ ackClear' = FALSE
  /\ picoAt' = "listen" /\ held' = "body"
  /\ picoActive' = FALSE /\ picoLength' = 0 /\ put' = 0
  /\ paused' = FALSE
  /\ unread' = 0
  /\ UNCHANGED <<txByte, rxByte, hostVars, current>>

\* Core 0 starts and ends a flash update.
Pause ==
  /\ ~paused
  /\ paused' = TRUE
  /\ UNCHANGED <<boardVars, hostVars, picoVars, unread, current>>

Resume ==
  /\ paused
  /\ paused' = FALSE
  /\ UNCHANGED <<boardVars, hostVars, picoVars, unread, current>>

-----------------------------------------------------------------------------
Init ==
  /\ txFull = FALSE /\ txByte = "body" /\ txClear = FALSE
  /\ rxReady = FALSE /\ rxByte = "body"
  /\ ackPending = FALSE /\ ackClear = FALSE
  /\ hostAt = "away" /\ sent = 0 /\ attempt = 0 /\ late = FALSE
  /\ hostActive = FALSE /\ hostLength = 0
  /\ picoAt = "listen" /\ held = "body"
  /\ picoActive = FALSE /\ picoLength = 0 /\ put = 0
  /\ paused = FALSE
  /\ unread = 0 /\ current = FALSE

HostStep ==
  WriteByte \/ SendTimesOut \/ SeeReady \/ ListenTimesOut \/ ReadByte

PicoStep ==
  \/ Sample \/ ClearFull \/ Feed
  \/ Offer \/ Retract \/ ClearAck \/ Release \/ SendByteTimesOut

Next ==
  Begin \/ Deadline \/ HostStep \/ PicoStep \/ PartialTimesOut \/ PicoRestart

\* No flash update meets a transaction.
Spec == Init /\ [][Next]_vars

\* Flash updates at any time.
FlashSpec == Init /\ [][Next \/ Pause \/ Resume]_vars

(***************************************************************************)
(* The Z80 and core 1 run their loops, the monitor clock ticks, and a      *)
(* flash update ends.                                                      *)
(***************************************************************************)
Fairness ==
  WF_vars(HostStep) /\ WF_vars(PicoStep) /\ WF_vars(Deadline)

FairSpec      == Spec /\ Fairness
\* Between two flash updates core 1 gets its turn.
FairFlashSpec == FlashSpec /\ Fairness /\ SF_vars(PicoStep) /\ WF_vars(Resume)

(***************************************************************************)
(* Properties.                                                             *)
(***************************************************************************)

\* The lines, the places in both programs and their counters.
TypeOK ==
  /\ txFull \in BOOLEAN /\ txClear \in BOOLEAN /\ rxReady \in BOOLEAN
  /\ ackPending \in BOOLEAN /\ ackClear \in BOOLEAN
  /\ txByte \in Bytes /\ rxByte \in Bytes /\ held \in Bytes
  /\ hostAt \in HostPlaces /\ picoAt \in PicoPlaces
  /\ sent \in 0 .. Body + 2 /\ put \in 0 .. Body + 2
  /\ hostLength \in 0 .. Body + 1 /\ picoLength \in 0 .. Body + 1
  /\ attempt \in 0 .. Attempts
  /\ late \in BOOLEAN /\ hostActive \in BOOLEAN /\ picoActive \in BOOLEAN
  /\ paused \in BOOLEAN /\ current \in BOOLEAN
  /\ unread \in 0 .. 2

\* Every byte written is sampled once: TX_FULL tells exactly whether one waits
\* to be, and never does a second one take its place.
NothingLost == unread = IF txFull /\ picoAt # "taken" THEN 1 ELSE 0

\* Every byte the host reads is on offer, and was not read before.
ReadOnce ==
  [][ hostAt = "read" /\ hostAt' # "read" => picoAt = "offer" /\ ~ackPending ]_vars

\* RX_ACK_PENDING is set only while mailbox_send_byte is there to clear it.
NoStaleAck == ackPending => picoAt \in {"offer", "clear_ack"}

\* While the host listens, the Pico sends nothing but the answer to the frame
\* the host has just completed.
OnlyTheAnswer == hostAt \in {"listen", "read"} /\ Sending => current

\* Both ends wait for each other when the host sends while the Pico answers;
\* the Pico always comes back to listening.
PicoListensAgain == picoAt # "listen" ~> picoAt = "listen"

\* transact returns.
ExchangeEnds == hostAt # "away" ~> hostAt = "away"

\* docs/protocol.md:100 "Both endpoints MUST use a finite timeout for every wait.
\* A transport timeout aborts the partial frame and causes transaction recovery":
\* the line is free again in the end.
LineRecovers == ackPending ~> ~ackPending

(***************************************************************************)
(* The handshakes, bytes and timeouts make up the line that the            *)
(* transactions rely on.                                                   *)
(***************************************************************************)

\* The byte between the two programs, if there is one.
InFlight == IF picoAt \in {"taken", "clear"} THEN {held}
            ELSE IF txFull THEN {txByte} ELSE {}

\* The parser has the body of a frame, or will with the byte between.
BodyArrived ==
  /\ picoActive
  /\ \/ picoLength = Body /\ InFlight = {}
     \/ picoLength = Body - 1 /\ InFlight = {"body"}

\* Bytes of the response that the host has read.
Acknowledged ==
  IF picoAt \in {"clear_ack", "release"} \/ (picoAt = "offer" /\ ackPending)
    THEN put + 1 ELSE put

LinePhase ==
  IF hostAt \in {"listen", "read"} THEN "receive"
  ELSE IF hostAt = "away" THEN "away"
  ELSE IF sent = 0 THEN "open" ELSE "body"

LineParked   == IF BodyArrived /\ LinePhase # "body" THEN 1 ELSE 0
LineInbound  == IF picoActive /\ picoLength = Body /\ InFlight = {"delimiter"} THEN 1 ELSE 0
LineOutbound == IF Sending /\ Acknowledged # Body + 2 THEN 1 ELSE 0

Line == INSTANCE HalfDuplex WITH
  phase <- LinePhase, parked <- LineParked, inbound <- LineInbound,
  outbound <- LineOutbound

\* transact, receive_frame, mailbox_core_main and mailbox_send together keep to
\* the line of HalfDuplex: a frame gets past its opening delimiter only when the
\* Pico reads, an answer starts only on a whole frame, and a frame given up at
\* its last byte is completed by the first byte of the next one and not before.
ImplementsLine == Line!Spec
=============================================================================
