-------------------------- MODULE Mailbox_proofs --------------------------
(***************************************************************************)
(* Theorems about Mailbox for all frame lengths and numbers of attempts,   *)
(* as long as no flash update pauses core 1 (Spec).                        *)
(***************************************************************************)
EXTENDS Mailbox, TLAPS

(***************************************************************************)
(* The inductive invariant.                                                *)
(***************************************************************************)

\* TypeOK in two halves, for two provers.
FlagsTyped ==
  /\ txFull \in BOOLEAN /\ txClear \in BOOLEAN /\ rxReady \in BOOLEAN
  /\ ackPending \in BOOLEAN /\ ackClear \in BOOLEAN
  /\ late \in BOOLEAN /\ hostActive \in BOOLEAN /\ picoActive \in BOOLEAN
  /\ paused \in BOOLEAN /\ current \in BOOLEAN

CountersTyped ==
  /\ txByte \in Bytes /\ rxByte \in Bytes /\ held \in Bytes
  /\ hostAt \in HostPlaces /\ picoAt \in PicoPlaces
  /\ sent \in 0 .. Body + 2 /\ put \in 0 .. Body + 2
  /\ hostLength \in 0 .. Body + 1 /\ picoLength \in 0 .. Body + 1
  /\ attempt \in 0 .. Attempts
  /\ unread \in 0 .. 2

\* The counters stay within a frame and within the attempts.
CountersInv ==
  /\ hostAt = "send" => sent <= Body + 1
  /\ hostAt # "away" => attempt < Attempts
  /\ Sending => put <= Body + 1

\* Each line of the board tells at which step of which handshake core 1 is.
LinesInv ==
  /\ ~paused
  /\ rxReady <=> picoAt = "offer"
  /\ ackClear <=> picoAt = "release"
  /\ txClear <=> picoAt = "clear"
  /\ ackPending => picoAt \in {"offer", "clear_ack"}
  /\ picoAt = "taken" => txFull
  /\ picoAt = "clear" => ~txFull
  /\ hostAt = "read" => picoAt = "offer" /\ ~ackPending

\* A host that begins a frame while the Pico sends gets no further than to its
\* second byte: the delimiter that completed the request was the first one of
\* this frame, if it was of this frame at all.
AnswerInv ==
  /\ txByte = "delimiter" /\ hostAt = "send" => sent \in {0, 1}
  /\ picoAt \in {"taken", "clear"} /\ held = "delimiter" /\ hostAt = "send"
       => sent \in {0, 1}
  /\ Sending /\ hostAt = "send" => sent \in {0, 1} \/ (sent = 2 /\ txFull)

IInv == TypeOK /\ CountersInv /\ LinesInv /\ NothingLost /\ AnswerInv /\ OnlyTheAnswer
-----------------------------------------------------------------------------
\* The two halves make up the whole.
LEMMA TypeSplit == TypeOK <=> FlagsTyped /\ CountersTyped
<1>1. TypeOK => FlagsTyped
  BY Zenon DEF TypeOK, FlagsTyped
<1>2. TypeOK => CountersTyped
  BY Zenon DEF TypeOK, CountersTyped
<1>3. FlagsTyped /\ CountersTyped => TypeOK
  BY Zenon DEF TypeOK, FlagsTyped, CountersTyped
<1> QED
  BY <1>1, <1>2, <1>3

(***************************************************************************)
(* It holds initially and every step preserves it.                         *)
(***************************************************************************)

\* The initial states satisfy the invariant.
LEMMA InvInit == Init => IInv
<1> SUFFICES ASSUME Init PROVE IInv
  OBVIOUS
<1>1. FlagsTyped
  BY DEF Init, FlagsTyped
<1>2. CountersTyped
  BY SizesAssumption DEF Init, CountersTyped, Bytes, HostPlaces, PicoPlaces
<1>3. CountersInv /\ AnswerInv /\ OnlyTheAnswer
  BY SizesAssumption DEF Init, CountersInv, AnswerInv, OnlyTheAnswer, Sending
<1>4. LinesInv /\ NothingLost
  BY DEF Init, LinesInv, NothingLost
<1> QED
  BY <1>1, <1>2, <1>3, <1>4, TypeSplit DEF IInv

\* Every step leaves flags flags.
LEMMA FlagsNext ==
  ASSUME FlagsTyped, Next
  PROVE  FlagsTyped'
<1> USE DEF FlagsTyped, boardVars, hostVars, picoVars
<1>1. CASE Begin
  BY <1>1 DEF Begin
<1>2. CASE Deadline
  BY <1>2 DEF Deadline
<1>3. CASE WriteByte
  BY <1>3 DEF WriteByte, ByteAt, HostTurn, Prompt
<1>4. CASE SendTimesOut
  BY <1>4 DEF SendTimesOut, AttemptFails, HostTurn, Prompt
<1>5. CASE SeeReady
  BY <1>5 DEF SeeReady, HostTurn, Prompt
<1>6. CASE ListenTimesOut
  BY <1>6 DEF ListenTimesOut, AttemptFails, HostTurn, Prompt
<1>7. CASE ReadByte
  BY <1>7 DEF ReadByte, HostParse, AttemptFails, HostTurn, Prompt
<1>8. CASE Sample
  BY <1>8 DEF Sample
<1>9. CASE ClearFull
  BY <1>9 DEF ClearFull
<1>10. CASE Feed
  <2>1. /\ txClear' \in BOOLEAN
        /\ UNCHANGED <<txFull, rxReady, ackPending, ackClear, late, hostActive, paused>>
    BY <1>10 DEF Feed
  <2>2. picoActive' \in BOOLEAN
    BY <1>10, Zenon DEF Feed
  <2>3. current' \in BOOLEAN
    <3> DEFINE whole == held = "delimiter" /\ picoActive /\ picoLength = Body
               hears == hostAt \in {"listen", "read"}
    <3>1. current' = IF whole THEN hears ELSE current
      BY <1>10, Zenon DEF Feed
    <3>2. current \in BOOLEAN
      OBVIOUS
    <3>3. hears \in BOOLEAN
      OBVIOUS
    <3> HIDE DEF whole, hears
    <3> QED
      BY <3>1, <3>2, <3>3, Zenon
  <2> QED
    BY <2>1, <2>2, <2>3
<1>11. CASE Offer
  BY <1>11 DEF Offer, ByteAt
<1>12. CASE Retract
  BY <1>12 DEF Retract
<1>13. CASE ClearAck
  BY <1>13 DEF ClearAck
<1>14. CASE Release
  BY <1>14 DEF Release
<1>15. CASE SendByteTimesOut
  BY <1>15 DEF SendByteTimesOut
<1>16. CASE PartialTimesOut
  BY <1>16 DEF PartialTimesOut
<1>17. CASE PicoRestart
  BY <1>17 DEF PicoRestart
<1> QED
  BY <1>1, <1>2, <1>3, <1>4, <1>5, <1>6, <1>7, <1>8, <1>9, <1>10, <1>11, <1>12,
     <1>13, <1>14, <1>15, <1>16, <1>17
  DEF Next, HostStep, PicoStep

\* No step takes a counter out of its range.
LEMMA CountersNext ==
  ASSUME CountersTyped, CountersInv, Next
  PROVE  CountersTyped' /\ CountersInv'
<1> USE SizesAssumption
    DEF CountersTyped, CountersInv, Sending, Bytes, HostPlaces, PicoPlaces,
        boardVars, hostVars, picoVars
<1>1. CASE Begin
  BY <1>1 DEF Begin
<1>2. CASE Deadline
  BY <1>2 DEF Deadline
<1>3. CASE WriteByte
  BY <1>3 DEF WriteByte, ByteAt, HostTurn, Prompt
<1>4. CASE SendTimesOut
  BY <1>4 DEF SendTimesOut, AttemptFails, HostTurn, Prompt
<1>5. CASE SeeReady
  BY <1>5 DEF SeeReady, HostTurn, Prompt
<1>6. CASE ListenTimesOut
  BY <1>6 DEF ListenTimesOut, AttemptFails, HostTurn, Prompt
<1>7. CASE ReadByte
  BY <1>7 DEF ReadByte, HostParse, AttemptFails, HostTurn, Prompt
<1>8. CASE Sample
  BY <1>8 DEF Sample
<1>9. CASE ClearFull
  BY <1>9 DEF ClearFull
<1>10. CASE Feed
  <2>1. CASE held = "delimiter" /\ picoActive /\ picoLength = Body
    BY <1>10, <2>1 DEF Feed
  <2>2. CASE ~(held = "delimiter" /\ picoActive /\ picoLength = Body)
    BY <1>10, <2>2 DEF Feed
  <2> QED
    BY <2>1, <2>2
<1>11. CASE Offer
  BY <1>11 DEF Offer, ByteAt
<1>12. CASE Retract
  BY <1>12 DEF Retract
<1>13. CASE ClearAck
  BY <1>13 DEF ClearAck
<1>14. CASE Release
  BY <1>14 DEF Release
<1>15. CASE SendByteTimesOut
  BY <1>15 DEF SendByteTimesOut
<1>16. CASE PartialTimesOut
  BY <1>16 DEF PartialTimesOut
<1>17. CASE PicoRestart
  BY <1>17 DEF PicoRestart
<1> QED
  BY <1>1, <1>2, <1>3, <1>4, <1>5, <1>6, <1>7, <1>8, <1>9, <1>10, <1>11, <1>12,
     <1>13, <1>14, <1>15, <1>16, <1>17
  DEF Next, HostStep, PicoStep

\* No step of either end breaks a handshake.
LEMMA LinesNext ==
  ASSUME CountersTyped, LinesInv, NothingLost, Next
  PROVE  LinesInv' /\ NothingLost'
<1> USE DEF CountersTyped, LinesInv, NothingLost, boardVars, hostVars, picoVars
<1>1. CASE Begin
  BY <1>1 DEF Begin
<1>2. CASE Deadline
  BY <1>2 DEF Deadline
<1>3. CASE WriteByte
  BY <1>3 DEF WriteByte, ByteAt, HostTurn, Prompt
<1>4. CASE SendTimesOut
  BY <1>4 DEF SendTimesOut, AttemptFails, HostTurn, Prompt
<1>5. CASE SeeReady
  BY <1>5 DEF SeeReady, HostTurn, Prompt
<1>6. CASE ListenTimesOut
  BY <1>6 DEF ListenTimesOut, AttemptFails, HostTurn, Prompt
<1>7. CASE ReadByte
  BY <1>7 DEF ReadByte, HostParse, AttemptFails, HostTurn, Prompt
<1>8. CASE Sample
  BY <1>8 DEF Sample
<1>9. CASE ClearFull
  BY <1>9 DEF ClearFull
<1>10. CASE Feed
  BY <1>10 DEF Feed
<1>11. CASE Offer
  BY <1>11 DEF Offer, ByteAt
<1>12. CASE Retract
  BY <1>12 DEF Retract
<1>13. CASE ClearAck
  BY <1>13 DEF ClearAck
<1>14. CASE Release
  BY <1>14 DEF Release
<1>15. CASE SendByteTimesOut
  BY <1>15 DEF SendByteTimesOut
<1>16. CASE PartialTimesOut
  BY <1>16 DEF PartialTimesOut
<1>17. CASE PicoRestart
  BY <1>17 DEF PicoRestart
<1> QED
  BY <1>1, <1>2, <1>3, <1>4, <1>5, <1>6, <1>7, <1>8, <1>9, <1>10, <1>11, <1>12,
     <1>13, <1>14, <1>15, <1>16, <1>17
  DEF Next, HostStep, PicoStep

\* A host that begins anew does not come to listen while the Pico still sends.
LEMMA AnswerNext ==
  ASSUME CountersTyped, LinesInv, AnswerInv, OnlyTheAnswer, Next
  PROVE  AnswerInv' /\ OnlyTheAnswer'
<1> USE SizesAssumption
    DEF CountersTyped, LinesInv, AnswerInv, OnlyTheAnswer, Sending,
        boardVars, hostVars, picoVars
<1>1. CASE Begin
  BY <1>1 DEF Begin
<1>2. CASE Deadline
  BY <1>2 DEF Deadline
<1>3. CASE WriteByte
  <2>1. /\ hostAt = "send" /\ ~txFull /\ picoAt \notin {"taken", "clear"}
        /\ txFull' = ~txClear /\ txByte' = ByteAt(sent) /\ sent' = sent + 1
        /\ hostAt' = IF sent = Body + 1 THEN "listen" ELSE "send"
        /\ UNCHANGED <<picoAt, held, current>>
    BY <1>3 DEF WriteByte, HostTurn, Prompt
  <2>2. sent \in Nat /\ Body \in Nat \ {0}
    OBVIOUS
  <2>3. ~txClear
    BY <2>1
  <2>4. txFull'
    BY <2>1, <2>3
  <2>5. txByte' = "delimiter" /\ hostAt' = "send" => sent' \in {0, 1}
    BY <2>1, <2>2 DEF ByteAt
  <2>6. Sending /\ hostAt' = "send" => sent' \in {0, 1} \/ sent' = 2
    BY <2>1, <2>2
  <2>7. Sending => hostAt' = "send"
    BY <2>1, <2>2
  <2> QED
    BY <2>1, <2>4, <2>5, <2>6, <2>7
<1>4. CASE SendTimesOut
  BY <1>4 DEF SendTimesOut, AttemptFails, HostTurn, Prompt
<1>5. CASE SeeReady
  BY <1>5 DEF SeeReady, HostTurn, Prompt
<1>6. CASE ListenTimesOut
  BY <1>6 DEF ListenTimesOut, AttemptFails, HostTurn, Prompt
<1>7. CASE ReadByte
  BY <1>7 DEF ReadByte, HostParse, AttemptFails, HostTurn, Prompt
<1>8. CASE Sample
  BY <1>8 DEF Sample
<1>9. CASE ClearFull
  BY <1>9 DEF ClearFull
<1>10. CASE Feed
  <2>1. CASE held = "delimiter" /\ picoActive /\ picoLength = Body
    BY <1>10, <2>1 DEF Feed
  <2>2. CASE ~(held = "delimiter" /\ picoActive /\ picoLength = Body)
    BY <1>10, <2>2 DEF Feed
  <2> QED
    BY <2>1, <2>2
<1>11. CASE Offer
  BY <1>11 DEF Offer, ByteAt
<1>12. CASE Retract
  BY <1>12 DEF Retract
<1>13. CASE ClearAck
  BY <1>13 DEF ClearAck
<1>14. CASE Release
  BY <1>14 DEF Release
<1>15. CASE SendByteTimesOut
  BY <1>15 DEF SendByteTimesOut
<1>16. CASE PartialTimesOut
  BY <1>16 DEF PartialTimesOut
<1>17. CASE PicoRestart
  BY <1>17 DEF PicoRestart
<1> QED
  BY <1>1, <1>2, <1>3, <1>4, <1>5, <1>6, <1>7, <1>8, <1>9, <1>10, <1>11, <1>12,
     <1>13, <1>14, <1>15, <1>16, <1>17
  DEF Next, HostStep, PicoStep

\* The three of them, and stuttering.
LEMMA InvNext == IInv /\ [Next]_vars => IInv'
<1> SUFFICES ASSUME IInv, [Next]_vars PROVE IInv'
  OBVIOUS
<1>1. CASE Next
  <2> USE <1>1 DEF IInv
  <2>1. FlagsTyped /\ CountersTyped
    BY TypeSplit
  <2>2. FlagsTyped'
    BY <2>1, FlagsNext
  <2>3. CountersTyped' /\ CountersInv'
    BY <2>1, CountersNext
  <2>4. TypeOK'
    BY <2>2, <2>3, Zenon DEF TypeOK, FlagsTyped, CountersTyped
  <2>5. LinesInv' /\ NothingLost'
    BY <2>1, LinesNext
  <2>6. AnswerInv' /\ OnlyTheAnswer'
    BY <2>1, AnswerNext
  <2> QED
    BY <2>3, <2>4, <2>5, <2>6
<1>2. CASE UNCHANGED vars
  <2> USE <1>2 DEF vars, boardVars, hostVars, picoVars
  <2>1. TypeOK'
    BY Zenon DEF IInv, TypeOK
  <2>2. CountersInv' /\ LinesInv' /\ AnswerInv' /\ OnlyTheAnswer'
    BY DEF IInv, CountersInv, LinesInv, AnswerInv, OnlyTheAnswer, Sending
  <2>3. NothingLost'
    BY DEF IInv, NothingLost
  <2> QED
    BY <2>1, <2>2, <2>3 DEF IInv
<1> QED
  BY <1>1, <1>2

-----------------------------------------------------------------------------
(***************************************************************************)
(* The theorems.                                                           *)
(***************************************************************************)

\* IInv holds in every state that Spec reaches.
THEOREM Invariant == Spec => []IInv
  BY InvInit, InvNext, PTL DEF Spec

\* The variables keep their types (TypeOK).
THEOREM TypeCorrect == Spec => []TypeOK
<1>1. IInv => TypeOK
  BY DEF IInv
<1> QED
  BY <1>1, Invariant, PTL

\* No byte of the host is overwritten before core 1 has sampled it, and none is
\* sampled twice (mailbox_try_receive, send_byte).
THEOREM NothingLostHolds == Spec => []NothingLost
<1>1. IInv => NothingLost
  BY DEF IInv
<1> QED
  BY <1>1, Invariant, PTL

\* RX_ACK_PENDING is never left set behind mailbox_send_byte, which would block
\* every later response.
THEOREM NoStaleAckHolds == Spec => []NoStaleAck
<1>1. IInv => NoStaleAck
  BY DEF IInv, LinesInv, NoStaleAck
<1> QED
  BY <1>1, Invariant, PTL

\* A host in receive_frame is never sent the answer to an earlier frame.
THEOREM OnlyTheAnswerHolds == Spec => []OnlyTheAnswer
<1>1. IInv => OnlyTheAnswer
  BY DEF IInv
<1> QED
  BY <1>1, Invariant, PTL

\* Every read of port 0x41 takes a byte that is on offer and was not read before.
THEOREM ReadOnceHolds == Spec => ReadOnce
<1>1. IInv /\ [Next]_vars =>
        [hostAt = "read" /\ hostAt' # "read" => picoAt = "offer" /\ ~ackPending]_vars
  BY DEF IInv, LinesInv
<1> QED
  BY <1>1, Invariant, PTL DEF Spec, ReadOnce

-----------------------------------------------------------------------------
(***************************************************************************)
(* The line of P2wpSession.                                                *)
(***************************************************************************)
Listening == hostAt \in {"listen", "read"}

\* A delimiter between the two programs, as in InFlight.
DelimiterInFlight ==
  \/ picoAt \in {"taken", "clear"} /\ held = "delimiter"
  \/ picoAt \notin {"taken", "clear"} /\ txFull /\ txByte = "delimiter"

\* A listening host has taken in all that the Pico has had acknowledged, and
\* begins the answer at its first byte.
SyncInv ==
  /\ Sending => picoLength = 0
  /\ picoAt = "offer" => rxByte = ByteAt(put)
  /\ Listening /\ Sending =>
       /\ ~txFull /\ Acknowledged <= Body + 1
       /\ hostActive <=> Acknowledged > 0
       /\ hostLength = IF Acknowledged > 0 THEN Acknowledged - 1 ELSE 0
  /\ Listening /\ DelimiterInFlight => ~hostActive /\ hostLength = 0

LEMMA SyncInit == Init => SyncInv
BY DEF Init, SyncInv, Sending, Listening, DelimiterInFlight

LEMMA SyncNext ==
  ASSUME IInv, SyncInv, Next
  PROVE  SyncInv'
<1>1. CountersTyped /\ CountersInv /\ LinesInv /\ AnswerInv
  BY TypeSplit DEF IInv
<1> USE <1>1, SizesAssumption
    DEF CountersTyped, CountersInv, LinesInv, AnswerInv, SyncInv, Sending, Listening, Acknowledged,
        DelimiterInFlight, boardVars, hostVars, picoVars
<1>2. CASE Begin
  BY <1>2 DEF Begin
<1>3. CASE Deadline
  BY <1>3 DEF Deadline
<1>4. CASE WriteByte
  BY <1>4 DEF WriteByte, HostTurn, Prompt
<1>5. CASE SendTimesOut
  BY <1>5 DEF SendTimesOut, AttemptFails, HostTurn, Prompt
<1>6. CASE SeeReady
  BY <1>6 DEF SeeReady, HostTurn, Prompt
<1>7. CASE ListenTimesOut
  BY <1>7 DEF ListenTimesOut, AttemptFails, HostTurn, Prompt
<1>8. CASE ReadByte
  <2>1. /\ picoAt = "offer" /\ ~ackPending /\ ~ackClear /\ ackPending' /\ ~txFull
        /\ rxByte = ByteAt(put) /\ HostParse
        /\ UNCHANGED <<txFull, txByte, rxByte, held, picoAt, picoLength, put>>
    BY <1>8 DEF ReadByte, HostTurn, Prompt
  <2>2. put \in 0..Body + 1 /\ Body \in Nat \ {0, 1} /\ hostLength \in Nat
    BY <2>1
  <2>3. /\ hostActive <=> put > 0
        /\ hostLength = IF put > 0 THEN put - 1 ELSE 0
    BY <1>8, <2>1, <2>2 DEF ReadByte
  <2>4. CASE put = 0
    <3>1. hostActive' /\ hostLength' = 0
      BY <2>1, <2>2, <2>3, <2>4 DEF HostParse, ByteAt
    <3>. QED BY <2>1, <2>2, <2>4, <3>1
  <2>5. CASE put \in 1..Body
    <3>1. rxByte = "body"
      BY <2>1, <2>2, <2>5 DEF ByteAt
    <3>2. hostActive' /\ hostLength' = put
      BY <2>1, <2>2, <2>3, <2>5, <3>1 DEF HostParse
    <3>. QED BY <2>1, <2>2, <2>5, <3>2
  <2>6. CASE put = Body + 1
    <3>1. hostAt' = "away"
      BY <2>1, <2>2, <2>3, <2>6 DEF HostParse, ByteAt
    <3>. QED BY <2>1, <2>2, <3>1
  <2>. QED BY <2>2, <2>4, <2>5, <2>6
<1>9. CASE Sample
  BY <1>9 DEF Sample
<1>10. CASE ClearFull
  BY <1>10 DEF ClearFull
<1>11. CASE Feed
  <2>1. CASE held = "delimiter" /\ picoActive /\ picoLength = Body
    BY <1>11, <2>1 DEF Feed
  <2>2. CASE ~(held = "delimiter" /\ picoActive /\ picoLength = Body)
    BY <1>11, <2>2 DEF Feed
  <2> QED
    BY <2>1, <2>2
<1>12. CASE Offer
  BY <1>12 DEF Offer
<1>13. CASE Retract
  BY <1>13 DEF Retract
<1>14. CASE ClearAck
  BY <1>14 DEF ClearAck
<1>15. CASE Release
  BY <1>15 DEF Release
<1>16. CASE SendByteTimesOut
  BY <1>16 DEF SendByteTimesOut
<1>17. CASE PartialTimesOut
  BY <1>17 DEF PartialTimesOut
<1>18. CASE PicoRestart
  BY <1>18 DEF PicoRestart
<1> QED
  BY <1>2, <1>3, <1>4, <1>5, <1>6, <1>7, <1>8, <1>9, <1>10, <1>11, <1>12,
     <1>13, <1>14, <1>15, <1>16, <1>17, <1>18
  DEF Next, HostStep, PicoStep

LEMMA LineInit == Init => Line!Init
BY SizesAssumption
   DEF Init, Line!Init, LinePhase, LineParked, LineInbound, LineOutbound, InFlight,
       BodyArrived, Sending

\* Each step of either end is a step of the line, or none.
LEMMA LineNext ==
  ASSUME IInv, SyncInv, Next
  PROVE  [Line!Next]_(Line!lineVars)
<1>1. CountersTyped /\ CountersInv /\ LinesInv /\ AnswerInv
  BY TypeSplit DEF IInv
<1> DEFINE Same == UNCHANGED <<LinePhase, LineParked, LineInbound, LineOutbound>>
<1>2. Same => [Line!Next]_(Line!lineVars)
  BY DEF Line!lineVars
<1>3. /\ LineParked \in {0, 1} /\ LineInbound \in {0, 1} /\ LineOutbound \in {0, 1}
      /\ LineOutbound' \in {0, 1}
  BY DEF LineParked, LineInbound, LineOutbound
<1> USE <1>1, SizesAssumption
    DEF CountersTyped, CountersInv, LinesInv, AnswerInv, Sending, Acknowledged, InFlight,
        BodyArrived, LinePhase, LineParked, LineInbound, LineOutbound,
        boardVars, hostVars, picoVars
<1>4. CASE Begin
  <2>1. Line!Begin
    BY <1>4 DEF Begin, Line!Begin
  <2>. QED BY <2>1 DEF Line!Next
<1>5. CASE Deadline
  <2>1. Same
    BY <1>5 DEF Deadline
  <2>. QED BY <1>2, <2>1
<1>6. CASE WriteByte
  <2>1. /\ hostAt = "send" /\ ~txFull /\ picoAt \notin {"taken", "clear"}
        /\ txFull' /\ txByte' = ByteAt(sent) /\ sent' = sent + 1
        /\ hostAt' = IF sent = Body + 1 THEN "listen" ELSE "send"
        /\ UNCHANGED <<picoAt, held, picoActive, picoLength, put, ackPending>>
    BY <1>6 DEF WriteByte, HostTurn, Prompt
  <2>2. CASE sent = 0
    <3>1. Line!SendOpening
      BY <2>1, <2>2 DEF ByteAt, Line!SendOpening, SyncInv
    <3>. QED BY <3>1 DEF Line!Next
  <2>3. CASE sent \in 1..Body
    <3>1. Same
      BY <2>1, <2>3 DEF ByteAt
    <3>. QED BY <1>2, <3>1
  <2>4. CASE sent = Body + 1
    <3>1. Line!SendBody
      BY <2>1, <2>4 DEF ByteAt, Line!SendBody, Line!PicoReads
    <3>. QED BY <3>1 DEF Line!Next
  <2>. QED BY <2>1, <2>2, <2>3, <2>4
<1>7. CASE SendTimesOut
  <2>1. Line!Leave
    BY <1>7 DEF SendTimesOut, AttemptFails, HostTurn, Prompt, Line!Leave, Line!PicoReads, SyncInv
  <2>. QED BY <2>1 DEF Line!Next
<1>8. CASE SeeReady
  <2>1. Same
    BY <1>8 DEF SeeReady
  <2>. QED BY <1>2, <2>1
<1>9. CASE ListenTimesOut
  <2>1. Line!Leave
    BY <1>9 DEF ListenTimesOut, AttemptFails, Line!Leave
  <2>. QED BY <2>1 DEF Line!Next
<1>10. CASE ReadByte
  <2>1. /\ picoAt = "offer" /\ ~ackPending /\ ackPending' /\ hostAt = "read"
        /\ rxByte = ByteAt(put) /\ put \in 0..Body + 1
        /\ HostParse
        /\ UNCHANGED <<txFull, txByte, held, picoAt, picoActive, picoLength, put>>
    <3>1. /\ hostAt = "read" /\ ackPending' = ~ackClear /\ HostParse
          /\ UNCHANGED <<txFull, txByte, held, picoAt, picoActive, picoLength, put>>
      BY <1>10, Zenon DEF ReadByte, picoVars
    <3>2. picoAt = "offer" /\ ~ackPending /\ ~ackClear
      BY <3>1
    <3>3. rxByte = ByteAt(put) /\ put \in 0..Body + 1
      BY <3>2 DEF SyncInv
    <3>. QED BY <3>1, <3>2, <3>3
  <2>2. /\ hostActive <=> put > 0
        /\ hostLength = IF put > 0 THEN put - 1 ELSE 0
    BY <2>1 DEF SyncInv, Listening
  <2>3. LinePhase = "receive" /\ LineOutbound = 1 /\ LineParked' = LineParked /\ LineInbound' = LineInbound
    <3>1. LinePhase = "receive" /\ LineOutbound = 1
      BY <2>1
    <3>2. LineInbound' = LineInbound
      BY <2>1
    <3>3. LineParked' = LineParked
      <4>1. BodyArrived' <=> BodyArrived
        BY <2>1
      <4>2. LinePhase # "body" /\ LinePhase' # "body"
        BY <2>1 DEF HostParse, AttemptFails
      <4>. QED BY <4>1, <4>2
    <3>. QED BY <3>1, <3>2, <3>3
  <2>4. CASE put \in 0..Body
    <3>1. hostAt' = "listen"
      BY <2>1, <2>2, <2>4 DEF HostParse, ByteAt
    <3>2. LinePhase' = "receive" /\ LineOutbound' = 1
      BY <2>1, <2>4, <3>1
    <3>. QED BY <1>2, <2>3, <3>2
  <2>5. CASE put = Body + 1
    <3>1. hostAt' = "away"
      BY <2>1, <2>2, <2>5 DEF HostParse, ByteAt
    <3>2. LinePhase' = "away" /\ LineOutbound' = 0
      BY <2>1, <2>5, <3>1
    <3>3. Line!Hear
      BY <2>3, <3>2 DEF Line!Hear
    <3>. QED BY <3>3 DEF Line!Next
  <2>. QED BY <2>1, <2>4, <2>5
<1>11. CASE Sample
  <2>1. Same
    BY <1>11 DEF Sample
  <2>. QED BY <1>2, <2>1
<1>12. CASE ClearFull
  <2>1. Same
    BY <1>12 DEF ClearFull
  <2>. QED BY <1>2, <2>1
<1>13. CASE Feed
  <2>1. CASE held = "delimiter" /\ picoActive /\ picoLength = Body
    <3>1. Line!Answer
      BY <1>13, <2>1 DEF Feed, Line!Answer
    <3>. QED BY <3>1 DEF Line!Next
  <2>2. CASE ~(held = "delimiter" /\ picoActive /\ picoLength = Body)
    <3>1. /\ picoAt = "clear" /\ picoAt' = "listen" /\ ~txFull /\ ~txFull'
          /\ UNCHANGED <<hostAt, sent>>
          /\ picoActive' = (picoActive \/ held = "delimiter")
          /\ picoLength' = IF held = "delimiter" THEN 0
                           ELSE IF picoActive /\ picoLength <= Body THEN picoLength + 1
                           ELSE picoLength
      BY <1>13, <2>2 DEF Feed
    <3>2. LinePhase' = LinePhase /\ LineOutbound = 0 /\ LineOutbound' = 0
      BY <3>1
    <3>3. LineInbound = 0 /\ LineInbound' = 0
      BY <2>2, <3>1
    <3>4. BodyArrived' <=> BodyArrived
      <4>1. CASE held = "delimiter"
        BY <2>2, <3>1, <4>1
      <4>2. CASE held = "body"
        <5>1. InFlight = {"body"} /\ InFlight' = {}
          BY <3>1, <4>2
        <5>2. /\ BodyArrived <=> picoActive /\ picoLength = Body - 1
              /\ BodyArrived' <=> picoActive' /\ picoLength' = Body
          <6>1. {"body"} # {}
            OBVIOUS
          <6>. QED BY <5>1, <6>1, Zenon DEF BodyArrived
        <5>3. picoActive' <=> picoActive
          BY <3>1, <4>2
        <5>4. picoActive => (picoLength' = Body <=> picoLength = Body - 1)
          BY <3>1, <4>2
        <5>. QED BY <5>2, <5>3, <5>4, Zenon
      <4>. QED BY <4>1, <4>2 DEF Bytes
    <3>5. LineParked' = LineParked
      BY <3>2, <3>4
    <3>. QED BY <1>2, <3>2, <3>3, <3>5
  <2>. QED BY <2>1, <2>2
<1>14. CASE Offer
  <2>1. Same
    BY <1>14 DEF Offer
  <2>. QED BY <1>2, <2>1
<1>15. CASE Retract
  <2>1. Same
    BY <1>15 DEF Retract
  <2>. QED BY <1>2, <2>1
<1>16. CASE ClearAck
  <2>1. Same
    BY <1>16 DEF ClearAck
  <2>. QED BY <1>2, <2>1
<1>17. CASE Release
  <2>1. Same
    BY <1>17 DEF Release
  <2>. QED BY <1>2, <2>1
<1>18. CASE SendByteTimesOut
  <2>1. Same \/ Line!AbandonAnswer
    BY <1>18 DEF SendByteTimesOut, Line!AbandonAnswer
  <2>. QED BY <1>2, <2>1 DEF Line!Next
<1>19. CASE PartialTimesOut
  <2>1. Same \/ Line!DropParked
    BY <1>19 DEF PartialTimesOut, Line!DropParked
  <2>. QED BY <1>2, <2>1 DEF Line!Next
<1>20. CASE PicoRestart
  <2>1. Line!Restart
    BY <1>20 DEF PicoRestart, Line!Restart
  <2>. QED BY <2>1 DEF Line!Next
<1> QED
  BY <1>4, <1>5, <1>6, <1>7, <1>8, <1>9, <1>10, <1>11, <1>12,
     <1>13, <1>14, <1>15, <1>16, <1>17, <1>18, <1>19, <1>20
  DEF Next, HostStep, PicoStep

\* The byte mailbox, with its flip-flops, timeouts and resets of the Pico, is the
\* half-duplex line on which P2wpSession builds: every step is one of the line's or
\* none of it (send_byte, receive_frame, mailbox_core_main, mailbox_send).
THEOREM Refinement == Spec => ImplementsLine
<1>1. IInv /\ SyncInv /\ [Next]_vars => SyncInv'
  <2> SUFFICES ASSUME IInv, SyncInv, UNCHANGED vars PROVE SyncInv'
    BY SyncNext
  <2>. QED
    BY DEF vars, boardVars, hostVars, picoVars, SyncInv, Sending, Listening, Acknowledged,
           DelimiterInFlight, ByteAt
<1>2. IInv /\ SyncInv /\ [Next]_vars => [Line!Next]_(Line!lineVars)
  <2> SUFFICES ASSUME IInv, SyncInv, UNCHANGED vars PROVE UNCHANGED Line!lineVars
    BY LineNext
  <2>. QED
    BY DEF vars, boardVars, hostVars, picoVars, Line!lineVars, LinePhase, LineParked,
           LineInbound, LineOutbound, Sending, Acknowledged, InFlight, BodyArrived
<1>. QED BY Invariant, SyncInit, LineInit, <1>1, <1>2, PTL DEF Spec, ImplementsLine, Line!Spec
=============================================================================
