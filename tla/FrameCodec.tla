------------------------------ MODULE FrameCodec ------------------------------
(***************************************************************************)
(* Framing, escaping and the checksum of P2WP, with the real bytes.  One   *)
(* frame follows whatever is left of an earlier one on the line, and both  *)
(* receivers read the same bytes: the parser of the Pico                   *)
(* (firmware/src/p2wp.c), which starts again at every delimiter, and       *)
(* receive_frame of the cartridge (src/p2wp.c), which gives up at the      *)
(* first malformed frame.                                                  *)
(***************************************************************************)
EXTENDS Integers, Sequences

CONSTANTS
  Crc16(_),    \* the checksum of a header and payload, p2wp_crc16
  MaxPayload,  \* P2WP_MAX_PAYLOAD of the Pico
  HostLimit,   \* P2WP_HOST_LIMIT of the cartridge
  Bodies,      \* header and payload of the frames sent
  Noises       \* stretches of other bytes on the line

Delimiter  == 126
Escape     == 125
HeaderSize == 6
CrcSize    == 2

Byte   == 0..255
Word16 == 0..65535

\* byte ^ P2WP_ESCAPE_XOR turns over the bit of value 32.
EscapeXor(byte) == IF (byte \div 32) % 2 = 1 THEN byte - 32 ELSE byte + 32

Word(low, high) == low + 256 * high

\* The senders fill in the payload's length, and both ends hold it; a checksum
\* is a uint16_t.
ASSUME BodiesAssumption ==
  \A b \in Bodies :
    /\ b \in Seq(Byte) /\ Len(b) >= HeaderSize
    /\ Len(b) = HeaderSize + Word(b[5], b[6])
    /\ Word(b[5], b[6]) <= MaxPayload /\ Word(b[5], b[6]) <= HostLimit
    /\ Crc16(b) \in Word16

ASSUME NoisesAssumption == \A n \in Noises : n \in Seq(Byte)

ASSUME LimitsAssumption == MaxPayload \in Nat /\ HostLimit \in Nat

-----------------------------------------------------------------------------
(***************************************************************************)
(* The encoder.                                                            *)
(***************************************************************************)

\* append_escaped, send_escaped
Escaped(byte) ==
  IF byte \in {Delimiter, Escape} THEN <<Escape, EscapeXor(byte)>> ELSE <<byte>>

\* One after the other, to the last.
AllEscaped(data) ==
  LET last[n \in 0..Len(data)] ==
        IF n = 0 THEN <<>> ELSE Escaped(data[Len(data) - n + 1]) \o last[n - 1]
  IN last[Len(data)]

\* The checksum behind the body, low byte first.
WithCrc(body) == body \o <<Crc16(body) % 256, Crc16(body) \div 256>>

\* p2wp_encode of the Pico and send_frame of the cartridge.
Encode(body) == <<Delimiter>> \o AllEscaped(WithCrc(body)) \o <<Delimiter>>

\* (mutant) The checksum is not compared.
ValidUnchecked(received, limit) ==
  /\ Len(received) >= HeaderSize + CrcSize
  /\ Word(received[5], received[6]) <= limit
  /\ Len(received) = HeaderSize + Word(received[5], received[6]) + CrcSize

\* decode_body, and the checks at the end of receive_frame.
Valid(received, limit) ==
  /\ Len(received) >= HeaderSize + CrcSize
  /\ Word(received[5], received[6]) <= limit
  /\ Len(received) = HeaderSize + Word(received[5], received[6]) + CrcSize
  /\ Crc16(SubSeq(received, 1, Len(received) - CrcSize))
       = Word(received[Len(received) - 1], received[Len(received)])

Body(received) == SubSeq(received, 1, Len(received) - CrcSize)

-----------------------------------------------------------------------------
VARIABLES
  wire,    \* bytes not yet read
  frame,   \* the body of the frame sent last
  noise,   \* what came before it
  parser,  \* p2wp_parser_t
  heard,   \* history: frames the parser delivered
  latest,  \* history: whether the last byte delivered one
  host     \* the locals of receive_frame, and its result

codecVars == <<wire, frame, noise, parser, heard, latest, host>>

Listening == [active |-> FALSE, escaped |-> FALSE, overflow |-> FALSE, body |-> <<>>]
Started   == [Listening EXCEPT !.active = TRUE]

\* (mutant) A delimiter leaves an open escape as it is.
ParserKeepsEscape(p, byte) ==
  LET full == Len(p.body) = HeaderSize + MaxPayload + CrcSize
      data == IF p.escaped THEN EscapeXor(byte) ELSE byte
  IN IF byte = Delimiter THEN [Started EXCEPT !.escaped = p.escaped]
     ELSE IF ~p.active \/ p.overflow THEN p
     ELSE IF ~p.escaped /\ byte = Escape THEN [p EXCEPT !.escaped = TRUE]
     ELSE IF full THEN [p EXCEPT !.escaped = FALSE, !.overflow = TRUE]
     ELSE [p EXCEPT !.escaped = FALSE, !.body = Append(@, data)]

\* p2wp_parser_feed: what it does to the parser.
ParserFeed(p, byte) ==
  LET full == Len(p.body) = HeaderSize + MaxPayload + CrcSize
      data == IF p.escaped THEN EscapeXor(byte) ELSE byte
  IN IF byte = Delimiter THEN Started
     ELSE IF ~p.active \/ p.overflow THEN p
     ELSE IF ~p.escaped /\ byte = Escape THEN [p EXCEPT !.escaped = TRUE]
     ELSE IF full THEN [p EXCEPT !.escaped = FALSE, !.overflow = TRUE]
     ELSE [p EXCEPT !.escaped = FALSE, !.body = Append(@, data)]

\* P2WP_PARSE_FRAME is its result.
ParserDelivers(p, byte) ==
  /\ byte = Delimiter /\ p.active
  /\ ~p.escaped /\ ~p.overflow
  /\ Valid(p.body, MaxPayload)

\* receive_frame, one byte: a delimiter that ends nothing leaves everything,
\* the escape too, as it is.
HostFeed(h, byte) ==
  LET data == IF h.escaped THEN EscapeXor(byte) ELSE byte
  IN IF h.result # "reading" THEN h
     ELSE IF byte = Delimiter /\ ~h.active THEN [h EXCEPT !.active = TRUE]
     ELSE IF byte = Delimiter /\ h.body # <<>> THEN
       [h EXCEPT !.result = IF ~h.escaped /\ Valid(h.body, HostLimit)
                            THEN "frame" ELSE "malformed"]
     ELSE IF byte = Delimiter \/ ~h.active THEN h
     ELSE IF ~h.escaped /\ byte = Escape THEN [h EXCEPT !.escaped = TRUE]
     ELSE IF Len(h.body) = HeaderSize + HostLimit + CrcSize THEN
       [h EXCEPT !.result = "malformed"]
     ELSE [h EXCEPT !.escaped = FALSE, !.body = Append(@, data)]

HostListening == [active |-> FALSE, escaped |-> FALSE, body |-> <<>>,
                  result |-> "reading"]

Feed ==
  /\ wire # <<>>
  /\ wire' = Tail(wire)
  /\ parser' = ParserFeed(parser, Head(wire))
  /\ latest' = ParserDelivers(parser, Head(wire))
  /\ heard' = IF latest' THEN heard \cup {Body(parser.body)} ELSE heard
  /\ host' = HostFeed(host, Head(wire))
  /\ UNCHANGED <<frame, noise>>

\* The frame without its last bytes, and without one of its bytes.
CutShort(b) == {SubSeq(Encode(b), 1, n) : n \in 0..Len(Encode(b))}

ByteLost(b) ==
  {SubSeq(Encode(b), 1, n - 1) \o SubSeq(Encode(b), n + 1, Len(Encode(b))) :
     n \in 1..Len(Encode(b))}

Damaged == Noises \cup UNION {CutShort(b) \cup ByteLost(b) : b \in Bodies}

CodecStart(f, n) ==
  /\ frame = f /\ noise = n
  /\ wire = noise \o Encode(frame)
  /\ parser = Listening /\ heard = {} /\ latest = FALSE
  /\ host = HostListening

CodecInit == \E f \in Bodies, n \in Damaged : CodecStart(f, n)

CodecSpec == CodecInit /\ [][Feed]_codecVars

-----------------------------------------------------------------------------
\* Nothing but delimiters after the first delimiter.
Quiet(bytes) ==
  \A i, j \in 1..Len(bytes) :
    i < j /\ bytes[i] = Delimiter => bytes[j] = Delimiter

\* After any remains of another frame the Pico's parser delivers the frame that
\* follows, and the cartridge, which has one chance, gets it unless the remains
\* would be read as the beginning of a frame.
FrameArrives ==
  wire = <<>> =>
    /\ latest /\ frame \in heard
    /\ Quiet(noise) => host.result = "frame" /\ Body(host.body) = frame

\* Neither end hears a frame that was never sent, whatever is escaped in it, cut
\* off or lost.
OnlyFramesSent ==
  /\ heard \subseteq Bodies
  /\ host.result = "frame" => Body(host.body) \in Bodies
=============================================================================
