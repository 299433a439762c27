---------------------------- MODULE P2wpSession ----------------------------
(***************************************************************************)
(* Transactions and sessions of P2WP, the request/response protocol        *)
(* between the Z80 cartridge (the host, src/p2wp.c) and the Pico firmware  *)
(* (the peripheral, firmware/src/firmware_core.c) over the byte mailbox.   *)
(*                                                                         *)
(* The host sends one request at a time, at most Attempts times within one *)
(* deadline, and advances its one-byte sequence number only after it has   *)
(* accepted a response.  The peripheral keeps one session and the last     *)
(* request it processed successfully, with its response: it answers an     *)
(* identical request from that cache and refuses another request that      *)
(* reuses its sequence number.                                             *)
(*                                                                         *)
(* The link is half duplex.  The firmware handles a frame when its closing *)
(* delimiter arrives and then sends the response byte by byte, reading     *)
(* nothing meanwhile, until the host has read it or a byte is not read     *)
(* within a second.  A frame can be damaged in either direction; the CRC   *)
(* is taken to detect every damage.  A request that lost only its closing  *)
(* delimiter is parked in the firmware's parser, and the opening delimiter *)
(* of the host's next frame completes it.                                  *)
(***************************************************************************)
EXTENDS Integers, Sequences

CONSTANTS
  Requests,    \* request contents (type and payload) other than HELLO
  TypeOf,      \* the type byte of each request content
  IdentityOf,  \* the 16-bit checksum by which the firmware knows a content
  Hello,       \* the content of the one HELLO request the cartridge sends
  SeqMod,      \* number of sequence numbers (256 in the code)
  Attempts,    \* transmissions per transaction (3 in the code)
  HostRange,   \* <<oldest, newest>> protocol version of the cartridge
  Firmwares    \* the version ranges of the firmware a Pico may run

ASSUME RequestsAssumption ==
  /\ Hello \notin Requests
  /\ TypeOf \in [Requests -> Nat]
  /\ IdentityOf \in [Requests -> Nat]

ASSUME NumbersAssumption ==
  /\ SeqMod \in Nat \ {0, 1}
  /\ Attempts \in Nat \ {0}

ASSUME RangesAssumption ==
  /\ HostRange \in (Nat \ {0}) \X (Nat \ {0})
  /\ Firmwares \subseteq (Nat \ {0}) \X (Nat \ {0})
  /\ Firmwares # {}

(***************************************************************************)
(* Version 0 stands for "no session"; P2WP_BOOTSTRAP_VERSION, the version  *)
(* byte of HELLO, is 2.                                                    *)
(***************************************************************************)
NoVersion == 0
Bootstrap == 2

Contents == Requests \cup {Hello}
Seqs     == 0 .. SeqMod - 1

(***************************************************************************)
(* A request frame, and a response.  "req" of a response is the content it *)
(* answers: the host sees only its type and, under code "OK", the data it  *)
(* produced.  "selected" and "capable" are the version and the capability  *)
(* bits in the answer to HELLO.                                            *)
(***************************************************************************)
Frames    == [version : Nat, seq : Seqs, req : Contents]
Codes     == {"OK", "UNSUPPORTED_VERSION", "SEQUENCE_CONFLICT", "REJECTED"}
Responses == [version : Nat, seq : Seqs, req : Contents, code : Codes,
              selected : Nat, capable : BOOLEAN]
Results   == {"NONE", "OK", "TIMEOUT", "INVALID", "INCOMPATIBLE",
              "REMOTE_ERROR"}
Phases    == {"boot", "idle", "open", "body", "receive", "halted"}

VARIABLES
  \* The cartridge
  phase,        \* where its program is; the last three are in transact()
  frame,        \* the request workspace
  attempt,      \* attempts used up in the current transaction
  expired,      \* the transaction's deadline has passed
  hostVersion,  \* session->version, NoVersion until HELLO is accepted
  nextSeq,      \* session->next_sequence
  result,       \* what the last transaction returned
  \* The link
  parked,       \* request lacking its closing delimiter, {} or {f}
  inbound,      \* request complete in the parser, {} or {f}
  outbound,     \* response being sent, {} or {r}
  \* The firmware
  firmware,     \* its <<oldest, newest>> protocol version
  radioUp,      \* the radio's bring-up has not failed
  picoVersion,  \* session_version, NoVersion while not session_valid
  cache,        \* the cached request and response, {} or {e}
  \* History
  ran,          \* contents executed under the current sequence number
  gaveUp,       \* a transaction under it ended with no response accepted
  age,          \* sequence advances since cache was filled, up to SeqMod
  restarted     \* the Pico restarted since the host accepted HELLO

hostVars == <<phase, frame, attempt, expired, hostVersion, nextSeq, result>>
linkVars == <<parked, inbound, outbound>>
picoVars == <<firmware, radioUp, picoVersion, cache>>
histVars == <<ran, gaveUp, age, restarted>>
vars     == <<hostVars, linkVars, picoVars, histVars>>

-----------------------------------------------------------------------------
(***************************************************************************)
(* Definitions shared by both ends.                                        *)
(***************************************************************************)

\* p2wp_select_version: the newest version both ranges hold, if any.
Larger(a, b)  == IF a > b THEN a ELSE b
Smaller(a, b) == IF a < b THEN a ELSE b
SelectVersion(host, pico) ==
  LET lowest  == Larger(host[1], pico[1])
      highest == Smaller(host[2], pico[2])
  IN  IF host[1] <= host[2] /\ pico[1] <= pico[2] /\ lowest <= highest
        THEN highest
        ELSE NoVersion

SameType(a, b) ==
  \/ a = Hello /\ b = Hello
  \/ a \in Requests /\ b \in Requests /\ TypeOf[a] = TypeOf[b]

\* What the firmware takes for the same request: type and checksum.
SameRequest(a, b) ==
  \/ a = Hello /\ b = Hello
  \/ /\ a \in Requests /\ b \in Requests
     /\ TypeOf[a] = TypeOf[b] /\ IdentityOf[a] = IdentityOf[b]

\* (mutant) The sequence number grows past its byte.
SuccessorUnwrapped(seq) == seq + 1

\* ++next_sequence on a byte.
Successor(seq) == IF seq + 1 = SeqMod THEN 0 ELSE seq + 1

HelloFrame == [version |-> Bootstrap, seq |-> 0, req |-> Hello]

-----------------------------------------------------------------------------
(***************************************************************************)
(* The firmware: p2wp_firmware_core_handle.                                *)
(***************************************************************************)

\* (mutant) HELLO's answer repeats the version byte of the request.
SuccessEchoesVersion(f) ==
  [version |-> IF f.req = Hello THEN Bootstrap ELSE picoVersion,
   seq |-> f.seq, req |-> f.req, code |-> "OK",
   selected |-> f.version, capable |-> radioUp]

Success(f) ==
  [version |-> IF f.req = Hello THEN Bootstrap ELSE picoVersion,
   seq |-> f.seq, req |-> f.req, code |-> "OK",
   selected |-> IF f.req = Hello THEN SelectVersion(HostRange, firmware)
                                 ELSE NoVersion,
   capable |-> radioUp]

Failure(f, code) ==
  [version |-> f.version, seq |-> f.seq, req |-> f.req, code |-> code,
   selected |-> NoVersion, capable |-> FALSE]

\* (mutant) A retry is known by its sequence number and type alone.
DuplicateByType(f) ==
  \E e \in cache : e.seq = f.seq /\ SameType(e.req, f.req)

Duplicate(f) ==
  \E e \in cache : e.seq = f.seq /\ SameRequest(e.req, f.req)

\* (mutant) The version expected is the bootstrap version, not the session's.
VersionBootstrap(f) == f.version = Bootstrap

VersionKnown(f) ==
  IF f.req = Hello
    THEN f.version = Bootstrap
    ELSE picoVersion # NoVersion /\ f.version = picoVersion

\* (mutant) Only a request of the same type conflicts.
ConflictingByType(f) ==
  f.req # Hello /\ \E e \in cache : e.seq = f.seq /\ SameType(e.req, f.req)

Conflicting(f) ==
  f.req # Hello /\ \E e \in cache : e.seq = f.seq

\* The cache after a request that succeeded.
Remember(f, r) == {[seq |-> f.seq, req |-> f.req, response |-> r]}

\* The retry of the cached request gets the cached response again.
Resend(f) ==
  /\ Duplicate(f)
  /\ outbound' = {e.response : e \in cache}
  /\ UNCHANGED <<picoVersion, cache, ran, gaveUp, age>>

Refuse(f, code) ==
  /\ outbound' = {Failure(f, code)}
  /\ UNCHANGED <<picoVersion, cache, ran, gaveUp, age>>

\* A new HELLO starts a session, or finds no version in common.
Greet(f) ==
  LET selected == SelectVersion(HostRange, firmware)
  IN  /\ f.req = Hello
      /\ ~Duplicate(f) /\ VersionKnown(f)
      /\ \/ /\ selected = NoVersion
            /\ Refuse(f, "UNSUPPORTED_VERSION")
         \/ /\ selected # NoVersion
            /\ outbound' = {Success(f)}
            /\ picoVersion' = selected
            /\ cache' = Remember(f, Success(f))
            /\ ran' = <<>>
            /\ gaveUp' = FALSE
            /\ age' = 0

\* A new request of the session runs its command.  A command that returns an
\* error has no effect, and its response is not cached.
Execute(f) ==
  /\ f.req # Hello
  /\ ~Duplicate(f) /\ VersionKnown(f) /\ ~Conflicting(f)
  /\ \/ Refuse(f, "REJECTED")
     \/ /\ outbound' = {Success(f)}
        /\ cache' = Remember(f, Success(f))
        /\ ran' = Append(ran, f.req)
        /\ age' = 0
        /\ UNCHANGED <<picoVersion, gaveUp>>

PicoHandle ==
  /\ outbound = {}
  /\ \E f \in inbound :
       /\ inbound' = {}
       /\ \/ Resend(f)
          \/ /\ ~Duplicate(f) /\ ~VersionKnown(f)
             /\ Refuse(f, "UNSUPPORTED_VERSION")
          \/ /\ ~Duplicate(f) /\ VersionKnown(f) /\ Conflicting(f)
             /\ Refuse(f, "SEQUENCE_CONFLICT")
          \/ Greet(f)
          \/ Execute(f)
  /\ UNCHANGED <<hostVars, parked, firmware, radioUp, restarted>>

\* mailbox_send gives up: the host did not read a byte within a second.
PicoAbortsResponse ==
  /\ outbound # {}
  /\ outbound' = {}
  /\ UNCHANGED <<hostVars, parked, inbound, picoVars, histVars>>

\* The partial-frame timeout resets the parser.
PicoDropsPartial ==
  /\ parked # {}
  /\ parked' = {}
  /\ UNCHANGED <<hostVars, inbound, outbound, picoVars, histVars>>

\* The radio's bring-up fails; HELLO no longer advertises the radio.
RadioFails ==
  /\ radioUp
  /\ radioUp' = FALSE
  /\ UNCHANGED <<hostVars, linkVars, firmware, picoVersion, cache, histVars>>

\* A Pico-only reset, perhaps into other firmware: mailbox_init, parser_init
\* and p2wp_firmware_core_init.
PicoRestart ==
  /\ parked' = {} /\ inbound' = {} /\ outbound' = {}
  /\ firmware' \in Firmwares
  /\ radioUp' = TRUE
  /\ picoVersion' = NoVersion
  /\ cache' = {}
  /\ restarted' = TRUE
  /\ UNCHANGED <<hostVars, ran, gaveUp, age>>

-----------------------------------------------------------------------------
(***************************************************************************)
(* The cartridge: transact and its callers.                                *)
(***************************************************************************)

Transact(f) ==
  /\ phase' = "open"
  /\ frame' = f
  /\ attempt' = 0
  /\ expired' = FALSE

\* main() calls p2wp_hello exactly once.
StartHello ==
  /\ phase = "boot"
  /\ Transact(HelloFrame)
  /\ UNCHANGED <<hostVersion, nextSeq, result, linkVars, picoVars, histVars>>

\* p2wp_request.
StartRequest ==
  /\ phase = "idle"
  /\ \E c \in Requests :
       Transact([version |-> hostVersion, seq |-> nextSeq, req |-> c])
  /\ UNCHANGED <<hostVersion, nextSeq, result, linkVars, picoVars, histVars>>

\* The transaction's deadline passes.
Expire ==
  /\ phase \in {"open", "body", "receive"}
  /\ ~expired
  /\ expired' = TRUE
  /\ UNCHANGED <<phase, frame, attempt, hostVersion, nextSeq, result,
                 linkVars, picoVars, histVars>>

\* (mutant) A failed attempt is tried again without being counted.
AttemptUncounted ==
  /\ phase' = "open"
  /\ UNCHANGED <<frame, attempt, expired, hostVersion, nextSeq, result, histVars>>

\* An attempt failed.  The last one ends the transaction: p2wp_request leaves
\* the session as it is, main() halts when HELLO failed.
AttemptFails ==
  /\ attempt' = attempt + 1
  /\ UNCHANGED <<frame, expired, hostVersion, nextSeq, ran, age, restarted>>
  /\ \/ /\ attempt + 1 < Attempts
        /\ phase' = "open"
        /\ UNCHANGED <<result, gaveUp>>
     \/ /\ attempt + 1 = Attempts
        /\ phase' = IF frame.req = Hello THEN "halted" ELSE "idle"
        /\ result' = IF expired THEN "TIMEOUT" ELSE "INVALID"
        /\ gaveUp' = (gaveUp \/ frame.req # Hello)

\* send_frame writes the opening delimiter, which also closes a parked frame.
SendOpening ==
  /\ phase = "open"
  /\ phase' = "body"
  /\ inbound' = inbound \cup parked
  /\ parked' = {}
  /\ UNCHANGED <<frame, attempt, expired, hostVersion, nextSeq, result,
                 outbound, picoVars, histVars>>

\* (mutant) The firmware reads on while it sends a response.
PicoReadsWhileSending == inbound = {}

\* The firmware reads: it neither handles a request nor sends a response.
PicoReads == inbound = {} /\ outbound = {}

\* send_frame writes the body and the closing delimiter, each byte when the
\* firmware took the last one.  The frame arrives, is damaged and dropped, or
\* loses only its closing delimiter.
SendBody ==
  /\ phase = "body"
  /\ PicoReads
  /\ phase' = "receive"
  /\ \/ inbound' = {frame} /\ UNCHANGED parked
     \/ UNCHANGED <<inbound, parked>>
     \/ parked' = {frame} /\ UNCHANGED inbound
  /\ UNCHANGED <<frame, attempt, expired, hostVersion, nextSeq, result,
                 outbound, picoVars, histVars>>

\* send_byte finds TX_READY low after the deadline; what was sent of the frame
\* may lack no more than the closing delimiter.
SendTimesOut ==
  /\ phase \in {"open", "body"}
  /\ expired
  /\ AttemptFails
  /\ \/ UNCHANGED parked
     \/ phase = "body" /\ PicoReads /\ parked' = {frame}
  /\ UNCHANGED <<inbound, outbound, picoVars>>

\* receive_byte finds RX_READY low after the deadline.
ReceiveTimesOut ==
  /\ phase = "receive"
  /\ expired
  /\ AttemptFails
  /\ UNCHANGED <<linkVars, picoVars>>

\* validate_response compares the version, type and sequence number.
Matches(r) ==
  /\ r.version = frame.version
  /\ SameType(r.req, frame.req)
  /\ r.seq = frame.seq

\* receive_frame drops a damaged response, or one that does not match; where
\* the damage looks like a delimiter it leaves the rest of the frame unread.
ReceiveBad ==
  /\ phase = "receive"
  /\ outbound # {}
  /\ outbound' \in {{}, outbound}
  /\ AttemptFails
  /\ UNCHANGED <<parked, inbound, picoVars>>

\* validate_hello: a version and capabilities the cartridge can use.
Usable(r) ==
  /\ r.selected \in HostRange[1] .. HostRange[2]
  /\ r.capable

\* The answer to HELLO is accepted, or main() shows what is wrong and halts.
AcceptHello(r) ==
  /\ frame.req = Hello
  /\ \/ /\ r.code = "OK" /\ Usable(r)
        /\ phase' = "idle"
        /\ result' = "OK"
        /\ hostVersion' = r.selected
        /\ nextSeq' = 1
        /\ age' = 1
        /\ restarted' = FALSE
        /\ UNCHANGED <<ran, gaveUp>>
     \/ /\ ~(r.code = "OK" /\ Usable(r))
        /\ phase' = "halted"
        /\ result' = CASE r.code = "OK" -> "INVALID"
                       [] r.code = "UNSUPPORTED_VERSION" -> "INCOMPATIBLE"
                       [] OTHER -> "REMOTE_ERROR"
        /\ UNCHANGED <<hostVersion, nextSeq, histVars>>

\* (mutant) The sequence number advances only after success.
AdvanceOnSuccess(r) ==
  /\ frame.req # Hello
  /\ phase' = "idle"
  /\ result' = IF r.code = "OK" THEN "OK" ELSE "REMOTE_ERROR"
  /\ nextSeq' = IF r.code = "OK" THEN Successor(nextSeq) ELSE nextSeq
  /\ ran' = <<>>
  /\ gaveUp' = FALSE
  /\ age' = Smaller(age + 1, SeqMod)
  /\ UNCHANGED <<hostVersion, restarted>>

\* p2wp_request advances the sequence number after any response.
AcceptAnswer(r) ==
  /\ frame.req # Hello
  /\ phase' = "idle"
  /\ result' = IF r.code = "OK" THEN "OK" ELSE "REMOTE_ERROR"
  /\ nextSeq' = Successor(nextSeq)
  /\ ran' = <<>>
  /\ gaveUp' = FALSE
  /\ age' = Smaller(age + 1, SeqMod)
  /\ UNCHANGED <<hostVersion, restarted>>

Receive ==
  /\ phase = "receive"
  /\ \E r \in outbound : Matches(r) /\ (AcceptHello(r) \/ AcceptAnswer(r))
  /\ outbound' = {}
  /\ UNCHANGED <<frame, attempt, expired, parked, inbound, picoVars>>

\* The P2000T is reset, in the middle of a frame perhaps.
HostRestart ==
  /\ phase # "boot"
  /\ phase' = "boot"
  /\ frame' = HelloFrame
  /\ attempt' = 0
  /\ expired' = FALSE
  /\ hostVersion' = NoVersion
  /\ result' = "NONE"
  /\ \/ UNCHANGED parked
     \/ phase = "body" /\ PicoReads /\ parked' = {frame}
  /\ UNCHANGED <<nextSeq, inbound, outbound, picoVars, histVars>>

-----------------------------------------------------------------------------
Init ==
  /\ phase = "boot"
  /\ frame = HelloFrame
  /\ attempt = 0
  /\ expired = FALSE
  /\ hostVersion = NoVersion
  /\ nextSeq = 0
  /\ result = "NONE"
  /\ parked = {} /\ inbound = {} /\ outbound = {}
  /\ firmware \in Firmwares
  /\ radioUp = TRUE
  /\ picoVersion = NoVersion
  /\ cache = {}
  /\ ran = <<>>
  /\ gaveUp = FALSE
  /\ age = 0
  /\ restarted = FALSE

HostStep ==
  \/ StartHello \/ SendOpening \/ SendBody \/ SendTimesOut
  \/ ReceiveTimesOut \/ ReceiveBad \/ Receive

PicoStep ==
  PicoHandle \/ PicoAbortsResponse \/ PicoDropsPartial

Next ==
  \/ HostStep \/ StartRequest \/ Expire \/ HostRestart
  \/ PicoStep \/ RadioFails \/ PicoRestart

Spec == Init /\ [][Next]_vars

(***************************************************************************)
(* The Z80 and core 1 of the Pico run their loops forever, and the monitor *)
(* clock that the deadline is read from keeps ticking.  Nobody need press  *)
(* a key, reset anything or lose a frame.                                  *)
(***************************************************************************)
Fairness ==
  /\ WF_vars(HostStep)
  /\ WF_vars(Expire)
  /\ WF_vars(PicoHandle)

FairSpec == Spec /\ Fairness

(***************************************************************************)
(* Properties.                                                             *)
(***************************************************************************)
CacheEntries == [seq : Seqs, req : Contents, response : Responses]

HostTypeOK ==
  /\ phase \in Phases
  /\ frame \in Frames
  /\ attempt \in 0 .. Attempts
  /\ expired \in BOOLEAN
  /\ hostVersion \in Nat
  /\ nextSeq \in Seqs
  /\ result \in Results

LinkTypeOK ==
  /\ parked \in SUBSET Frames
  /\ inbound \in SUBSET Frames
  /\ outbound \in SUBSET Responses

PicoTypeOK ==
  /\ firmware \in Firmwares
  /\ radioUp \in BOOLEAN
  /\ picoVersion \in Nat
  /\ cache \in SUBSET CacheEntries

HistTypeOK ==
  /\ ran \in Seq(Requests)
  /\ gaveUp \in BOOLEAN
  /\ age \in 0 .. SeqMod
  /\ restarted \in BOOLEAN

\* Every variable of the cartridge, the link and the firmware keeps the shape
\* the code gives it.
TypeOK == HostTypeOK /\ LinkTypeOK /\ PicoTypeOK /\ HistTypeOK

\* A sequence number is used up by at most one execution, however often its
\* requests are sent, answered, lost, resent late or abandoned.
AtMostOnce == Len(ran) <= 1

\* While the host listens, a response on its way answers the very request the
\* host sent last, never an earlier one: the firmware cannot be sending when
\* send_frame completes.
HearsOnlyItsAnswer ==
  phase = "receive" =>
    \A r \in outbound : r.seq = frame.seq /\ SameType(r.req, frame.req)

\* Unless the Pico restarted, both ends speak the version HELLO settled, and
\* that version is in the cartridge's range.
SessionsAgree ==
  hostVersion # NoVersion /\ ~restarted =>
    /\ picoVersion = hostVersion
    /\ hostVersion \in HostRange[1] .. HostRange[2]

\* The host accepts a response with this code to a request.
AnswersWith(code) ==
  /\ phase = "receive" /\ phase' = "idle"
  /\ frame.req # Hello
  /\ \E r \in outbound : r.code = code
  /\ result' \in {"OK", "REMOTE_ERROR"}

\* No more than SeqMod - 1 requests in a row were answered with errors: none
\* of them is cached, so after that many the sequence number of the cached
\* request comes round again.
InWindow == age < SeqMod

\* When p2wp_request returns P2WP_OK, the firmware executed, under this
\* sequence number and once, a request it cannot tell from this one, and the
\* response carries the result of that execution.
AnswerIsOwn ==
  [][ AnswersWith("OK") /\ InWindow =>
        /\ Len(ran) = 1
        /\ SameRequest(ran[1], frame.req)
        /\ \A r \in outbound : r.req = ran[1] ]_vars

\* SEQUENCE_CONFLICT reaches the host only where an earlier request under the
\* same number was executed and its transaction given up.
ConflictAfterGiveUp ==
  [][ AnswersWith("SEQUENCE_CONFLICT") /\ InWindow =>
        gaveUp /\ Len(ran) = 1 /\ ~SameRequest(ran[1], frame.req) ]_vars

\* Within a session the firmware refuses a request's version only after it
\* has restarted.
RefusalAfterRestart ==
  [][ AnswersWith("UNSUPPORTED_VERSION") => restarted ]_vars

\* transact always returns: three attempts share one deadline.
EveryCallReturns ==
  phase \in {"open", "body", "receive"} ~> phase \notin {"open", "body", "receive"}

(***************************************************************************)
(* Why it works: the parts of the inductive invariant.                     *)
(***************************************************************************)
InCall == phase \in {"open", "body", "receive"}

\* The program has a session exactly from HELLO's answer to the next reset,
\* and its workspace holds the request of the call in progress.
HostInv ==
  /\ phase \in {"boot", "halted"} => hostVersion = NoVersion
  /\ phase = "idle" => hostVersion # NoVersion
  /\ InCall /\ frame.req = Hello =>
       hostVersion = NoVersion /\ frame = HelloFrame
  /\ InCall /\ frame.req # Hello =>
       /\ hostVersion # NoVersion
       /\ frame.seq = nextSeq /\ frame.version = hostVersion
  /\ hostVersion # NoVersion => hostVersion \in HostRange[1] .. HostRange[2]

\* The link holds one frame at a time, of the present sequence number, or a
\* HELLO before there is a session; while the host listens, it holds nothing
\* but its request or the answer to it.
LinkInv ==
  /\ \A f, g \in parked : f = g
  /\ \A f, g \in inbound : f = g
  /\ \A r, q \in outbound : r = q
  /\ parked # {} => inbound = {} /\ outbound = {}
  /\ inbound # {} => outbound = {}
  /\ phase = "body" => parked = {}
  /\ \A f \in parked \cup inbound :
       /\ f.req = Hello => f = HelloFrame /\ hostVersion = NoVersion
       /\ f.req # Hello => f.seq = nextSeq
       /\ f.req # Hello /\ hostVersion # NoVersion => f.version = hostVersion
       /\ phase = "receive" => f = frame
  /\ phase = "receive" =>
       \A r \in outbound :
         /\ r.seq = frame.seq
         /\ SameType(r.req, frame.req)
         /\ r.code = "OK" => SameRequest(r.req, frame.req)
         /\ r.code = "SEQUENCE_CONFLICT" =>
              \A e \in cache : e.seq = frame.seq /\ ~SameRequest(e.req, frame.req)

\* Every successful response under way is the cached one, and the cached
\* HELLO tells the version of the session.
CacheInv ==
  /\ \A d, e \in cache : d = e
  /\ \A e \in cache :
       /\ e.response.req = e.req /\ e.response.seq = e.seq
       /\ e.response.code = "OK"
       /\ picoVersion # NoVersion
       /\ e.req = Hello =>
            e.seq = 0 /\ e.response.selected = picoVersion /\ ran = <<>>
  /\ \A r \in outbound :
       /\ r.code = "OK" => \E e \in cache : r = e.response
       /\ r.code = "SEQUENCE_CONFLICT" => cache # {}

\* What ran under the present sequence number is still in the cache, unless
\* the Pico restarted; otherwise the cached number is age numbers behind.
HistoryInv ==
  /\ Len(ran) <= 1
  /\ ran # <<>> /\ picoVersion # NoVersion =>
       \E e \in cache : e.req # Hello /\ e.seq = nextSeq
  /\ hostVersion # NoVersion /\ InWindow =>
       \A e \in cache :
         \/ age = 0 /\ e.seq = nextSeq /\ ran = <<e.req>>
         \/ /\ age > 0 /\ ran = <<>>
            /\ nextSeq \in {e.seq + age, e.seq + age - SeqMod}
  /\ hostVersion # NoVersion /\ ~gaveUp =>
       /\ \A f \in parked \cup inbound : InCall /\ f = frame
       /\ ran # <<>> => InCall /\ SameRequest(ran[1], frame.req)

\* Without a restart of the Pico, the session the host knows is the
\* firmware's, and no request of it is refused for its version.
VersionInv ==
  hostVersion # NoVersion /\ ~restarted =>
    /\ picoVersion = hostVersion
    /\ \A r \in outbound : r.code # "UNSUPPORTED_VERSION"

\* A command that failed was the first under its sequence number.
RejectedInv == \A r \in outbound : r.code = "REJECTED" => ran = <<>>

\* The invariant that every action preserves.
IInv == /\ TypeOK /\ HostInv /\ LinkInv /\ CacheInv /\ HistoryInv /\ VersionInv
        /\ RejectedInv

(***************************************************************************)
(* The transaction layer implements RemoteCalls, as long as the sequence   *)
(* number of the cached request does not come round again.                 *)
(***************************************************************************)
CallInProgress ==
  {c \in {frame.req} : c # Hello /\ phase \in {"open", "body", "receive"}}

\* What the firmware may still be asked to do: the call in progress, which the
\* cartridge can send again, and the requests already on the link.
PendingCalls ==
  CallInProgress \cup ({f.req : f \in parked \cup inbound} \ {Hello})

Calls == INSTANCE RemoteCalls WITH
  Alike   <- {p \in Requests \X Requests : SameRequest(p[1], p[2])},
  calling <- CallInProgress,
  outcome <- result,
  pending <- PendingCalls,
  crashed <- restarted

\* Frames, retries, the cache and the sequence numbers together give calls
\* that are executed at most once and confirmed only when executed.
ImplementsCalls == Calls!Spec

\* The step leaves the number of the cached request in the past.
Windowed == cache' # {} => age' < SeqMod

WindowSpec == Init /\ [][Next /\ Windowed]_vars

(***************************************************************************)
(* The link is a half-duplex line, as Mailbox implements it.               *)
(***************************************************************************)
LinePhase == IF phase \in {"open", "body", "receive"} THEN phase ELSE "away"

Count(frames) == IF frames = {} THEN 0 ELSE 1

Line == INSTANCE HalfDuplex WITH
  phase    <- LinePhase,
  parked   <- Count(parked),
  inbound  <- Count(inbound),
  outbound <- Count(outbound)

\* Transactions ask nothing else of the line, and do nothing else on it.
KeepsToLine == Line!Spec
=============================================================================
