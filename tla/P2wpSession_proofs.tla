------------------------- MODULE P2wpSession_proofs -------------------------
(***************************************************************************)
(* Proofs about P2wpSession, for every set of requests, every size of the  *)
(* sequence number, every number of attempts and every version range.      *)
(***************************************************************************)
EXTENDS P2wpSession, TLAPS

\* The numbers behind the assumptions, in the form the provers use them.
LEMMA ConstantFacts ==
  /\ SeqMod \in Nat /\ SeqMod > 1
  /\ Attempts \in Nat /\ Attempts > 0
  /\ 0 \in Seqs /\ 1 \in Seqs /\ 0 \in Nat
  /\ 0 \in 0 .. Attempts /\ 0 \in 0 .. SeqMod /\ 1 \in 0 .. SeqMod
  /\ HelloFrame \in Frames
  /\ HostRange[1] \in Nat /\ HostRange[2] \in Nat
  /\ \A fw \in Firmwares : fw[1] \in Nat /\ fw[2] \in Nat
<1>1. SeqMod \in Nat /\ SeqMod > 1 /\ Attempts \in Nat /\ Attempts > 0
  BY NumbersAssumption
<1>2. /\ 0 \in Seqs /\ 1 \in Seqs /\ 0 \in Nat
      /\ 0 \in 0 .. Attempts /\ 0 \in 0 .. SeqMod /\ 1 \in 0 .. SeqMod
  BY <1>1 DEF Seqs
<1>3. HelloFrame \in Frames
  BY <1>2 DEF HelloFrame, Frames, Contents, Bootstrap
<1>4. /\ HostRange[1] \in Nat /\ HostRange[2] \in Nat
      /\ \A fw \in Firmwares : fw[1] \in Nat /\ fw[2] \in Nat
  BY RangesAssumption
<1>. QED BY <1>1, <1>2, <1>3, <1>4

\* p2wp_select_version finds a version both ends support whenever there is
\* one, the newest, and says NoVersion only when there is none.
LEMMA SelectVersionNewest ==
  ASSUME NEW h \in (Nat \ {0}) \X (Nat \ {0}), NEW p \in (Nat \ {0}) \X (Nat \ {0})
  PROVE  LET v == SelectVersion(h, p)
         IN  /\ v \in Nat
             /\ v # NoVersion => v \in (h[1] .. h[2]) \cap (p[1] .. p[2])
             /\ \A w \in (h[1] .. h[2]) \cap (p[1] .. p[2]) : w <= v
BY DEF SelectVersion, Larger, Smaller, NoVersion

LEMMA SuccessorType ==
  ASSUME NEW s \in Seqs PROVE Successor(s) \in Seqs
BY ConstantFacts DEF Seqs, Successor

LEMMA ResponseTypes ==
  ASSUME TypeOK, NEW f \in Frames
  PROVE  /\ Success(f) \in Responses
         /\ \A code \in Codes : Failure(f, code) \in Responses
         /\ Remember(f, Success(f)) \in SUBSET CacheEntries
<1>1. SelectVersion(HostRange, firmware) \in Nat
  BY SelectVersionNewest, RangesAssumption DEF TypeOK, PicoTypeOK
<1>2. Success(f) \in Responses
  BY <1>1 DEF TypeOK, PicoTypeOK, PicoTypeOK, Success, Responses, Frames, Codes, Bootstrap, NoVersion
<1>3. \A code \in Codes : Failure(f, code) \in Responses
  BY DEF Failure, Responses, Frames, NoVersion
<1>4. Remember(f, Success(f)) \in SUBSET CacheEntries
  BY <1>2 DEF Remember, CacheEntries, Frames
<1>. QED BY <1>2, <1>3, <1>4

LEMMA TypeInit == Init => TypeOK
<1> SUFFICES ASSUME Init PROVE TypeOK
  OBVIOUS
<1>1. HostTypeOK
  BY ConstantFacts DEF Init, HostTypeOK, Phases, Results, NoVersion
<1>2. LinkTypeOK /\ PicoTypeOK
  BY DEF Init, LinkTypeOK, PicoTypeOK, NoVersion
<1>3. ran \in Seq(Requests)
  BY DEF Init
<1>4. HistTypeOK
  BY <1>3, ConstantFacts DEF Init, HistTypeOK
<1>. QED BY <1>1, <1>2, <1>4 DEF TypeOK

\* A failed attempt leaves the cartridge's variables and the history typed.
LEMMA AttemptFailsType ==
  ASSUME TypeOK, AttemptFails
  PROVE  HostTypeOK' /\ HistTypeOK'
<1>1. attempt' \in 0 .. Attempts
  BY ConstantFacts DEF TypeOK, HostTypeOK, AttemptFails
<1>2. phase' \in Phases /\ result' \in Results
  BY DEF TypeOK, HostTypeOK, AttemptFails, Phases, Results
<1>3. gaveUp' \in BOOLEAN
  BY DEF TypeOK, HistTypeOK, AttemptFails
<1>. QED BY <1>1, <1>2, <1>3 DEF TypeOK, HostTypeOK, HistTypeOK, AttemptFails

LEMMA TypeNext == TypeOK /\ [Next]_vars => TypeOK'
<1> SUFFICES ASSUME TypeOK, [Next]_vars PROVE TypeOK'
  OBVIOUS
<1>0. HostTypeOK /\ LinkTypeOK /\ PicoTypeOK /\ HistTypeOK
  BY DEF TypeOK
<1>a. UNCHANGED hostVars => HostTypeOK'
  BY <1>0 DEF HostTypeOK, hostVars
<1>b. UNCHANGED linkVars => LinkTypeOK'
  BY <1>0 DEF LinkTypeOK, linkVars
<1>c. UNCHANGED picoVars => PicoTypeOK'
  BY <1>0 DEF PicoTypeOK, picoVars
<1>d. UNCHANGED histVars => HistTypeOK'
  BY <1>0 DEF HistTypeOK, histVars
<1>1. CASE StartHello
  <2>1. HostTypeOK'
    BY <1>0, <1>1, ConstantFacts DEF StartHello, Transact, HostTypeOK, Phases
  <2>. QED BY <1>1, <1>b, <1>c, <1>d, <2>1 DEF StartHello, TypeOK
<1>2. CASE StartRequest
  <2>1. PICK c \in Requests :
          Transact([version |-> hostVersion, seq |-> nextSeq, req |-> c])
    BY <1>2 DEF StartRequest
  <2>2. frame' \in Frames
    BY <1>0, <2>1 DEF Transact, Frames, Contents, HostTypeOK
  <2>3. HostTypeOK'
    BY <1>0, <1>2, <2>1, <2>2, ConstantFacts
    DEF StartRequest, Transact, HostTypeOK, Phases
  <2>. QED BY <1>2, <1>b, <1>c, <1>d, <2>3 DEF StartRequest, TypeOK
<1>3. CASE SendOpening
  <2>1. HostTypeOK' /\ LinkTypeOK'
    BY <1>0, <1>3 DEF SendOpening, HostTypeOK, LinkTypeOK, Phases
  <2>. QED BY <1>3, <1>c, <1>d, <2>1 DEF SendOpening, TypeOK
<1>4. CASE SendBody
  <2>1. HostTypeOK' /\ LinkTypeOK'
    BY <1>0, <1>4 DEF SendBody, HostTypeOK, LinkTypeOK, Phases
  <2>. QED BY <1>4, <1>c, <1>d, <2>1 DEF SendBody, TypeOK
<1>5. CASE SendTimesOut
  <2>1. LinkTypeOK'
    BY <1>0, <1>5 DEF SendTimesOut, HostTypeOK, LinkTypeOK
  <2>. QED BY <1>5, <1>c, <2>1, AttemptFailsType DEF SendTimesOut, TypeOK
<1>6. CASE ReceiveTimesOut
  BY <1>6, <1>b, <1>c, AttemptFailsType DEF ReceiveTimesOut, TypeOK
<1>7. CASE ReceiveBad
  <2>1. LinkTypeOK'
    BY <1>0, <1>7 DEF ReceiveBad, LinkTypeOK
  <2>. QED BY <1>7, <1>c, <2>1, AttemptFailsType DEF ReceiveBad, TypeOK
<1>8. CASE Receive
  <2>1. PICK r \in outbound : AcceptHello(r) \/ AcceptAnswer(r)
    BY <1>8 DEF Receive
  <2>2. r.selected \in Nat
    BY <1>0 DEF LinkTypeOK, Responses
  <2>3. LinkTypeOK'
    BY <1>0, <1>8 DEF Receive, LinkTypeOK
  <2>4. HostTypeOK' /\ HistTypeOK'
    <3>1. CASE AcceptHello(r) /\ phase' = "idle"
      BY <1>0, <1>8, <2>2, <3>1, ConstantFacts
      DEF Receive, AcceptHello, HostTypeOK, HistTypeOK, Phases, Results
    <3>2. CASE AcceptHello(r) /\ phase' # "idle"
      <4>1. phase' \in Phases /\ result' \in Results
        BY <3>2 DEF AcceptHello, Phases, Results
      <4>2. UNCHANGED <<frame, attempt, expired, hostVersion, nextSeq>>
        BY <1>8, <3>2 DEF Receive, AcceptHello
      <4>3. UNCHANGED histVars
        BY <3>2 DEF AcceptHello
      <4>. QED BY <1>0, <1>d, <4>1, <4>2, <4>3 DEF HostTypeOK
    <3>3. CASE AcceptAnswer(r)
      <4>1. nextSeq' \in Seqs
        BY <1>0, <3>3, SuccessorType DEF AcceptAnswer, HostTypeOK
      <4>2. age' \in 0 .. SeqMod
        BY <1>0, <3>3, ConstantFacts DEF AcceptAnswer, HistTypeOK, Smaller
      <4>3. phase' \in Phases /\ result' \in Results
        BY <3>3 DEF AcceptAnswer, Phases, Results
      <4>4. ran' \in Seq(Requests)
        BY <3>3 DEF AcceptAnswer
      <4>. QED BY <1>0, <1>8, <3>3, <4>1, <4>2, <4>3, <4>4
               DEF Receive, AcceptAnswer, HostTypeOK, HistTypeOK
    <3>. QED BY <2>1, <3>1, <3>2, <3>3
  <2>. QED BY <1>8, <1>c, <2>3, <2>4 DEF Receive, TypeOK
<1>9. CASE Expire
  <2>1. HostTypeOK'
    BY <1>0, <1>9 DEF Expire, HostTypeOK
  <2>. QED BY <1>9, <1>b, <1>c, <1>d, <2>1 DEF Expire, TypeOK
<1>10. CASE HostRestart
  <2>1. HostTypeOK'
    BY <1>0, <1>10, ConstantFacts
    DEF HostRestart, HostTypeOK, Phases, Results, NoVersion
  <2>2. LinkTypeOK'
    BY <1>0, <1>10 DEF HostRestart, LinkTypeOK, HostTypeOK
  <2>. QED BY <1>10, <1>c, <1>d, <2>1, <2>2 DEF HostRestart, TypeOK
<1>11. CASE PicoHandle
  <2>1. PICK f \in inbound :
          /\ inbound' = {}
          /\ \/ Resend(f)
             \/ Refuse(f, "UNSUPPORTED_VERSION")
             \/ Refuse(f, "SEQUENCE_CONFLICT")
             \/ Greet(f)
             \/ Execute(f)
    BY <1>11 DEF PicoHandle
  <2>2. f \in Frames
    BY <1>0 DEF LinkTypeOK
  <2> DEFINE Typed ==
        /\ outbound' \in SUBSET Responses
        /\ cache' \in SUBSET CacheEntries
        /\ picoVersion' \in Nat
        /\ ran' \in Seq(Requests) /\ gaveUp' \in BOOLEAN /\ age' \in 0 .. SeqMod
  <2>3. Typed
    <3>1. CASE Resend(f)
      BY <1>0, <3>1 DEF Resend, PicoTypeOK, HistTypeOK, CacheEntries
    <3>2. ASSUME NEW code \in Codes, Refuse(f, code) PROVE Typed
      BY <1>0, <2>2, <3>2, ResponseTypes DEF Refuse, PicoTypeOK, HistTypeOK
    <3>3. CASE Greet(f)
      <4>1. CASE Refuse(f, "UNSUPPORTED_VERSION")
        BY <3>2, <4>1 DEF Codes
      <4>2. CASE ~Refuse(f, "UNSUPPORTED_VERSION")
        <5>1. picoVersion' \in Nat
          BY <1>0, <3>3, <4>2, SelectVersionNewest, RangesAssumption
          DEF Greet, PicoTypeOK
        <5>2. outbound' = {Success(f)} /\ cache' = Remember(f, Success(f))
          BY <3>3, <4>2 DEF Greet
        <5>3. ran' = <<>> /\ gaveUp' = FALSE /\ age' = 0
          BY <3>3, <4>2 DEF Greet
        <5>4. ran' \in Seq(Requests)
          BY <5>3
        <5>. QED BY <2>2, <5>1, <5>2, <5>3, <5>4, ResponseTypes, ConstantFacts
      <4>. QED BY <4>1, <4>2
    <3>4. CASE Execute(f)
      <4>1. CASE Refuse(f, "REJECTED")
        BY <3>2, <4>1 DEF Codes
      <4>2. CASE ~Refuse(f, "REJECTED")
        <5>1. outbound' = {Success(f)} /\ cache' = Remember(f, Success(f))
          BY <3>4, <4>2 DEF Execute
        <5>2. f.req \in Requests /\ ran' = Append(ran, f.req)
          BY <2>2, <3>4, <4>2 DEF Execute, Frames, Contents
        <5>3. ran' \in Seq(Requests)
          BY <1>0, <5>2 DEF HistTypeOK
        <5>4. age' = 0 /\ picoVersion' = picoVersion /\ gaveUp' = gaveUp
          BY <3>4, <4>2 DEF Execute
        <5>. QED BY <1>0, <2>2, <5>1, <5>3, <5>4, ResponseTypes, ConstantFacts
                 DEF PicoTypeOK, HistTypeOK
      <4>. QED BY <4>1, <4>2
    <3>. QED BY <2>1, <3>1, <3>2, <3>3, <3>4 DEF Codes
  <2>4. LinkTypeOK' /\ PicoTypeOK' /\ HistTypeOK'
    BY <1>0, <1>11, <2>1, <2>3
    DEF PicoHandle, LinkTypeOK, PicoTypeOK, HistTypeOK
  <2>. QED BY <1>11, <1>a, <2>4 DEF PicoHandle, TypeOK
<1>12. CASE PicoAbortsResponse
  <2>1. LinkTypeOK'
    BY <1>0, <1>12 DEF PicoAbortsResponse, LinkTypeOK
  <2>. QED BY <1>12, <1>a, <1>c, <1>d, <2>1 DEF PicoAbortsResponse, TypeOK
<1>13. CASE PicoDropsPartial
  <2>1. LinkTypeOK'
    BY <1>0, <1>13 DEF PicoDropsPartial, LinkTypeOK
  <2>. QED BY <1>13, <1>a, <1>c, <1>d, <2>1 DEF PicoDropsPartial, TypeOK
<1>14. CASE RadioFails
  <2>1. PicoTypeOK'
    BY <1>0, <1>14 DEF RadioFails, PicoTypeOK
  <2>. QED BY <1>14, <1>a, <1>b, <1>d, <2>1 DEF RadioFails, TypeOK
<1>15. CASE PicoRestart
  <2>1. LinkTypeOK' /\ PicoTypeOK' /\ HistTypeOK'
    BY <1>0, <1>15
    DEF PicoRestart, LinkTypeOK, PicoTypeOK, HistTypeOK, NoVersion
  <2>. QED BY <1>15, <1>a, <2>1 DEF PicoRestart, TypeOK
<1>16. CASE UNCHANGED vars
  BY <1>16, <1>a, <1>b, <1>c, <1>d DEF vars, TypeOK
<1>. QED
  BY <1>1, <1>2, <1>3, <1>4, <1>5, <1>6, <1>7, <1>8, <1>9, <1>10, <1>11,
     <1>12, <1>13, <1>14, <1>15, <1>16
  DEF Next, HostStep, PicoStep

\* Every variable keeps its type whatever the requests, the size of the
\* sequence number, the number of attempts and the versions.
THEOREM TypeCorrect == Spec => []TypeOK
BY TypeInit, TypeNext, PTL DEF Spec

-----------------------------------------------------------------------------
(***************************************************************************)
(* The inductive invariant, and the safety properties that follow from it. *)
(* One lemma per part of the invariant, one step per action that can       *)
(* disturb that part.  At the end, the refinement of RemoteCalls.          *)
(***************************************************************************)
LEMMA InvInit == Init => IInv
<1> SUFFICES ASSUME Init PROVE IInv
  OBVIOUS
<1>1. TypeOK
  BY TypeInit
<1>2. HostInv
  BY DEF Init, HostInv, InCall
<1>3. LinkInv /\ CacheInv
  BY DEF Init, LinkInv, CacheInv
<1>4. ran = <<>> /\ cache = {} /\ parked = {} /\ inbound = {}
  BY DEF Init
<1>5. Len(ran) = 0
  BY <1>4
<1>6. HistoryInv
  BY <1>4, <1>5 DEF HistoryInv
<1>7. VersionInv
  BY DEF Init, VersionInv
<1>8. RejectedInv
  BY DEF Init, RejectedInv
<1>. QED BY <1>1, <1>2, <1>3, <1>6, <1>7, <1>8 DEF IInv

LEMMA HostInvNext == IInv /\ [Next]_vars => HostInv'
<1> SUFFICES ASSUME TypeOK, HostInv, [Next]_vars PROVE HostInv'
  BY DEF IInv
<1>a. HostTypeOK /\ LinkTypeOK
  BY DEF TypeOK
<1>b. HostRange[1] > 0
  BY RangesAssumption
<1>1. CASE StartHello
  BY <1>1 DEF StartHello, Transact, HostInv, InCall, HelloFrame
<1>2. CASE StartRequest
  BY <1>2, RequestsAssumption DEF StartRequest, Transact, HostInv, InCall
<1>3. CASE SendOpening \/ SendBody \/ Expire
  BY <1>3 DEF SendOpening, SendBody, Expire, HostInv, InCall
<1>4. CASE SendTimesOut \/ ReceiveTimesOut \/ ReceiveBad
  <2>1. InCall /\ AttemptFails
    BY <1>4 DEF SendTimesOut, ReceiveTimesOut, ReceiveBad, InCall
  <2>. QED BY <2>1 DEF AttemptFails, HostInv, InCall
<1>5. CASE Receive
  <2>1. PICK r \in outbound : AcceptHello(r) \/ AcceptAnswer(r)
    BY <1>5 DEF Receive
  <2>2. CASE AcceptHello(r)
    <3>1. CASE phase' = "idle"
      <4>1. hostVersion' \in HostRange[1] .. HostRange[2]
        BY <2>2, <3>1 DEF AcceptHello, Usable
      <4>. QED BY <1>b, <3>1, <4>1, ConstantFacts DEF HostInv, InCall, NoVersion
    <3>2. CASE phase' # "idle"
      BY <1>5, <2>2, <3>2 DEF Receive, AcceptHello, HostInv, InCall
    <3>. QED BY <3>1, <3>2
  <2>3. CASE AcceptAnswer(r)
    BY <1>5, <2>3 DEF Receive, AcceptAnswer, HostInv, InCall
  <2>. QED BY <2>1, <2>2, <2>3
<1>6. CASE HostRestart
  BY <1>6 DEF HostRestart, HostInv, InCall
<1>7. CASE UNCHANGED hostVars
  BY <1>7 DEF hostVars, HostInv, InCall
<1>. QED
  BY <1>1, <1>2, <1>3, <1>4, <1>5, <1>6, <1>7
  DEF Next, HostStep, PicoStep, PicoHandle, PicoAbortsResponse,
      PicoDropsPartial, RadioFails, PicoRestart, vars

\* A frame the host sends carries its present sequence number and version, or
\* is its HELLO.
LEMMA FrameSent ==
  ASSUME HostInv, InCall
  PROVE  /\ frame.req = Hello => frame = HelloFrame /\ hostVersion = NoVersion
         /\ frame.req # Hello =>
              frame.seq = nextSeq /\ frame.version = hostVersion
BY DEF HostInv

\* How the firmware answers frame f, as far as the host can tell.
LEMMA AnswerFacts ==
  ASSUME TypeOK, CacheInv, PicoHandle
  PROVE  /\ outbound = {} /\ inbound' = {} /\ parked' = parked
         /\ UNCHANGED hostVars
         /\ \E f \in inbound : \E r : 
              /\ outbound' = {r}
              /\ r.seq = f.seq
              /\ SameType(r.req, f.req)
              /\ r.code = "OK" => /\ SameRequest(r.req, f.req)
                                  /\ \E e \in cache' : r = e.response
              /\ r.code = "SEQUENCE_CONFLICT" =>
                   /\ cache' = cache /\ cache # {}
                   /\ \A e \in cache : e.seq = f.seq /\ ~SameRequest(e.req, f.req)
              /\ r.code = "UNSUPPORTED_VERSION" =>
                   ~VersionKnown(f) \/ f.req = Hello
<1>1. outbound = {} /\ UNCHANGED hostVars /\ parked' = parked
  BY DEF PicoHandle
<1>2. PICK f \in inbound :
        /\ inbound' = {}
        /\ \/ Resend(f)
           \/ /\ ~Duplicate(f) /\ ~VersionKnown(f)
              /\ Refuse(f, "UNSUPPORTED_VERSION")
           \/ /\ ~Duplicate(f) /\ VersionKnown(f) /\ Conflicting(f)
              /\ Refuse(f, "SEQUENCE_CONFLICT")
           \/ Greet(f)
           \/ Execute(f)
  BY DEF PicoHandle
<1>3. f \in Frames /\ f.req \in Contents
  BY DEF TypeOK, LinkTypeOK, Frames
<1>4. SameType(f.req, f.req) /\ SameRequest(f.req, f.req)
  BY <1>3 DEF SameType, SameRequest, Contents
<1> DEFINE Told(r) ==
      /\ outbound' = {r}
      /\ r.seq = f.seq
      /\ SameType(r.req, f.req)
      /\ r.code = "OK" => /\ SameRequest(r.req, f.req)
                          /\ \E e \in cache' : r = e.response
      /\ r.code = "SEQUENCE_CONFLICT" =>
           /\ cache' = cache /\ cache # {}
           /\ \A e \in cache : e.seq = f.seq /\ ~SameRequest(e.req, f.req)
      /\ r.code = "UNSUPPORTED_VERSION" => ~VersionKnown(f) \/ f.req = Hello
<1>5. CASE Resend(f)
  <2>1. PICK e \in cache : e.seq = f.seq /\ SameRequest(e.req, f.req)
    BY <1>5 DEF Resend, Duplicate
  <2>2. cache = {e} /\ cache' = cache
    BY <1>5, <2>1 DEF CacheInv, Resend
  <2>3. outbound' = {e.response}
    BY <1>5, <2>2 DEF Resend
  <2>4. /\ e.response.req = e.req /\ e.response.seq = e.seq
        /\ e.response.code = "OK"
    BY DEF CacheInv
  <2>5. SameType(e.req, f.req)
    BY <2>1 DEF SameType, SameRequest
  <2>6. Told(e.response)
    BY <2>1, <2>2, <2>3, <2>4, <2>5
  <2>. QED BY <1>1, <1>2, <2>6
<1>6. CASE ~Duplicate(f) /\ ~VersionKnown(f) /\ Refuse(f, "UNSUPPORTED_VERSION")
  <2>1. Told(Failure(f, "UNSUPPORTED_VERSION"))
    BY <1>4, <1>6 DEF Refuse, Failure
  <2>. QED BY <1>1, <1>2, <2>1
<1>7. CASE ~Duplicate(f) /\ Conflicting(f) /\ Refuse(f, "SEQUENCE_CONFLICT")
  <2>1. PICK e \in cache : e.seq = f.seq
    BY <1>7 DEF Conflicting
  <2>2. cache = {e} /\ cache' = cache
    BY <1>7 DEF CacheInv, Refuse
  <2>3. ~SameRequest(e.req, f.req)
    BY <1>7, <2>1 DEF Duplicate
  <2>4. Told(Failure(f, "SEQUENCE_CONFLICT"))
    BY <1>4, <1>7, <2>1, <2>2, <2>3 DEF Refuse, Failure
  <2>. QED BY <1>1, <1>2, <2>4
<1>8. CASE Greet(f) /\ Refuse(f, "UNSUPPORTED_VERSION")
  <2>1. f.req = Hello
    BY <1>8 DEF Greet
  <2>2. Told(Failure(f, "UNSUPPORTED_VERSION"))
    BY <1>4, <1>8, <2>1 DEF Refuse, Failure
  <2>. QED BY <1>1, <1>2, <2>2
<1>9. CASE Execute(f) /\ Refuse(f, "REJECTED")
  <2>1. Told(Failure(f, "REJECTED"))
    BY <1>4, <1>9 DEF Refuse, Failure
  <2>. QED BY <1>1, <1>2, <2>1
<1>10. CASE outbound' = {Success(f)} /\ cache' = Remember(f, Success(f))
  <2>1. /\ Success(f).req = f.req /\ Success(f).seq = f.seq
        /\ Success(f).code = "OK"
    BY DEF Success
  <2>2. \E e \in cache' : Success(f) = e.response
    BY <1>10 DEF Remember
  <2>3. Told(Success(f))
    BY <1>4, <1>10, <2>1, <2>2
  <2>. QED BY <1>1, <1>2, <2>3
<1>. QED
  BY <1>2, <1>5, <1>6, <1>7, <1>8, <1>9, <1>10 DEF Greet, Execute

LEMMA LinkInvNext == IInv /\ [Next]_vars => LinkInv'
<1> SUFFICES ASSUME TypeOK, HostInv, LinkInv, CacheInv, [Next]_vars
             PROVE  LinkInv'
  BY DEF IInv
<1>1. CASE StartHello \/ StartRequest \/ Expire
  BY <1>1 DEF StartHello, StartRequest, Transact, Expire, LinkInv, linkVars,
     picoVars
<1>2. CASE SendOpening
  BY <1>2 DEF SendOpening, LinkInv
<1>3. CASE SendBody
  <2>1. InCall /\ parked = {} /\ inbound = {} /\ outbound = {}
    BY <1>3 DEF SendBody, PicoReads, LinkInv, InCall
  <2>2. parked' \cup inbound' \subseteq {frame} /\ outbound' = {}
    BY <1>3, <2>1 DEF SendBody
  <2>3. parked' # {} => inbound' = {}
    BY <1>3, <2>1 DEF SendBody
  <2>4. /\ phase' = "receive"
        /\ UNCHANGED <<frame, hostVersion, nextSeq>>
    BY <1>3 DEF SendBody
  <2>. QED BY <2>1, <2>2, <2>3, <2>4, FrameSent DEF LinkInv
<1>4. CASE SendTimesOut
  <2>1. InCall /\ phase' \notin {"body", "receive"}
    BY <1>4 DEF SendTimesOut, AttemptFails, InCall
  <2>2. UNCHANGED <<frame, hostVersion, nextSeq, inbound, outbound>>
    BY <1>4 DEF SendTimesOut, AttemptFails
  <2>3. CASE parked' = parked
    BY <2>1, <2>2, <2>3 DEF LinkInv
  <2>4. CASE parked' = {frame} /\ PicoReads
    BY <2>1, <2>2, <2>4, FrameSent DEF LinkInv, PicoReads
  <2>. QED BY <1>4, <2>3, <2>4 DEF SendTimesOut
<1>5. CASE ReceiveTimesOut \/ ReceiveBad
  <2>1. phase' \notin {"body", "receive"}
    BY <1>5 DEF ReceiveTimesOut, ReceiveBad, AttemptFails
  <2>2. UNCHANGED <<hostVersion, nextSeq, parked, inbound>>
    BY <1>5 DEF ReceiveTimesOut, ReceiveBad, AttemptFails, linkVars
  <2>3. outbound' \subseteq outbound
    BY <1>5 DEF ReceiveTimesOut, ReceiveBad, linkVars
  <2>. QED BY <2>1, <2>2, <2>3 DEF LinkInv
<1>6. CASE Receive
  <2>1. parked = {} /\ inbound = {}
    BY <1>6 DEF Receive, LinkInv
  <2>2. parked' = {} /\ inbound' = {} /\ outbound' = {}
    BY <1>6, <2>1 DEF Receive
  <2>. QED BY <2>2 DEF LinkInv
<1>7. CASE HostRestart
  <2>1. phase' = "boot" /\ hostVersion' = NoVersion
    BY <1>7 DEF HostRestart
  <2>2. UNCHANGED <<nextSeq, inbound, outbound>>
    BY <1>7 DEF HostRestart
  <2>3. CASE parked' = parked
    BY <2>1, <2>2, <2>3 DEF LinkInv
  <2>4. CASE phase = "body" /\ parked' = {frame} /\ PicoReads
    <3>1. InCall
      BY <2>4 DEF InCall
    <3>. QED BY <2>1, <2>2, <2>4, <3>1, FrameSent DEF LinkInv, PicoReads
  <2>. QED BY <1>7, <2>3, <2>4 DEF HostRestart
<1>8. CASE PicoHandle
  <2> DEFINE Told(f, r) ==
          /\ outbound' = {r}
          /\ r.seq = f.seq
          /\ SameType(r.req, f.req)
          /\ r.code = "OK" => SameRequest(r.req, f.req)
          /\ r.code = "SEQUENCE_CONFLICT" =>
               /\ cache' = cache
               /\ \A e \in cache : e.seq = f.seq /\ ~SameRequest(e.req, f.req)
  <2>f. PICK f \in inbound : \E r : Told(f, r)
    BY <1>8, AnswerFacts
  <2>1. PICK r : Told(f, r)
    BY <2>f
  <2>2. /\ outbound = {} /\ inbound' = {} /\ parked' = parked
        /\ UNCHANGED hostVars
    BY <1>8, AnswerFacts
  <2>3. phase = "receive" => f = frame
    BY DEF LinkInv
  <2>4. parked' = {}
    BY <2>1, <2>2 DEF LinkInv
  <2>. QED BY <2>1, <2>2, <2>3, <2>4 DEF LinkInv, hostVars
<1>9. CASE PicoAbortsResponse
  BY <1>9 DEF PicoAbortsResponse, hostVars, LinkInv
<1>10. CASE PicoDropsPartial
  BY <1>10 DEF PicoDropsPartial, hostVars, picoVars, LinkInv
<1>11. CASE RadioFails
  BY <1>11 DEF RadioFails, hostVars, linkVars, LinkInv
<1>12. CASE PicoRestart
  BY <1>12 DEF PicoRestart, LinkInv
<1>13. CASE UNCHANGED vars
  BY <1>13 DEF vars, hostVars, linkVars, picoVars, LinkInv
<1>. QED
  BY <1>1, <1>2, <1>3, <1>4, <1>5, <1>6, <1>7, <1>8, <1>9, <1>10, <1>11,
     <1>12, <1>13
  DEF Next, HostStep, PicoStep

\* The actions that touch neither the cache nor what is said of it.
LEMMA CacheUntouched ==
  ASSUME CacheInv, UNCHANGED <<cache, picoVersion>>,
         ran' = ran \/ ran' = <<>>, outbound' \subseteq outbound
  PROVE  CacheInv'
BY DEF CacheInv

LEMMA CacheInvNext == IInv /\ [Next]_vars => CacheInv'
<1> SUFFICES ASSUME TypeOK, LinkInv, CacheInv, [Next]_vars
             PROVE  CacheInv'
  BY DEF IInv
<1>1. CASE StartHello \/ StartRequest \/ Expire \/ SendOpening \/ SendBody
           \/ HostRestart
  BY <1>1, CacheUntouched
  DEF StartHello, StartRequest, Expire, SendOpening, SendBody, HostRestart,
      linkVars, picoVars, histVars
<1>2. CASE SendTimesOut \/ ReceiveTimesOut \/ ReceiveBad
  BY <1>2, CacheUntouched
  DEF SendTimesOut, ReceiveTimesOut, ReceiveBad, AttemptFails, linkVars, picoVars
<1>3. CASE Receive
  BY <1>3, CacheUntouched
  DEF Receive, AcceptHello, AcceptAnswer, picoVars, histVars
<1>4. CASE PicoHandle
  <2>1. PICK f \in inbound :
          /\ inbound' = {}
          /\ \/ Resend(f)
             \/ ~VersionKnown(f) /\ Refuse(f, "UNSUPPORTED_VERSION")
             \/ Conflicting(f) /\ Refuse(f, "SEQUENCE_CONFLICT")
             \/ Greet(f)
             \/ Execute(f)
    BY <1>4 DEF PicoHandle
  <2>2. \A code \in Codes : /\ Failure(f, code).code = code
                            /\ Failure(f, code).seq = f.seq
    BY DEF Failure
  <2>3. /\ Success(f).req = f.req /\ Success(f).seq = f.seq
        /\ Success(f).code = "OK"
    BY DEF Success
  <2>4. CASE Resend(f)
    BY <2>4 DEF Resend, CacheInv
  <2>5. ASSUME NEW code \in Codes \ {"OK", "SEQUENCE_CONFLICT"},
               Refuse(f, code)
        PROVE  CacheInv'
    BY <2>2, <2>5 DEF Refuse, CacheInv
  <2>6. CASE Conflicting(f) /\ Refuse(f, "SEQUENCE_CONFLICT")
    <3>1. Failure(f, "SEQUENCE_CONFLICT").code # "OK"
      BY <2>2 DEF Codes
    <3>. QED BY <2>6, <3>1 DEF Refuse, Conflicting, CacheInv
  <2>7. CASE Greet(f) /\ ~Refuse(f, "UNSUPPORTED_VERSION")
    <3>1. /\ f.req = Hello
          /\ outbound' = {Success(f)}
          /\ picoVersion' = SelectVersion(HostRange, firmware)
          /\ picoVersion' # NoVersion
          /\ cache' = Remember(f, Success(f))
          /\ ran' = <<>>
      BY <2>7 DEF Greet
    <3>2. f.seq = 0 /\ Success(f).selected = picoVersion'
      BY <3>1 DEF LinkInv, HelloFrame, Success
    <3>. QED BY <2>3, <3>1, <3>2 DEF Remember, CacheInv
  <2>8. CASE Execute(f) /\ ~Refuse(f, "REJECTED")
    <3>1. /\ f.req # Hello
          /\ outbound' = {Success(f)}
          /\ picoVersion' = picoVersion /\ picoVersion # NoVersion
          /\ cache' = Remember(f, Success(f))
      BY <2>8 DEF Execute, VersionKnown
    <3>. QED BY <2>3, <3>1 DEF Remember, CacheInv
  <2>. QED BY <2>1, <2>4, <2>5, <2>6, <2>7, <2>8 DEF Codes
<1>5. CASE PicoAbortsResponse \/ PicoDropsPartial \/ RadioFails
  BY <1>5, CacheUntouched
  DEF PicoAbortsResponse, PicoDropsPartial, RadioFails, picoVars, histVars, linkVars
<1>6. CASE PicoRestart
  BY <1>6 DEF PicoRestart, CacheInv
<1>7. CASE UNCHANGED vars
  BY <1>7, CacheUntouched DEF vars, picoVars, histVars, linkVars
<1>. QED
  BY <1>1, <1>2, <1>3, <1>4, <1>5, <1>6, <1>7 DEF Next, HostStep, PicoStep
\* The sequence arithmetic: one more number is one more behind, until the
\* numbers come round.
LEMMA SuccessorBehind ==
  ASSUME NEW s \in Seqs, NEW n \in Seqs, NEW a \in 0 .. SeqMod, a + 1 < SeqMod,
         n \in {s + a, s + a - SeqMod}
  PROVE  Successor(n) \in {s + (a + 1), s + (a + 1) - SeqMod}
BY ConstantFacts DEF Seqs, Successor

\* The steps that leave the cache, the session and the history alone and only
\* move frames of the call in progress.
LEMMA HistoryUntouched ==
  ASSUME HistoryInv,
         UNCHANGED <<ran, age, cache, picoVersion, hostVersion, nextSeq>>,
         hostVersion # NoVersion /\ ~gaveUp' =>
           /\ ~gaveUp
           /\ \A f \in parked' \cup inbound' : InCall' /\ f = frame'
           /\ ran # <<>> => InCall' /\ SameRequest(ran[1], frame'.req)
  PROVE  HistoryInv'
BY DEF HistoryInv, InWindow

LEMMA HistoryInvNext == IInv /\ [Next]_vars => HistoryInv'
<1> SUFFICES ASSUME TypeOK, HostInv, LinkInv, CacheInv, HistoryInv, [Next]_vars
             PROVE  HistoryInv'
  BY DEF IInv
<1>a. /\ ran \in Seq(Requests) /\ age \in 0 .. SeqMod /\ nextSeq \in Seqs
      /\ \A e \in cache : e.seq \in Seqs
      /\ gaveUp \in BOOLEAN
  BY DEF TypeOK, HostTypeOK, PicoTypeOK, HistTypeOK, CacheEntries
<1>1. CASE StartHello
  <2>1. hostVersion = NoVersion
    BY <1>1 DEF StartHello, HostInv
  <2>2. /\ UNCHANGED <<ran, age, cache, picoVersion, hostVersion, nextSeq>>
    BY <1>1 DEF StartHello, picoVars, histVars
  <2>. QED BY <2>1, <2>2, HistoryUntouched
<1>2. CASE StartRequest
  <2>1. hostVersion # NoVersion /\ ~InCall
    BY <1>2 DEF StartRequest, HostInv, InCall
  <2>2. /\ UNCHANGED <<ran, age, cache, picoVersion, hostVersion, nextSeq>>
        /\ UNCHANGED <<gaveUp, parked, inbound>>
    BY <1>2 DEF StartRequest, linkVars, picoVars, histVars
  <2>3. ~gaveUp => parked \cup inbound = {} /\ ran = <<>>
    BY <2>1 DEF HistoryInv
  <2>. QED BY <2>2, <2>3, HistoryUntouched
<1>3. CASE SendOpening
  <2>1. /\ UNCHANGED <<ran, age, cache, picoVersion, hostVersion, nextSeq>>
        /\ UNCHANGED <<gaveUp, frame>> /\ InCall /\ InCall'
        /\ parked' \cup inbound' = parked \cup inbound
    BY <1>3 DEF SendOpening, picoVars, histVars, InCall
  <2>. QED BY <2>1, HistoryUntouched DEF HistoryInv
<1>4. CASE SendBody
  <2>1. /\ UNCHANGED <<ran, age, cache, picoVersion, hostVersion, nextSeq>>
        /\ UNCHANGED <<gaveUp, frame>> /\ InCall /\ InCall'
        /\ parked' \cup inbound' \subseteq parked \cup inbound \cup {frame}
    BY <1>4 DEF SendBody, picoVars, histVars, InCall
  <2>. QED BY <2>1, HistoryUntouched DEF HistoryInv
<1>5. CASE SendTimesOut \/ ReceiveTimesOut \/ ReceiveBad
  <2>1. /\ UNCHANGED <<ran, age, cache, picoVersion, hostVersion, nextSeq>>
        /\ frame' = frame /\ InCall
    BY <1>5 DEF SendTimesOut, ReceiveTimesOut, ReceiveBad, AttemptFails,
       picoVars, InCall
  <2>2. parked' \cup inbound' \subseteq parked \cup inbound \cup {frame}
    BY <1>5 DEF SendTimesOut, ReceiveTimesOut, ReceiveBad, linkVars
  <2>3. AttemptFails
    BY <1>5 DEF SendTimesOut, ReceiveTimesOut, ReceiveBad
  <2>4. CASE frame.req = Hello
    BY <2>1, <2>4, FrameSent, HistoryUntouched
  <2>5. CASE frame.req # Hello
    <3>1. ~gaveUp' => ~gaveUp /\ phase' = "open"
      BY <2>3, <2>5 DEF AttemptFails
    <3>2. ~gaveUp' => InCall'
      BY <3>1 DEF InCall
    <3>. QED BY <2>1, <2>2, <3>1, <3>2, HistoryUntouched DEF HistoryInv
  <2>. QED BY <2>4, <2>5
<1>6. CASE Receive
  <2>1. PICK r \in outbound : Matches(r) /\ (AcceptHello(r) \/ AcceptAnswer(r))
    BY <1>6 DEF Receive
  <2>2. parked \cup inbound = {} /\ parked' \cup inbound' = {}
    BY <1>6 DEF Receive, LinkInv
  <2>3. UNCHANGED <<cache, picoVersion, frame>>
    BY <1>6 DEF Receive, picoVars
  <2>4. InCall
    BY <1>6 DEF Receive, InCall
  <2>5. CASE AcceptHello(r) /\ phase' = "idle"
    <3>1. /\ frame.req = Hello /\ r.code = "OK"
          /\ age' = 1 /\ nextSeq' = 1 /\ ran' = ran
      BY <2>5 DEF AcceptHello
    <3>2. r.req = Hello
      BY <2>1, <3>1, RequestsAssumption DEF Matches, SameType
    <3>3. \A e \in cache : e.req = Hello /\ e.seq = 0 /\ ran = <<>>
      BY <3>1, <3>2 DEF CacheInv
    <3>4. ran = <<>>
      BY <3>1, <3>3 DEF CacheInv
    <3>5. Len(ran) = 0
      BY <3>4
    <3>. QED BY <2>2, <2>3, <3>1, <3>3, <3>4, <3>5, ConstantFacts
             DEF HistoryInv, InWindow
  <2>6. CASE AcceptHello(r) /\ phase' # "idle"
    <3>1. /\ UNCHANGED <<ran, age, hostVersion, nextSeq>>
          /\ hostVersion = NoVersion
      BY <2>4, <2>6, FrameSent DEF AcceptHello, histVars
    <3>. QED BY <2>3, <3>1, HistoryUntouched
  <2>7. CASE AcceptAnswer(r)
    <3>1. /\ ran' = <<>> /\ hostVersion' = hostVersion
          /\ nextSeq' = Successor(nextSeq) /\ age' = Smaller(age + 1, SeqMod)
      BY <2>7 DEF AcceptAnswer
    <3>2. hostVersion # NoVersion
      BY <2>4, <2>7 DEF AcceptAnswer, HostInv
    <3>3. Len(ran') = 0
      BY <3>1
    <3>4. ASSUME NEW e \in cache, age' < SeqMod
          PROVE  age' > 0 /\ nextSeq' \in {e.seq + age', e.seq + age' - SeqMod}
      <4>1. age' = age + 1 /\ age + 1 < SeqMod /\ age < SeqMod
        BY <1>a, <3>1, <3>4, ConstantFacts DEF Smaller
      <4>2. nextSeq \in {e.seq + age, e.seq + age - SeqMod}
        <5>1. CASE age = 0 /\ e.seq = nextSeq
          BY <1>a, <5>1, ConstantFacts DEF Seqs
        <5>2. CASE ~(age = 0 /\ e.seq = nextSeq)
          BY <3>2, <4>1, <5>2 DEF HistoryInv, InWindow
        <5>. QED BY <5>1, <5>2
      <4>3. age' > 0
        BY <1>a, <4>1
      <4>4. Successor(nextSeq) \in {e.seq + (age + 1), e.seq + (age + 1) - SeqMod}
        BY <1>a, <4>1, <4>2, SuccessorBehind
      <4>. QED BY <3>1, <4>1, <4>3, <4>4
    <3>. QED BY <2>2, <2>3, <3>1, <3>3, <3>4 DEF HistoryInv, InWindow
  <2>. QED BY <2>1, <2>5, <2>6, <2>7
<1>7. CASE Expire
  BY <1>7, HistoryUntouched
  DEF Expire, linkVars, picoVars, histVars, HistoryInv, InCall
<1>8. CASE HostRestart
  <2>1. Len(ran) <= 1 /\ hostVersion' = NoVersion
    BY <1>8 DEF HostRestart, HistoryInv
  <2>2. UNCHANGED <<ran, cache, picoVersion, nextSeq>>
    BY <1>8 DEF HostRestart, picoVars, histVars
  <2>. QED BY <2>1, <2>2 DEF HistoryInv
<1>9. CASE PicoHandle
  <2>1. PICK f \in inbound :
          /\ inbound' = {}
          /\ \/ Resend(f)
             \/ Refuse(f, "UNSUPPORTED_VERSION")
             \/ Refuse(f, "SEQUENCE_CONFLICT")
             \/ Greet(f)
             \/ Execute(f)
    BY <1>9 DEF PicoHandle
  <2>2. UNCHANGED <<phase, frame, hostVersion, nextSeq, parked>>
    BY <1>9 DEF PicoHandle, hostVars
  <2>3. CASE UNCHANGED <<picoVersion, cache, ran, gaveUp, age>>
    <3>1. InCall' = InCall
      BY <2>2 DEF InCall
    <3>. QED BY <2>1, <2>2, <2>3, <3>1, HistoryUntouched DEF HistoryInv
  <2>4. CASE Greet(f) /\ ~Refuse(f, "UNSUPPORTED_VERSION")
    <3>1. f.req = Hello /\ ran' = <<>>
      BY <2>4 DEF Greet
    <3>2. hostVersion' = NoVersion
      BY <2>2, <3>1 DEF LinkInv
    <3>3. Len(ran') = 0
      BY <3>1
    <3>. QED BY <3>1, <3>2, <3>3 DEF HistoryInv
  <2>5. CASE Execute(f) /\ ~Refuse(f, "REJECTED")
    <3>1. /\ f.req # Hello /\ ~Duplicate(f) /\ VersionKnown(f)
          /\ ~Conflicting(f)
          /\ cache' = Remember(f, Success(f)) /\ ran' = Append(ran, f.req)
          /\ age' = 0 /\ gaveUp' = gaveUp
      BY <2>5 DEF Execute
    <3>2. f.seq = nextSeq
      BY <3>1 DEF LinkInv
    <3>a. picoVersion # NoVersion
      BY <3>1 DEF VersionKnown
    <3>b. ~\E e \in cache : e.seq = nextSeq
      BY <3>1, <3>2 DEF Conflicting
    <3>3. ran = <<>>
      BY <3>a, <3>b DEF HistoryInv
    <3>4. ran' = <<f.req>> /\ Len(ran') = 1 /\ ran'[1] = f.req
      BY <3>1, <3>3
    <3>5. \A e \in cache' : e.seq = nextSeq /\ e.req = f.req
      BY <3>1, <3>2 DEF Remember
    <3>6. \E e \in cache' : e.req # Hello /\ e.seq = nextSeq
      BY <3>1, <3>2 DEF Remember
    <3>7. SameRequest(f.req, f.req)
      BY <3>1 DEF TypeOK, LinkTypeOK, Frames, Contents, SameRequest
    <3>8. hostVersion # NoVersion /\ ~gaveUp =>
            parked = {} /\ inbound' = {} /\ InCall' /\ f = frame
      BY <2>1, <2>2 DEF HistoryInv, LinkInv, InCall
    <3>9. hostVersion' # NoVersion /\ ~gaveUp' =>
            /\ \A g \in parked' \cup inbound' : InCall' /\ g = frame'
            /\ ran' # <<>> => InCall' /\ SameRequest(ran'[1], frame'.req)
      BY <2>2, <3>1, <3>4, <3>7, <3>8
    <3>. QED BY <2>2, <3>1, <3>4, <3>5, <3>6, <3>9 DEF HistoryInv
  <2>. QED BY <2>1, <2>3, <2>4, <2>5 DEF Resend, Refuse, Greet, Execute
<1>10. CASE PicoAbortsResponse \/ PicoDropsPartial \/ RadioFails
  <2>1. /\ UNCHANGED <<phase, frame, hostVersion, nextSeq, inbound>>
        /\ UNCHANGED <<ran, age, cache, picoVersion, gaveUp>>
        /\ parked' \subseteq parked
    BY <1>10 DEF PicoAbortsResponse, PicoDropsPartial, RadioFails, hostVars,
       linkVars, picoVars, histVars
  <2>2. InCall' = InCall
    BY <2>1 DEF InCall
  <2>. QED BY <2>1, <2>2, HistoryUntouched DEF HistoryInv
<1>11. CASE PicoRestart
  <2>1. /\ cache' = {} /\ picoVersion' = NoVersion /\ parked' \cup inbound' = {}
        /\ UNCHANGED <<phase, frame, hostVersion, nextSeq, ran, gaveUp>>
    BY <1>11 DEF PicoRestart, hostVars
  <2>2. InCall' = InCall
    BY <2>1 DEF InCall
  <2>. QED BY <2>1, <2>2 DEF HistoryInv
<1>12. CASE UNCHANGED vars
  BY <1>12, HistoryUntouched
  DEF vars, hostVars, linkVars, picoVars, histVars, HistoryInv, InCall
<1>. QED
  BY <1>1, <1>2, <1>3, <1>4, <1>5, <1>6, <1>7, <1>8, <1>9, <1>10, <1>11, <1>12
  DEF Next, HostStep, PicoStep

LEMMA VersionInvNext == IInv /\ [Next]_vars => VersionInv'
<1> SUFFICES ASSUME TypeOK, HostInv, LinkInv, CacheInv, VersionInv, [Next]_vars
             PROVE  VersionInv'
  BY DEF IInv
<1>1. CASE /\ UNCHANGED <<hostVersion, restarted, picoVersion>>
           /\ outbound' \subseteq outbound
  BY <1>1 DEF VersionInv
<1>2. CASE Receive
  <2>1. PICK r \in outbound : Matches(r) /\ (AcceptHello(r) \/ AcceptAnswer(r))
    BY <1>2 DEF Receive
  <2>2. outbound' = {} /\ picoVersion' = picoVersion
    BY <1>2 DEF Receive, picoVars
  <2>3. CASE AcceptHello(r) /\ phase' = "idle"
    <3>1. r.code = "OK" /\ frame.req = Hello /\ hostVersion' = r.selected
      BY <2>3 DEF AcceptHello
    <3>2. r.req = Hello
      BY <2>1, <3>1, RequestsAssumption DEF Matches, SameType
    <3>3. r.selected = picoVersion
      BY <3>1, <3>2 DEF CacheInv
    <3>. QED BY <2>2, <3>1, <3>3 DEF VersionInv
  <2>4. CASE UNCHANGED <<hostVersion, restarted>>
    BY <2>2, <2>4 DEF VersionInv
  <2>. QED BY <2>1, <2>3, <2>4 DEF AcceptHello, AcceptAnswer, histVars
<1>3. CASE PicoHandle
  <2>1. UNCHANGED <<hostVersion, restarted>>
    BY <1>3 DEF PicoHandle, hostVars
  <2>2. PICK f \in inbound :
          \/ Resend(f)
          \/ ~VersionKnown(f) /\ Refuse(f, "UNSUPPORTED_VERSION")
          \/ Refuse(f, "SEQUENCE_CONFLICT")
          \/ Greet(f)
          \/ Execute(f)
    BY <1>3 DEF PicoHandle
  <2> SUFFICES ASSUME hostVersion' # NoVersion, ~restarted' PROVE VersionInv'
    BY DEF VersionInv
  <2>0. hostVersion # NoVersion /\ ~restarted
    BY <2>1
  <2>3. f.req # Hello /\ f.version = hostVersion
    BY <2>0 DEF LinkInv
  <2>4. VersionKnown(f)
    BY <2>0, <2>3 DEF VersionKnown, VersionInv
  <2>5. \A code \in Codes : Failure(f, code).code = code
    BY DEF Failure
  <2>6. Success(f).code = "OK"
    BY DEF Success
  <2>7. CASE Resend(f)
    BY <2>0, <2>1, <2>7 DEF Resend, CacheInv, VersionInv
  <2>8. CASE Refuse(f, "SEQUENCE_CONFLICT")
    BY <2>0, <2>1, <2>5, <2>8 DEF Refuse, VersionInv, Codes
  <2>9. CASE Execute(f)
    <3>1. /\ picoVersion' = picoVersion
          /\ outbound' = {Success(f)} \/ outbound' = {Failure(f, "REJECTED")}
      BY <2>9 DEF Execute, Refuse
    <3>. QED BY <2>0, <2>1, <2>5, <2>6, <3>1 DEF VersionInv, Codes
  <2>. QED BY <2>2, <2>3, <2>4, <2>7, <2>8, <2>9 DEF Greet
<1>4. CASE HostRestart
  BY <1>4 DEF HostRestart, VersionInv
<1>5. CASE PicoRestart
  <2>1. restarted'
    BY <1>5 DEF PicoRestart
  <2>. QED BY <2>1 DEF VersionInv
<1>. QED
  BY <1>1, <1>2, <1>3, <1>4, <1>5
  DEF Next, HostStep, PicoStep, StartHello, StartRequest, Expire, SendOpening,
      SendBody, SendTimesOut, ReceiveTimesOut, ReceiveBad, AttemptFails,
      PicoAbortsResponse, PicoDropsPartial, RadioFails,
      vars, hostVars, linkVars, picoVars, histVars
\* The firmware rejects a request under a number that nothing ran under.
LEMMA RejectedInvNext == IInv /\ [Next]_vars => RejectedInv'
<1> SUFFICES ASSUME IInv, RejectedInv, [Next]_vars PROVE RejectedInv'
  BY DEF IInv
<1>1. CASE PicoHandle
  <2>1. PICK f \in inbound :
          \/ Resend(f)
          \/ Refuse(f, "UNSUPPORTED_VERSION")
          \/ Refuse(f, "SEQUENCE_CONFLICT")
          \/ Greet(f)
          \/ Execute(f)
    BY <1>1 DEF PicoHandle
  <2>2. Success(f).code = "OK" /\ \A code \in Codes : Failure(f, code).code = code
    BY DEF Success, Failure
  <2>3. CASE Resend(f)
    BY <2>3 DEF IInv, CacheInv, Resend, RejectedInv
  <2>4. CASE \/ Refuse(f, "UNSUPPORTED_VERSION") \/ Refuse(f, "SEQUENCE_CONFLICT")
             \/ outbound' = {Success(f)}
    BY <2>2, <2>4 DEF Refuse, RejectedInv, Codes
  <2>5. CASE Execute(f) /\ Refuse(f, "REJECTED")
    <3>1. f.req # Hello /\ picoVersion # NoVersion /\ ~Conflicting(f) /\ ran' = ran
      BY <2>5 DEF Execute, VersionKnown, Refuse
    <3>2. ~\E e \in cache : e.seq = nextSeq
      BY <3>1 DEF IInv, LinkInv, Conflicting
    <3>3. ran = <<>>
      BY <3>1, <3>2 DEF IInv, HistoryInv
    <3>. QED BY <3>1, <3>3 DEF RejectedInv
  <2>. QED BY <2>1, <2>3, <2>4, <2>5 DEF Greet, Execute
<1>2. CASE ~PicoHandle
  <2>1. outbound' \subseteq outbound /\ (ran' = ran \/ outbound' = {} \/ ran' = <<>>)
    BY <1>2 
    DEF Next, HostStep, PicoStep, StartHello, StartRequest, Expire, SendOpening,
        SendBody, SendTimesOut, ReceiveTimesOut, ReceiveBad, Receive, AttemptFails,
        HostRestart, PicoAbortsResponse, PicoDropsPartial, RadioFails, PicoRestart,
        vars, hostVars, linkVars, picoVars, histVars
  <2>. QED BY <2>1 DEF RejectedInv
<1>. QED BY <1>1, <1>2

LEMMA InvNext == IInv /\ [Next]_vars => IInv'
BY TypeNext, HostInvNext, LinkInvNext, CacheInvNext, HistoryInvNext,
   VersionInvNext, RejectedInvNext
DEF IInv

\* The invariant behind the other theorems: the session state of both ends,
\* the frames under way, the cache and the history fit together.
THEOREM Invariant == Spec => []IInv
BY InvInit, InvNext, PTL DEF Spec

\* p2wp_request's retries, the firmware's cache and its conflict check let no
\* sequence number be used up by two executions, whatever is lost, late or
\* restarted.
THEOREM AtMostOnceHolds == Spec => []AtMostOnce
<1>1. IInv => AtMostOnce
  BY DEF IInv, HistoryInv, AtMostOnce
<1>. QED BY <1>1, Invariant, PTL

\* A response that reaches receive_frame belongs to the request just sent.
THEOREM HearsOnlyItsAnswerHolds == Spec => []HearsOnlyItsAnswer
<1>1. IInv => HearsOnlyItsAnswer
  BY DEF IInv, LinkInv, HearsOnlyItsAnswer
<1>. QED BY <1>1, Invariant, PTL

\* Both ends keep the version that HELLO settled until one of them restarts.
THEOREM SessionsAgreeHolds == Spec => []SessionsAgree
<1>1. IInv => SessionsAgree
  BY DEF IInv, HostInv, VersionInv, SessionsAgree
<1>. QED BY <1>1, Invariant, PTL

\* P2WP_OK from p2wp_request means one execution of this very request, and
\* its result in the response.
THEOREM AnswerIsOwnHolds == Spec => AnswerIsOwn
<1> DEFINE A == AnswersWith("OK") /\ InWindow =>
                  /\ Len(ran) = 1
                  /\ SameRequest(ran[1], frame.req)
                  /\ \A r \in outbound : r.req = ran[1]
<1>1. IInv /\ [Next]_vars => [A]_vars
  <2> SUFFICES ASSUME IInv, AnswersWith("OK"), InWindow PROVE A
    OBVIOUS
  <2>1. PICK r \in outbound : r.code = "OK"
    BY DEF AnswersWith
  <2>2. phase = "receive" /\ frame.req # Hello
    BY DEF AnswersWith
  <2>3. hostVersion # NoVersion /\ frame.seq = nextSeq
    BY <2>2 DEF IInv, HostInv, InCall
  <2>4. PICK e \in cache : r = e.response
    BY <2>1 DEF IInv, CacheInv
  <2>5. /\ \A q \in outbound : q = r
        /\ r.seq = nextSeq /\ SameRequest(r.req, frame.req)
    BY <2>1, <2>2, <2>3 DEF IInv, LinkInv
  <2>6. e.seq = nextSeq /\ e.req = r.req
    BY <2>4, <2>5 DEF IInv, CacheInv
  <2>7. age < SeqMod /\ age \in Nat /\ nextSeq \in Nat /\ SeqMod \in Nat
    BY ConstantFacts DEF IInv, TypeOK, HostTypeOK, HistTypeOK, Seqs, InWindow
  <2>8. \/ ran = <<e.req>>
        \/ age > 0 /\ nextSeq \in {e.seq + age, e.seq + age - SeqMod}
    BY <2>3 DEF IInv, HistoryInv
  <2>9. ran = <<e.req>>
    BY <2>6, <2>7, <2>8
  <2>10. Len(ran) = 1 /\ ran[1] = e.req
    BY <2>9
  <2>. QED BY <2>5, <2>6, <2>10
<1>. QED BY <1>1, Invariant, PTL DEF Spec, AnswerIsOwn

\* SEQUENCE_CONFLICT is heard only after a transaction was given up whose
\* request had been executed under the same number.
THEOREM ConflictAfterGiveUpHolds == Spec => ConflictAfterGiveUp
<1> DEFINE A == AnswersWith("SEQUENCE_CONFLICT") /\ InWindow =>
                  gaveUp /\ Len(ran) = 1 /\ ~SameRequest(ran[1], frame.req)
<1>1. IInv /\ [Next]_vars => [A]_vars
  <2> SUFFICES ASSUME IInv, AnswersWith("SEQUENCE_CONFLICT"), InWindow PROVE A
    OBVIOUS
  <2>1. PICK r \in outbound : r.code = "SEQUENCE_CONFLICT"
    BY DEF AnswersWith
  <2>2. phase = "receive" /\ frame.req # Hello
    BY DEF AnswersWith
  <2>3. hostVersion # NoVersion /\ frame.seq = nextSeq
    BY <2>2 DEF IInv, HostInv, InCall
  <2>4. PICK e \in cache : e.seq = nextSeq /\ ~SameRequest(e.req, frame.req)
    BY <2>1, <2>2, <2>3 DEF IInv, LinkInv, CacheInv
  <2>5. age < SeqMod /\ age \in Nat /\ nextSeq \in Nat /\ SeqMod \in Nat
    BY ConstantFacts DEF IInv, TypeOK, HostTypeOK, HistTypeOK, Seqs, InWindow
  <2>6. \/ ran = <<e.req>>
        \/ age > 0 /\ nextSeq \in {e.seq + age, e.seq + age - SeqMod}
    BY <2>3 DEF IInv, HistoryInv
  <2>7. ran = <<e.req>>
    BY <2>4, <2>5, <2>6
  <2>8. Len(ran) = 1 /\ ran[1] = e.req /\ ran # <<>>
    BY <2>7
  <2>9. gaveUp
    BY <2>3, <2>4, <2>8 DEF IInv, HistoryInv
  <2>. QED BY <2>4, <2>8, <2>9
<1>. QED BY <1>1, Invariant, PTL DEF Spec, ConflictAfterGiveUp

\* Only a restart of the Pico makes it refuse the version of its session.
THEOREM RefusalAfterRestartHolds == Spec => RefusalAfterRestart
<1> DEFINE A == AnswersWith("UNSUPPORTED_VERSION") => restarted
<1>1. IInv /\ [Next]_vars => [A]_vars
  <2> SUFFICES ASSUME IInv, AnswersWith("UNSUPPORTED_VERSION") PROVE restarted
    OBVIOUS
  <2>1. hostVersion # NoVersion
    BY DEF AnswersWith, IInv, HostInv, InCall
  <2>. QED BY <2>1 DEF AnswersWith, IInv, VersionInv
<1>. QED BY <1>1, Invariant, PTL DEF Spec, RefusalAfterRestart

-----------------------------------------------------------------------------
(***************************************************************************)
(* The transaction layer implements RemoteCalls.                           *)
(***************************************************************************)

\* The refinement mapping, as facts about one state.
LEMMA MappingFacts ==
  ASSUME IInv
  PROVE  /\ InCall /\ frame.req # Hello => CallInProgress = {frame.req}
         /\ ~InCall \/ frame.req = Hello => CallInProgress = {}
         /\ frame.req # Hello => frame.req \in Requests
         /\ \A f \in parked \cup inbound : f.req # Hello => f.req \in Requests
  BY DEF IInv, TypeOK, HostTypeOK, LinkTypeOK, Frames, Contents, CallInProgress, InCall

\* A step that leaves the program in or out of its call.
LEMMA SameCall ==
  ASSUME InCall' = InCall, frame' = frame \/ ~InCall
  PROVE  CallInProgress' = CallInProgress
  BY DEF CallInProgress, InCall

\* A failed attempt leaves the call to be sent again, or gives it up.
LEMMA AttemptRefines ==
  ASSUME IInv, InCall, AttemptFails, inbound' = inbound,
         \/ parked' = parked
         \/ parked' = {frame} /\ parked = {} /\ inbound = {}
  PROVE  [Calls!Next]_(Calls!vars)
<1>1. frame' = frame /\ ran' = ran /\ restarted' = restarted
  BY DEF AttemptFails
<1>2. PendingCalls' \subseteq PendingCalls \cup CallInProgress'
  BY <1>1, MappingFacts DEF PendingCalls, CallInProgress, InCall
<1>3. CASE phase' = "open" /\ result' = result
  <2>1. InCall' /\ CallInProgress' = CallInProgress
    BY <1>1, <1>3, SameCall DEF InCall
  <2>2. PendingCalls' = PendingCalls
    BY <1>1, <2>1, MappingFacts DEF PendingCalls
  <2>. QED BY <1>1, <1>3, <2>1, <2>2 DEF Calls!vars, PendingCalls
<1>4. CASE phase' \in {"halted", "idle"} /\ result' \in {"TIMEOUT", "INVALID"}
  <2>1. CallInProgress' = {}
    BY <1>4 DEF CallInProgress
  <2>2. PendingCalls' \subseteq PendingCalls
    BY <1>1, <2>1, MappingFacts DEF PendingCalls
  <2>. QED BY <1>1, <1>4, <2>1, <2>2 DEF Calls!Next, Calls!GiveUp, PendingCalls
<1>. QED BY <1>3, <1>4 DEF AttemptFails

\* transact's steps: they move the frame of the call in progress and no more,
\* or end the call.
LEMMA HostRefines ==
  ASSUME IInv,
         \/ StartHello \/ StartRequest \/ Expire \/ SendOpening \/ SendBody
         \/ SendTimesOut \/ ReceiveTimesOut \/ ReceiveBad \/ HostRestart
  PROVE  [Calls!Next]_(Calls!vars)
<1>1. CASE StartHello
  <2>1. CallInProgress = {} /\ CallInProgress' = {}
    BY <1>1 DEF StartHello, Transact, CallInProgress, HelloFrame
  <2>. QED BY <1>1, <2>1 DEF StartHello, linkVars, histVars, Calls!vars, PendingCalls
<1>2. CASE StartRequest
  <2>1. PICK c \in Requests :
          Transact([version |-> hostVersion, seq |-> nextSeq, req |-> c])
    BY <1>2 DEF StartRequest
  <2>2. CallInProgress = {} /\ CallInProgress' = {c}
    BY <1>2, <2>1, RequestsAssumption DEF StartRequest, Transact, CallInProgress
  <2>3. PendingCalls' = PendingCalls \cup {c}
    BY <1>2, <2>2 DEF StartRequest, linkVars, PendingCalls
  <2>. QED BY <1>2, <2>2, <2>3
           DEF StartRequest, histVars, Calls!Next, Calls!Call, PendingCalls
<1>3. CASE Expire
  <2>1. CallInProgress' = CallInProgress
    BY <1>3, SameCall DEF Expire, InCall
  <2>. QED BY <1>3, <2>1 DEF Expire, linkVars, histVars, Calls!vars, PendingCalls
<1>4. CASE SendOpening
  <2>1. CallInProgress' = CallInProgress
    BY <1>4, SameCall DEF SendOpening, InCall
  <2>2. parked' \cup inbound' = parked \cup inbound
    BY <1>4 DEF SendOpening
  <2>3. PendingCalls' = PendingCalls
    BY <2>1, <2>2 DEF PendingCalls
  <2>. QED BY <1>4, <2>1, <2>3 DEF SendOpening, histVars, Calls!vars, PendingCalls
<1>5. CASE SendBody
  <2>1. InCall /\ CallInProgress' = CallInProgress
    BY <1>5, SameCall DEF SendBody, InCall
  <2>2. parked \cup inbound = {} /\ parked' \cup inbound' \subseteq {frame}
    BY <1>5 DEF SendBody, PicoReads, IInv, LinkInv
  <2>3. PendingCalls = CallInProgress
    BY <2>2 DEF PendingCalls
  <2>4. PendingCalls' = CallInProgress
    BY <2>1, <2>2, MappingFacts DEF PendingCalls
  <2>. QED BY <1>5, <2>1, <2>3, <2>4 DEF SendBody, histVars, Calls!vars, PendingCalls
<1>6. CASE SendTimesOut
  <2>1. phase = "body" /\ PicoReads => parked = {} /\ inbound = {}
    BY DEF PicoReads, IInv, LinkInv
  <2>. QED BY <1>6, <2>1, AttemptRefines DEF SendTimesOut, InCall
<1>7. CASE ReceiveTimesOut \/ ReceiveBad
  BY <1>7, AttemptRefines DEF ReceiveTimesOut, ReceiveBad, linkVars, InCall
<1>8. CASE HostRestart
  <2>1. CallInProgress' = {}
    BY <1>8 DEF HostRestart, CallInProgress
  <2>2. parked' = parked \/ (InCall /\ parked' = {frame})
    BY <1>8 DEF HostRestart, InCall
  <2>3. PendingCalls' \subseteq PendingCalls
    BY <1>8, <2>1, <2>2, MappingFacts DEF HostRestart, PendingCalls
  <2>. QED BY <1>8, <2>1, <2>3
           DEF HostRestart, histVars, Calls!Next, Calls!GiveUp, PendingCalls
<1>. QED BY <1>1, <1>2, <1>3, <1>4, <1>5, <1>6, <1>7, <1>8

\* An accepted response: a session, none, or the answer to the call.
LEMMA ReceiveRefines ==
  ASSUME IInv, Receive, Windowed
  PROVE  [Calls!Next]_(Calls!vars)
<1>1. PICK r \in outbound : Matches(r) /\ (AcceptHello(r) \/ AcceptAnswer(r))
  BY DEF Receive
<1>2. InCall /\ parked = {} /\ inbound = {} /\ parked' = {} /\ inbound' = {}
  BY DEF Receive, InCall, IInv, LinkInv
<1>3. PendingCalls = CallInProgress /\ PendingCalls' = CallInProgress'
  BY <1>2 DEF PendingCalls
<1>4. CallInProgress' = {}
  BY <1>1 DEF AcceptHello, AcceptAnswer, CallInProgress
<1>5. CASE AcceptHello(r)
  <2>1. CallInProgress = {}
    BY <1>5 DEF AcceptHello, CallInProgress
  <2>2. CASE phase' = "idle"
    <3>1. r.code = "OK" /\ r.req = Hello
      BY <1>1, <1>5, <2>2, RequestsAssumption DEF AcceptHello, Matches, SameType
    <3>2. ran = <<>>
      BY <3>1 DEF IInv, CacheInv
    <3>. QED BY <1>3, <1>4, <1>5, <2>1, <2>2, <3>2
             DEF AcceptHello, Calls!Next, Calls!SessionKnown, PendingCalls
  <2>3. CASE phase' # "idle"
    BY <1>3, <1>4, <1>5, <2>1, <2>3
    DEF AcceptHello, histVars, Calls!Next, Calls!NoSession, PendingCalls
  <2>. QED BY <2>2, <2>3
<1>6. CASE AcceptAnswer(r)
  <2>1. frame.req # Hello /\ frame.req \in Requests /\ CallInProgress = {frame.req}
    BY <1>2, <1>6, MappingFacts DEF AcceptAnswer
  <2>2. hostVersion # NoVersion /\ frame.seq = nextSeq
    BY <1>2, <2>1 DEF IInv, HostInv
  <2>3. /\ CallInProgress' = {} /\ PendingCalls' = {} /\ ran' = <<>>
        /\ restarted' = restarted
        /\ result' = IF r.code = "OK" THEN "OK" ELSE "REMOTE_ERROR"
    BY <1>3, <1>4, <1>6 DEF AcceptAnswer
  <2>4. ASSUME NEW e \in cache, e.seq = nextSeq PROVE ran = <<e.req>>
    <3>1. cache' # {} /\ age' = Smaller(age + 1, SeqMod)
      BY <1>6, <2>4 DEF Receive, picoVars, AcceptAnswer
    <3>2. age \in Nat /\ nextSeq \in Nat /\ SeqMod \in Nat /\ age <= SeqMod
      BY ConstantFacts DEF IInv, TypeOK, HostTypeOK, HistTypeOK, Seqs
    <3>3. age < SeqMod
      BY <3>1, <3>2 DEF Windowed, Smaller
    <3>. QED BY <2>2, <2>4, <3>2, <3>3 DEF IInv, HistoryInv, InWindow
  <2>5. CASE r.code = "OK"
    <3>1. PICK e \in cache : r = e.response
      BY <2>5 DEF IInv, CacheInv
    <3>2. e.seq = nextSeq /\ SameRequest(e.req, frame.req)
      BY <2>2, <2>5, <3>1 DEF Receive, IInv, LinkInv, CacheInv
    <3>3. ran = <<e.req>>
      BY <2>4, <3>2
    <3>4. Len(ran) = 1 /\ ran[1] = e.req
      BY <3>3
    <3>5. e.req \in Requests
      BY <2>1, <3>2 DEF SameRequest
    <3>6. <<ran[1], frame.req>> \in {p \in Requests \X Requests : SameRequest(p[1], p[2])}
      BY <2>1, <3>2, <3>4, <3>5
    <3>. QED BY <2>1, <2>3, <2>5, <3>4, <3>6
             DEF Calls!Next, Calls!Done, Calls!Answered, PendingCalls
  <2>6. CASE r.code # "OK"
    <3>1. ran = <<>> \/ ~SameRequest(ran[1], frame.req) \/ restarted
      <4>1. r.code \in Codes
        BY DEF IInv, TypeOK, LinkTypeOK, Responses
      <4>2. CASE r.code = "UNSUPPORTED_VERSION"
        BY <2>2, <4>2 DEF IInv, VersionInv, TypeOK, HistTypeOK
      <4>3. CASE r.code = "REJECTED"
        BY <4>3 DEF IInv, RejectedInv
      <4>4. CASE r.code = "SEQUENCE_CONFLICT"
        <5>1. PICK e \in cache : e.seq = nextSeq /\ ~SameRequest(e.req, frame.req)
          BY <2>2, <4>4 DEF Receive, IInv, LinkInv, CacheInv
        <5>2. ran = <<e.req>>
          BY <2>4, <5>1
        <5>3. ran[1] = e.req
          BY <5>2
        <5>. QED BY <5>1, <5>3
      <4>. QED BY <2>6, <4>1, <4>2, <4>3, <4>4 DEF Codes
    <3>2. \/ ran = <<>> \/ restarted
          \/ <<ran[1], frame.req>> \notin {p \in Requests \X Requests : SameRequest(p[1], p[2])}
      BY <3>1
    <3>. QED BY <2>1, <2>3, <2>6, <3>2
             DEF Calls!Next, Calls!Refused, Calls!Answered, PendingCalls
  <2>. QED BY <2>5, <2>6
<1>. QED BY <1>1, <1>5, <1>6

\* The firmware: a request is executed, refused or answered from the cache, a
\* session starts, a frame is dropped, or everything is forgotten.
LEMMA PicoRefines ==
  ASSUME IInv,
         \/ PicoHandle \/ PicoAbortsResponse \/ PicoDropsPartial
         \/ RadioFails \/ PicoRestart
  PROVE  [Calls!Next]_(Calls!vars)
<1>1. CallInProgress' = CallInProgress
  BY SameCall
  DEF InCall, PicoHandle, PicoAbortsResponse, PicoDropsPartial, RadioFails,
      PicoRestart, hostVars
<1>2. result' = result
  BY DEF PicoHandle, PicoAbortsResponse, PicoDropsPartial, RadioFails,
         PicoRestart, hostVars
<1>3. CASE PicoHandle
  <2>1. PICK f \in inbound :
          /\ inbound' = {}
          /\ \/ Resend(f)
             \/ Refuse(f, "UNSUPPORTED_VERSION")
             \/ Refuse(f, "SEQUENCE_CONFLICT")
             \/ Greet(f)
             \/ Execute(f)
    BY <1>3 DEF PicoHandle
  <2>2. parked' = parked /\ restarted' = restarted
    BY <1>3 DEF PicoHandle
  <2>3. PendingCalls' \subseteq PendingCalls /\ CallInProgress \subseteq PendingCalls'
    BY <1>1, <2>1, <2>2 DEF PendingCalls
  <2>4. CASE ran' = ran
    BY <1>1, <1>2, <2>2, <2>3, <2>4 DEF Calls!Next, Calls!Lose, PendingCalls
  <2>5. CASE Greet(f) /\ ran' = <<>>
    <3>1. hostVersion = NoVersion
      BY <2>5 DEF Greet, IInv, LinkInv
    <3>2. CallInProgress = {}
      BY <3>1, MappingFacts DEF IInv, HostInv
    <3>3. PendingCalls' = {}
      BY <1>1, <2>1, <2>2, <3>2 DEF PendingCalls, IInv, LinkInv
    <3>. QED BY <1>1, <1>2, <2>2, <2>5, <3>2, <3>3
             DEF Calls!Next, Calls!NewSession, PendingCalls
  <2>6. CASE Execute(f) /\ ran' = Append(ran, f.req)
    <3>1. f.req # Hello /\ picoVersion # NoVersion /\ ~Conflicting(f)
      BY <2>6 DEF Execute, VersionKnown
    <3>2. ~\E e \in cache : e.seq = nextSeq
      BY <3>1 DEF IInv, LinkInv, Conflicting
    <3>3. ran = <<>>
      BY <3>1, <3>2 DEF IInv, HistoryInv
    <3>4. ran' = <<f.req>>
      BY <2>6, <3>3
    <3>5. f.req \in Requests /\ f.req \in PendingCalls
      BY <3>1, MappingFacts DEF PendingCalls
    <3>. QED BY <1>1, <1>2, <2>2, <2>3, <3>3, <3>4, <3>5
             DEF Calls!Next, Calls!Execute, PendingCalls
  <2>. QED BY <2>1, <2>4, <2>5, <2>6 DEF Resend, Refuse, Greet, Execute
<1>4. CASE PicoAbortsResponse \/ RadioFails
  <2>1. UNCHANGED <<parked, inbound, ran, restarted>>
    BY <1>4 DEF PicoAbortsResponse, RadioFails, linkVars, histVars
  <2>. QED BY <1>1, <1>2, <2>1 DEF Calls!vars, PendingCalls
<1>5. CASE PicoDropsPartial
  <2>1. UNCHANGED <<inbound, ran, restarted>> /\ parked' = {}
    BY <1>5 DEF PicoDropsPartial, histVars
  <2>2. PendingCalls' \subseteq PendingCalls /\ CallInProgress \subseteq PendingCalls'
    BY <1>1, <2>1 DEF PendingCalls
  <2>. QED BY <1>1, <1>2, <2>1, <2>2 DEF Calls!Next, Calls!Lose, PendingCalls
<1>6. CASE PicoRestart
  <2>1. parked' = {} /\ inbound' = {} /\ ran' = ran /\ restarted' = TRUE
    BY <1>6 DEF PicoRestart
  <2>2. PendingCalls' = CallInProgress
    BY <1>1, <2>1 DEF PendingCalls
  <2>. QED BY <1>1, <1>2, <2>1, <2>2 DEF Calls!Next, Calls!Crash, PendingCalls
<1>. QED BY <1>3, <1>4, <1>5, <1>6

\* Power-on: no call, nothing pending, nothing executed.
LEMMA InitRefines == Init => Calls!Init
<1> SUFFICES ASSUME Init PROVE Calls!Init
  OBVIOUS
<1>1. CallInProgress = {} /\ parked \cup inbound = {}
  BY DEF Init, CallInProgress
<1>. QED BY <1>1 DEF Init, Calls!Init, PendingCalls

\* Every step of the two programs is a step of RemoteCalls or changes none of
\* its variables.
LEMMA StepRefines ==
  ASSUME IInv, [Next /\ Windowed]_vars
  PROVE  [Calls!Next]_(Calls!vars)
<1>1. CASE UNCHANGED vars
  <2>1. UNCHANGED <<phase, frame, result, parked, inbound, ran, restarted>>
    BY <1>1 DEF vars, hostVars, linkVars, histVars
  <2>2. CallInProgress' = CallInProgress
    BY <2>1, SameCall DEF InCall
  <2>. QED BY <2>1, <2>2 DEF Calls!vars, PendingCalls
<1>2. CASE Next /\ Windowed
  BY <1>2, HostRefines, ReceiveRefines, PicoRefines DEF Next, HostStep, PicoStep
<1>. QED BY <1>1, <1>2

\* p2wp_request with its retries, the firmware's cache and the sequence numbers
\* together are calls executed at most once and confirmed only when executed, as
\* long as the number of the cached request does not come round again.
THEOREM Refinement == WindowSpec => ImplementsCalls
<1>1. [Next /\ Windowed]_vars => [Next]_vars
  OBVIOUS
<1>2. IInv /\ [Next /\ Windowed]_vars => [Calls!Next]_(Calls!vars)
  BY StepRefines
<1>. QED BY <1>1, <1>2, InvInit, InvNext, InitRefines, PTL
         DEF WindowSpec, Windowed, ImplementsCalls, Calls!Spec

-----------------------------------------------------------------------------
(***************************************************************************)
(* The half-duplex line.                                                   *)
(***************************************************************************)
LEMMA CountFacts ==
  /\ Count({}) = 0
  /\ \A s : Count(s) \in {0, 1} /\ (s # {} => Count(s) = 1)
BY DEF Count

\* A failed attempt or a reset of the cartridge leaves the line, with at most the
\* frame it was about to close.
LEMMA LeaveLine ==
  ASSUME InCall, phase' \in {"boot", "open", "idle", "halted"}, UNCHANGED <<inbound, outbound>>,
         \/ UNCHANGED parked
         \/ phase = "body" /\ PicoReads /\ parked' = {frame}
  PROVE  Line!Leave
<1>1. LinePhase # "away" /\ LinePhase' \in {"open", "away"}
  BY DEF LinePhase, InCall
<1>2. CASE UNCHANGED parked
  BY <1>1, <1>2 DEF Line!Leave
<1>3. CASE phase = "body" /\ PicoReads /\ parked' = {frame}
  <2>1. LinePhase = "body" /\ Count(inbound) = 0 /\ Count(outbound) = 0 /\ Count(parked') = 1
    BY <1>3, CountFacts DEF LinePhase, PicoReads
  <2>. QED BY <1>1, <2>1 DEF Line!Leave, Line!PicoReads
<1>. QED BY <1>2, <1>3

LEMMA LineNext ==
  ASSUME IInv, Next
  PROVE  [Line!Next]_(Line!lineVars)
<1> DEFINE Same == UNCHANGED <<LinePhase, Count(parked), Count(inbound), Count(outbound)>>
<1>1. Same => [Line!Next]_(Line!lineVars)
  BY DEF Line!lineVars
<1>2. Line!Leave => Line!Next
  BY DEF Line!Next
<1>3. CASE StartHello \/ StartRequest
  <2>1. phase \in {"boot", "idle"} /\ phase' = "open" /\ UNCHANGED <<parked, inbound, outbound>>
    BY <1>3 DEF StartHello, StartRequest, Transact, linkVars
  <2>2. Line!Begin
    BY <2>1 DEF Line!Begin, LinePhase
  <2>. QED BY <2>2 DEF Line!Next
<1>4. CASE Expire \/ RadioFails
  <2>1. UNCHANGED <<phase, parked, inbound, outbound>>
    BY <1>4 DEF Expire, RadioFails, linkVars, hostVars
  <2>2. Same
    BY <2>1 DEF LinePhase
  <2>. QED BY <1>1, <2>2
<1>5. CASE SendOpening
  <2>1. /\ phase = "open" /\ phase' = "body" /\ parked' = {} /\ outbound' = outbound
        /\ inbound' = inbound \cup parked
    BY <1>5 DEF SendOpening
  <2>2. parked # {} => inbound = {}
    BY DEF IInv, LinkInv
  <2>3. Count(inbound') = Count(inbound) + Count(parked)
    BY <2>1, <2>2 DEF Count
  <2>4. Line!SendOpening
    BY <2>1, <2>3, CountFacts DEF Line!SendOpening, LinePhase
  <2>. QED BY <2>4 DEF Line!Next
<1>6. CASE SendBody
  <2>1. /\ phase = "body" /\ phase' = "receive" /\ outbound' = outbound
        /\ inbound = {} /\ outbound = {}
        /\ \/ inbound' = {frame} /\ parked' = parked
           \/ inbound' = inbound /\ parked' = parked
           \/ parked' = {frame} /\ inbound' = inbound
    BY <1>6 DEF SendBody, PicoReads
  <2>2. Line!SendBody
    BY <2>1, CountFacts DEF Line!SendBody, Line!PicoReads, LinePhase
  <2>. QED BY <2>2 DEF Line!Next
<1>7. CASE SendTimesOut \/ ReceiveTimesOut
  <2>1. /\ InCall /\ phase' \in {"open", "idle", "halted"}
        /\ UNCHANGED <<inbound, outbound>>
        /\ UNCHANGED parked \/ (phase = "body" /\ PicoReads /\ parked' = {frame})
    BY <1>7 DEF SendTimesOut, ReceiveTimesOut, AttemptFails, InCall, linkVars
  <2>. QED BY <1>2, <2>1, LeaveLine
<1>8. CASE HostRestart
  <2>1. /\ phase' = "boot" /\ UNCHANGED <<inbound, outbound>>
        /\ UNCHANGED parked \/ (phase = "body" /\ PicoReads /\ parked' = {frame})
    BY <1>8 DEF HostRestart
  <2>2. CASE InCall
    BY <1>2, <2>1, <2>2, LeaveLine
  <2>3. CASE ~InCall
    <3>1. phase # "body" /\ LinePhase = "away" /\ LinePhase' = "away"
      BY <2>1, <2>3 DEF InCall, LinePhase
    <3>. QED BY <1>1, <2>1, <3>1
  <2>. QED BY <2>2, <2>3
<1>9. CASE ReceiveBad
  <2>1. /\ phase = "receive" /\ phase' \in {"open", "idle", "halted"} /\ outbound # {}
        /\ UNCHANGED <<parked, inbound>>
    BY <1>9 DEF ReceiveBad, AttemptFails
  <2>2. Line!Mishear
    BY <2>1, CountFacts DEF Line!Mishear, LinePhase
  <2>. QED BY <2>2 DEF Line!Next
<1>10. CASE Receive
  <2>1. /\ phase = "receive" /\ phase' \in {"idle", "halted"}
        /\ outbound # {} /\ outbound' = {} /\ UNCHANGED <<parked, inbound>>
    BY <1>10 DEF Receive, AcceptHello, AcceptAnswer
  <2>2. Line!Hear
    BY <2>1, CountFacts DEF Line!Hear, LinePhase
  <2>. QED BY <2>2 DEF Line!Next
<1>11. CASE PicoHandle
  <2>1. /\ outbound = {} /\ inbound # {} /\ inbound' = {} /\ phase' = phase /\ parked' = parked
        /\ \E f \in inbound :
             \/ Resend(f) \/ Greet(f) \/ Execute(f)
             \/ \E code \in {"UNSUPPORTED_VERSION", "SEQUENCE_CONFLICT"} : Refuse(f, code)
    BY <1>11 DEF PicoHandle, hostVars
  <2>2. outbound' # {}
    BY <2>1 DEF Resend, Duplicate, Greet, Execute, Refuse
  <2>3. LinePhase' = LinePhase
    BY <2>1 DEF LinePhase
  <2>4. Line!Answer
    BY <2>1, <2>2, <2>3, CountFacts DEF Line!Answer
  <2>. QED BY <2>4 DEF Line!Next
<1>12. CASE PicoAbortsResponse
  <2>1. /\ outbound # {} /\ outbound' = {} /\ UNCHANGED <<phase, parked, inbound>>
    BY <1>12 DEF PicoAbortsResponse, hostVars
  <2>2. Line!AbandonAnswer
    BY <2>1, CountFacts DEF Line!AbandonAnswer, LinePhase
  <2>. QED BY <2>2 DEF Line!Next
<1>13. CASE PicoDropsPartial
  <2>1. /\ parked # {} /\ parked' = {} /\ UNCHANGED <<phase, inbound, outbound>>
    BY <1>13 DEF PicoDropsPartial, hostVars
  <2>2. Line!DropParked
    BY <2>1, CountFacts DEF Line!DropParked, LinePhase
  <2>. QED BY <2>2 DEF Line!Next
<1>14. CASE PicoRestart
  <2>1. parked' = {} /\ inbound' = {} /\ outbound' = {} /\ phase' = phase
    BY <1>14 DEF PicoRestart, hostVars
  <2>2. Line!Restart
    BY <2>1, CountFacts DEF Line!Restart, LinePhase
  <2>. QED BY <2>2 DEF Line!Next
<1>. QED BY <1>3, <1>4, <1>5, <1>6, <1>7, <1>8, <1>9, <1>10, <1>11, <1>12, <1>13, <1>14
         DEF Next, HostStep, PicoStep

\* What the transactions do on the link, and what becomes of their frames there, is
\* what the half-duplex line allows: the one that the mailbox implements.
THEOREM KeepsToLineHolds == Spec => KeepsToLine
<1>1. Init => Line!Init
  BY CountFacts DEF Init, Line!Init, LinePhase
<1>2. IInv /\ [Next]_vars => [Line!Next]_(Line!lineVars)
  <2> SUFFICES ASSUME UNCHANGED vars PROVE UNCHANGED Line!lineVars
    BY LineNext
  <2>. QED BY DEF vars, hostVars, linkVars, Line!lineVars, LinePhase
<1>. QED BY <1>1, <1>2, Invariant, PTL DEF Spec, KeepsToLine, Line!Spec
=============================================================================
