--------------------------- MODULE PicoFetch_proofs ---------------------------
(***************************************************************************)
(* Proofs about PicoFetch.  FetchInv and CheckInv are inductive: together  *)
(* they say at each place of core 0 what may be under way, and from them   *)
(* follow the rows FETCH_ROWS hands out, the lifetime of the TLS           *)
(* configurations, and what the end of a fetch means.                      *)
(***************************************************************************)
EXTENDS PicoFetch, TLAPS

Refusing  == {"fetch_refuse", "fetch_start"}
Decoding  == {"decode", "decoded"}
Ended     == {"done", "aborted"}
Unpolled  == {"check", "check_refuse", "check_start", "fetch"} \cup Refusing

\* What is under way where: a request has the client's ear from "fetch_start"
\* to "done", and no other is accepted meanwhile.
Underlying ==
  /\ job # "none" => httpActive /\ tlsConfig /\ ~cleanup
  /\ connection <=> job = "open"
  /\ httpActive => /\ ~fetchRequested
                   /\ pc0 \notin Refusing \cup Decoding \cup Ended \cup {"bringup", "halted"}
                   /\ job # "none"
  /\ tlsConfig => httpActive \/ cleanup
  /\ pc0 \in Unpolled => ~cleanup

\* Whose request it is.
Own ==
  /\ job # "none" => taken = requested
  /\ pc0 \in Refusing =>
       /\ taken = requested /\ ~fetchRequested
       /\ overtaken \/ fetchState = "CONNECTING"
  /\ fetchRequested => overtaken \/ fetchState = "CONNECTING"
  /\ pc0 \in Decoding \/ (pc0 = "done" /\ jobOk /\ ~forced) =>
       fetchState = "RECEIVING" /\ taken = requested /\ ~fetchRequested
  /\ pc0 \in Ended /\ fetchRequested => overtaken

\* What has been told of it.
Told ==
  /\ fetchState = "COMPLETE" =>
       /\ job = "none" /\ ~fetchRequested
       /\ pc0 \notin Refusing \cup Decoding \cup Ended \cup {"bringup", "halted"}
       /\ ~told \/ overtaken
  /\ told /\ ~overtaken =>
       /\ job # "none" \/ (pc0 = "done" /\ jobOk) => forced
       /\ ~fetchRequested /\ pc0 \notin Refusing \cup Decoding

FetchInv == Underlying /\ Own /\ Told /\ RowsAreOfRequestedPage

\* A check that is not overlapped holds the one configuration there is.
CheckInv ==
  ~overlapped =>
    /\ checks \subseteq heap /\ heap \subseteq {versionConfig}
    /\ heap # {} => checks # {} \/ versionCleanup
    /\ checks # {} \/ checkRequested \/ pc0 \in {"check_start", "check_refuse"} =>
         checkState = "RUNNING"
    /\ checkRequested \/ versionCleanup \/ pc0 \in {"check_start", "check_refuse"} =>
         checks = {}
    /\ pc0 \in {"check_start", "check_refuse"} => ~checkRequested
    /\ pc0 \in Unpolled => ~versionCleanup
-----------------------------------------------------------------------------
\* TypeOK in parts: the flags, the values of the others, and the HTTP client's.
FlagsTyped ==
  /\ {connected, fetchRequested, httpActive, checkRequested} \subseteq BOOLEAN
  /\ {connection, forced, late, tlsConfig, cleanup, versionCleanup} \subseteq BOOLEAN
  /\ {jobOk, overtaken, told, overlapped} \subseteq BOOLEAN

Flags ==
  /\ connected \in BOOLEAN /\ fetchRequested \in BOOLEAN
  /\ httpActive \in BOOLEAN /\ checkRequested \in BOOLEAN
  /\ connection \in BOOLEAN /\ forced \in BOOLEAN /\ late \in BOOLEAN
  /\ tlsConfig \in BOOLEAN /\ cleanup \in BOOLEAN /\ versionCleanup \in BOOLEAN
  /\ jobOk \in BOOLEAN /\ overtaken \in BOOLEAN /\ told \in BOOLEAN
  /\ overlapped \in BOOLEAN

ValuesTyped ==
  /\ fetchState \in FetchStates
  /\ checkState \in CheckStates
  /\ {requested, taken, links} \subseteq Pages \cup {NoPage}
  /\ screen \in Pages \cup {NoPage, Mixed}
  /\ pc0 \in Core0Places /\ job \in Jobs
  /\ versionConfig \in Configs \cup {NoConfig}
  /\ checks \subseteq Configs /\ heap \subseteq Configs

\* Each step leaves the flags Boolean.
LEMMA FlagsStep == ASSUME FlagsTyped, [Next]_vars PROVE FlagsTyped'
<1> USE DEF FlagsTyped, vars, allFetch, allCheck, fetchVars, bodyVars, checkVars,
               fetchCore0, checkCore0, jobVars, checkJobs, history
<1>1. CASE VersionCheckStart
  BY <1>1 DEF VersionCheckStart
<1>2. ASSUME NEW p \in Pages, FetchStart(p) PROVE FlagsTyped'
  <2>1. overtaken' = TRUE \/ overtaken' = FALSE
    <3>1. overtaken' <=> pc0 \in {"done", "aborted"}
      BY <1>2 DEF FetchStart, QueueFetch
    <3>2. overtaken' \in BOOLEAN
      BY <1>2, <3>1 DEF FetchStart, QueueFetch
    <3> QED
      BY <3>2
  <2> QED
    BY <1>2, <2>1 DEF FetchStart, QueueFetch
<1>3. CASE Allocate
  BY <1>3 DEF Allocate
<1>4. CASE Deliver
  BY <1>4 DEF Deliver
<1>5. CASE RequestDone
  BY <1>5 DEF RequestDone
<1>6. ASSUME NEW c \in Configs, VersionDone(c) PROVE FlagsTyped'
  BY <1>6 DEF VersionDone
<1>7. CASE BringUp
  BY <1>7 DEF BringUp
<1>8. CASE LinkChanges
  BY <1>8 DEF LinkChanges
<1>9. CASE FetchDeadline
  BY <1>9 DEF FetchDeadline
<1>10. CASE ReportResult
  BY <1>10 DEF ReportResult, SetFailed
<1>11. CASE DecodeRows
  BY <1>11 DEF DecodeRows
<1>12. CASE PublishPage
  BY <1>12 DEF PublishPage, SetFailed
<1>13. CASE CheckDeadline
  BY <1>13 DEF CheckDeadline, Overdue, Abort, TimeOutInDns, SetFailed
<1>14. CASE ReportAbort
  BY <1>14 DEF ReportAbort, SetFailed
<1>15. CASE CleanUp
  BY <1>15 DEF CleanUp
<1>16. CASE TakeCheck
  BY <1>16 DEF TakeCheck
<1>17. CASE RefuseCheck
  BY <1>17 DEF RefuseCheck
<1>18. CASE StartCheck
  BY <1>18 DEF StartCheck
<1>19. CASE TakeFetch
  BY <1>19 DEF TakeFetch
<1>20. CASE RefuseFetch
  BY <1>20 DEF RefuseFetch, SetFailed
<1>21. CASE StartFetch
  BY <1>21 DEF StartFetch, HandOn, CannotStart, SetFailed
<1>22. CASE UNCHANGED vars
  BY <1>22
<1> QED
  BY <1>1, <1>2, <1>3, <1>4, <1>5, <1>6, <1>7, <1>8, <1>9, <1>10, <1>11,
     <1>12, <1>13, <1>14, <1>15, <1>16, <1>17, <1>18, <1>19, <1>20, <1>21,
     <1>22
     DEF Next, Core1, Callbacks, Core0

\* The flags one by one.
LEMMA FlagsEach == FlagsTyped <=> Flags
  BY DEF FlagsTyped, Flags

\* Each step leaves the other variables in their ranges.
LEMMA ValuesStep == ASSUME ValuesTyped, [Next]_vars PROVE ValuesTyped'
<1> USE DEF ValuesTyped, FetchStates, CheckStates, Jobs, Core0Places,
            vars, allFetch, allCheck, fetchVars, bodyVars, checkVars,
               fetchCore0, checkCore0, jobVars, checkJobs, history
<1>1. CASE VersionCheckStart
  BY <1>1 DEF VersionCheckStart
<1>2. ASSUME NEW p \in Pages, FetchStart(p) PROVE ValuesTyped'
  BY <1>2 DEF FetchStart, QueueFetch, Busy, Underway
<1>3. CASE Allocate
  BY <1>3 DEF Allocate
<1>4. CASE Deliver
  BY <1>4 DEF Deliver
<1>5. CASE RequestDone
  BY <1>5 DEF RequestDone
<1>6. ASSUME NEW c \in Configs, VersionDone(c) PROVE ValuesTyped'
  BY <1>6 DEF VersionDone
<1>7. CASE BringUp
  BY <1>7 DEF BringUp
<1>8. CASE LinkChanges
  BY <1>8 DEF LinkChanges
<1>9. CASE FetchDeadline
  BY <1>9 DEF FetchDeadline
<1>10. CASE ReportResult
  BY <1>10 DEF ReportResult, SetFailed
<1>11. CASE DecodeRows
  BY <1>11 DEF DecodeRows
<1>12. CASE PublishPage
  BY <1>12 DEF PublishPage, SetFailed
<1>13. CASE CheckDeadline
  BY <1>13 DEF CheckDeadline, Overdue, Abort, TimeOutInDns, SetFailed
<1>14. CASE ReportAbort
  BY <1>14 DEF ReportAbort, SetFailed
<1>15. CASE CleanUp
  BY <1>15 DEF CleanUp
<1>16. CASE TakeCheck
  BY <1>16 DEF TakeCheck
<1>17. CASE RefuseCheck
  BY <1>17 DEF RefuseCheck
<1>18. CASE StartCheck
  BY <1>18 DEF StartCheck
<1>19. CASE TakeFetch
  BY <1>19 DEF TakeFetch
<1>20. CASE RefuseFetch
  BY <1>20 DEF RefuseFetch, SetFailed
<1>21. CASE StartFetch
  BY <1>21 DEF StartFetch, HandOn, CannotStart, SetFailed
<1>22. CASE UNCHANGED vars
  BY <1>22
<1> QED
  BY <1>1, <1>2, <1>3, <1>4, <1>5, <1>6, <1>7, <1>8, <1>9, <1>10, <1>11,
     <1>12, <1>13, <1>14, <1>15, <1>16, <1>17, <1>18, <1>19, <1>20, <1>21,
     <1>22
     DEF Next, Core1, Callbacks, Core0

\* Each step preserves what is known about fetches.
LEMMA FetchStep == 
  ASSUME Flags, Flags', FetchInv, [Next]_vars PROVE FetchInv'
<1> USE DEF Flags, FetchInv, Underlying, Own, Told, RowsAreOfRequestedPage,
            Refusing, Decoding, Ended, Unpolled,
            vars, allFetch, allCheck, fetchVars, bodyVars, checkVars,
               fetchCore0, checkCore0, jobVars, checkJobs, history
<1>1. CASE VersionCheckStart
  BY <1>1 DEF VersionCheckStart
<1>2. ASSUME NEW p \in Pages, FetchStart(p) PROVE FetchInv'
  BY <1>2 DEF FetchStart, QueueFetch, Busy, Underway
<1>3. CASE Allocate
  BY <1>3 DEF Allocate
<1>4. CASE Deliver
  BY <1>4 DEF Deliver
<1>5. CASE RequestDone
  BY <1>5 DEF RequestDone
<1>6. ASSUME NEW c \in Configs, VersionDone(c) PROVE FetchInv'
  BY <1>6 DEF VersionDone
<1>7. CASE BringUp
  BY <1>7 DEF BringUp
<1>8. CASE LinkChanges
  BY <1>8 DEF LinkChanges
<1>9. CASE FetchDeadline
  BY <1>9 DEF FetchDeadline
<1>10. CASE ReportResult
  BY <1>10 DEF ReportResult, SetFailed
<1>11. CASE DecodeRows
  BY <1>11 DEF DecodeRows
<1>12. CASE PublishPage
  BY <1>12 DEF PublishPage, SetFailed
<1>13. CASE CheckDeadline
  BY <1>13 DEF CheckDeadline, Overdue, Abort, TimeOutInDns, SetFailed
<1>14. CASE ReportAbort
  BY <1>14 DEF ReportAbort, SetFailed
<1>15. CASE CleanUp
  BY <1>15 DEF CleanUp
<1>16. CASE TakeCheck
  BY <1>16 DEF TakeCheck
<1>17. CASE RefuseCheck
  BY <1>17 DEF RefuseCheck
<1>18. CASE StartCheck
  BY <1>18 DEF StartCheck
<1>19. CASE TakeFetch
  BY <1>19 DEF TakeFetch
<1>20. CASE RefuseFetch
  BY <1>20 DEF RefuseFetch, SetFailed
<1>21. CASE StartFetch
  BY <1>21 DEF StartFetch, HandOn, CannotStart, SetFailed
<1>22. CASE UNCHANGED vars
  BY <1>22
<1> QED
  BY <1>1, <1>2, <1>3, <1>4, <1>5, <1>6, <1>7, <1>8, <1>9, <1>10, <1>11,
     <1>12, <1>13, <1>14, <1>15, <1>16, <1>17, <1>18, <1>19, <1>20, <1>21,
     <1>22
     DEF Next, Core1, Callbacks, Core0

\* Each step preserves what is known about version checks.
LEMMA CheckStep == ASSUME Flags, CheckInv, [Next]_vars PROVE CheckInv'
<1> USE DEF Flags, CheckInv, Refusing, Unpolled,
            vars, allFetch, allCheck, fetchVars, bodyVars, checkVars,
               fetchCore0, checkCore0, jobVars, checkJobs, history
<1>1. CASE VersionCheckStart
  BY <1>1 DEF VersionCheckStart
<1>2. ASSUME NEW p \in Pages, FetchStart(p) PROVE CheckInv'
  BY <1>2 DEF FetchStart, QueueFetch, Busy, Underway
<1>3. CASE Allocate
  BY <1>3 DEF Allocate
<1>4. CASE Deliver
  BY <1>4 DEF Deliver
<1>5. CASE RequestDone
  BY <1>5 DEF RequestDone
<1>6. ASSUME NEW c \in Configs, VersionDone(c) PROVE CheckInv'
  BY <1>6 DEF VersionDone
<1>7. CASE BringUp
  BY <1>7 DEF BringUp
<1>8. CASE LinkChanges
  BY <1>8 DEF LinkChanges
<1>9. CASE FetchDeadline
  BY <1>9 DEF FetchDeadline
<1>10. CASE ReportResult
  BY <1>10 DEF ReportResult, SetFailed
<1>11. CASE DecodeRows
  BY <1>11 DEF DecodeRows
<1>12. CASE PublishPage
  BY <1>12 DEF PublishPage, SetFailed
<1>13. CASE CheckDeadline
  BY <1>13 DEF CheckDeadline, Overdue, Abort, TimeOutInDns, SetFailed
<1>14. CASE ReportAbort
  BY <1>14 DEF ReportAbort, SetFailed
<1>15. CASE CleanUp
  BY <1>15 DEF CleanUp
<1>16. CASE TakeCheck
  BY <1>16 DEF TakeCheck
<1>17. CASE RefuseCheck
  BY <1>17 DEF RefuseCheck
<1>18. CASE StartCheck
  BY <1>18 DEF StartCheck
<1>19. CASE TakeFetch
  BY <1>19 DEF TakeFetch
<1>20. CASE RefuseFetch
  BY <1>20 DEF RefuseFetch, SetFailed
<1>21. CASE StartFetch
  BY <1>21 DEF StartFetch, HandOn, CannotStart, SetFailed
<1>22. CASE UNCHANGED vars
  BY <1>22
<1> QED
  BY <1>1, <1>2, <1>3, <1>4, <1>5, <1>6, <1>7, <1>8, <1>9, <1>10, <1>11,
     <1>12, <1>13, <1>14, <1>15, <1>16, <1>17, <1>18, <1>19, <1>20, <1>21,
     <1>22
     DEF Next, Core1, Callbacks, Core0

-----------------------------------------------------------------------------
IInv == FlagsTyped /\ ValuesTyped /\ FetchInv /\ CheckInv

\* The invariant of all reachable states.
LEMMA InvHolds == Spec => []IInv
<1>1. Init => IInv
  BY ConstantsAssumption
     DEF Init, IInv, FlagsTyped, ValuesTyped, FetchInv, Underlying, Own, Told,
         RowsAreOfRequestedPage, CheckInv, Refusing, Decoding, Ended, Unpolled,
         FetchStates, CheckStates, Jobs, Core0Places
<1>2. IInv /\ [Next]_vars => IInv'
  <2> SUFFICES ASSUME IInv, [Next]_vars PROVE IInv'
    OBVIOUS
  <2>1. FlagsTyped'
    BY FlagsStep DEF IInv
  <2>2. Flags /\ Flags'
    BY <2>1, FlagsEach DEF IInv, FlagsTyped, Flags
  <2> QED
    BY <2>1, <2>2, ValuesStep, FetchStep, CheckStep DEF IInv
<1> QED
  BY <1>1, <1>2, PTL DEF Spec

\* Every variable keeps to its declaration in main.c, and the connection kept
\* for teletekst_check_fetch_deadline to abort is one lwIP still has.
THEOREM TypeCorrect == Spec => []TypeOK
<1>1. IInv => TypeOK
  BY DEF IInv, FlagsTyped, ValuesTyped, FetchInv, Underlying, TypeOK
<1> QED
  BY <1>1, InvHolds, PTL

\* Whatever FETCH_ROWS hands out while the fetch is complete is of the page that
\* was asked for, and so are the next subpage and the neighbours.
THEOREM RowsCorrect == Spec => []RowsAreOfRequestedPage
<1>1. IInv => RowsAreOfRequestedPage
  BY DEF IInv, FetchInv
<1> QED
  BY <1>1, InvHolds, PTL

\* No TLS configuration is freed while a request uses it, and none is lost.
THEOREM TlsCorrect == Spec => []TlsLifetime
<1>1. IInv => TlsLifetime
  BY DEF IInv, FlagsTyped, FetchInv, Underlying, CheckInv, TlsLifetime, Refusing,
         Unpolled
<1> QED
  BY <1>1, InvHolds, PTL

\* docs/protocol.md:423: a fetch that ends has no connection left.
THEOREM NoStaleWorkHolds == Spec => NoStaleWork
<1>1. IInv /\ [Next]_vars => [~Over /\ Over' => job' # "open"]_vars
  <2> SUFFICES ASSUME IInv, [Next]_vars PROVE ~Over /\ Over' => job' # "open"
    OBVIOUS
  <2> USE FlagsEach DEF Over, IInv, Flags, FetchInv, Underlying, Own, Refusing, Decoding,
                   Ended, vars, allFetch, allCheck, fetchVars, bodyVars, checkVars,
                   fetchCore0, checkCore0, jobVars, checkJobs, history
<2>1. CASE VersionCheckStart
  BY <2>1 DEF VersionCheckStart
<2>2. ASSUME NEW p \in Pages, FetchStart(p) PROVE ~Over /\ Over' => job' # "open"
  BY <2>2 DEF FetchStart, QueueFetch, Busy, Underway
<2>3. CASE Allocate
  BY <2>3 DEF Allocate
<2>4. CASE Deliver
  BY <2>4 DEF Deliver
<2>5. CASE RequestDone
  BY <2>5 DEF RequestDone
<2>6. ASSUME NEW c \in Configs, VersionDone(c) PROVE ~Over /\ Over' => job' # "open"
  BY <2>6 DEF VersionDone
<2>7. CASE BringUp
  BY <2>7 DEF BringUp
<2>8. CASE LinkChanges
  BY <2>8 DEF LinkChanges
<2>9. CASE FetchDeadline
  BY <2>9 DEF FetchDeadline
<2>10. CASE ReportResult
  BY <2>10 DEF ReportResult, SetFailed
<2>11. CASE DecodeRows
  BY <2>11 DEF DecodeRows
<2>12. CASE PublishPage
  BY <2>12 DEF PublishPage, SetFailed
<2>13. CASE CheckDeadline
  BY <2>13 DEF CheckDeadline, Overdue, Abort, TimeOutInDns, SetFailed
<2>14. CASE ReportAbort
  BY <2>14 DEF ReportAbort, SetFailed
<2>15. CASE CleanUp
  BY <2>15 DEF CleanUp
<2>16. CASE TakeCheck
  BY <2>16 DEF TakeCheck
<2>17. CASE RefuseCheck
  BY <2>17 DEF RefuseCheck
<2>18. CASE StartCheck
  BY <2>18 DEF StartCheck
<2>19. CASE TakeFetch
  BY <2>19 DEF TakeFetch
<2>20. CASE RefuseFetch
  BY <2>20 DEF RefuseFetch, SetFailed
<2>21. CASE StartFetch
  BY <2>21 DEF StartFetch, HandOn, CannotStart, SetFailed
<2>22. CASE UNCHANGED vars
  BY <2>22
<2> QED
  BY <2>1, <2>2, <2>3, <2>4, <2>5, <2>6, <2>7, <2>8, <2>9, <2>10, <2>11,
     <2>12, <2>13, <2>14, <2>15, <2>16, <2>17, <2>18, <2>19, <2>20, <2>21,
     <2>22
     DEF Next, Core1, Callbacks, Core0
<1> QED
  BY <1>1, InvHolds, PTL DEF Spec, NoStaleWork

\* A completed fetch stays complete and a failed one failed, until FETCH_START.
THEOREM OutcomeStandsHolds == Spec => OutcomeStands
<1> DEFINE Stands == /\ fetchState = "COMPLETE" => fetchState' \in {"COMPLETE", "CONNECTING"}
                     /\ fetchState' = "COMPLETE" => ~told \/ overtaken
<1>1. IInv /\ [Next]_vars => [Stands]_vars
  <2> SUFFICES ASSUME IInv, [Next]_vars PROVE Stands
    OBVIOUS
  <2> USE FlagsEach DEF IInv, Flags, FetchInv, Underlying, Told, Refusing, Decoding, Ended,
                   vars, allFetch, allCheck, fetchVars, bodyVars, checkVars,
                   fetchCore0, checkCore0, jobVars, checkJobs, history
<2>1. CASE VersionCheckStart
  BY <2>1 DEF VersionCheckStart
<2>2. ASSUME NEW p \in Pages, FetchStart(p) PROVE Stands
  BY <2>2 DEF FetchStart, QueueFetch, Busy, Underway
<2>3. CASE Allocate
  BY <2>3 DEF Allocate
<2>4. CASE Deliver
  BY <2>4 DEF Deliver
<2>5. CASE RequestDone
  BY <2>5 DEF RequestDone
<2>6. ASSUME NEW c \in Configs, VersionDone(c) PROVE Stands
  BY <2>6 DEF VersionDone
<2>7. CASE BringUp
  BY <2>7 DEF BringUp
<2>8. CASE LinkChanges
  BY <2>8 DEF LinkChanges
<2>9. CASE FetchDeadline
  BY <2>9 DEF FetchDeadline
<2>10. CASE ReportResult
  BY <2>10 DEF ReportResult, SetFailed
<2>11. CASE DecodeRows
  BY <2>11 DEF DecodeRows
<2>12. CASE PublishPage
  BY <2>12 DEF PublishPage, SetFailed
<2>13. CASE CheckDeadline
  BY <2>13 DEF CheckDeadline, Overdue, Abort, TimeOutInDns, SetFailed
<2>14. CASE ReportAbort
  BY <2>14 DEF ReportAbort, SetFailed
<2>15. CASE CleanUp
  BY <2>15 DEF CleanUp
<2>16. CASE TakeCheck
  BY <2>16 DEF TakeCheck
<2>17. CASE RefuseCheck
  BY <2>17 DEF RefuseCheck
<2>18. CASE StartCheck
  BY <2>18 DEF StartCheck
<2>19. CASE TakeFetch
  BY <2>19 DEF TakeFetch
<2>20. CASE RefuseFetch
  BY <2>20 DEF RefuseFetch, SetFailed
<2>21. CASE StartFetch
  BY <2>21 DEF StartFetch, HandOn, CannotStart, SetFailed
<2>22. CASE UNCHANGED vars
  BY <2>22
<2> QED
  BY <2>1, <2>2, <2>3, <2>4, <2>5, <2>6, <2>7, <2>8, <2>9, <2>10, <2>11,
     <2>12, <2>13, <2>14, <2>15, <2>16, <2>17, <2>18, <2>19, <2>20, <2>21,
     <2>22
     DEF Next, Core1, Callbacks, Core0
<1> QED
  BY <1>1, InvHolds, PTL DEF Spec, OutcomeStands
=============================================================================
