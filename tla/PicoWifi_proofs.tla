---------------------------- MODULE PicoWifi_proofs ----------------------------
(***************************************************************************)
(* Proofs about PicoWifi for any set of networks and any host, and that    *)
(* the cartridge is one.                                                   *)
(***************************************************************************)
EXTENDS WifiCartridge, TLAPS

(***************************************************************************)
(* Types, in two halves for two ways of reasoning.                         *)
(***************************************************************************)
FlagsTyped ==
  /\ {scanRequested, connectRequested, password} \subseteq BOOLEAN
  /\ {scanActive, connActive, connectLate, driverScan} \subseteq BOOLEAN
  /\ {overran, overlapped} \subseteq BOOLEAN

ValuesTyped ==
  /\ initState \in InitStates /\ scanState \in ScanStates
  /\ results \subseteq Networks
  /\ connState \in ConnStates /\ seen \in ConnStates
  /\ profileState \in ProfileStates /\ profileOp \in Operations
  /\ {wifiSsid, profileSsid, radioNet, flash} \subseteq Places
  /\ pc0 \in Core0Places
  /\ taken \in [op : Operations, ssid : Places]
  /\ pendingFailure \in LinkFailures \cup {"NONE"}
  /\ link \in LinkStatus

\* Each step leaves the flags Boolean.
LEMMA FlagsStep == ASSUME FlagsTyped, [Next]_vars PROVE FlagsTyped'
<1> USE DEF FlagsTyped, vars, initVars, scanVars, connVars, profileVars,
            core0Vars, driverVars, history, Core1Only
<1>1. CASE ScanStart
  BY <1>1 DEF ScanStart
<1>2. ASSUME NEW n \in Networks, WifiConnect(n) PROVE FlagsTyped'
  BY <1>2 DEF WifiConnect, QueueConnection
<1>3. CASE ProfileConnect
  BY <1>3 DEF ProfileConnect
<1>4. CASE ProfileSave
  BY <1>4 DEF ProfileSave
<1>5. CASE ProfileDelete
  BY <1>5 DEF ProfileDelete
<1>6. CASE InitDeadline
  BY <1>6 DEF InitDeadline, DeclareFailed
<1>7. CASE ScanDeadline
  BY <1>7 DEF ScanDeadline
<1>8. ASSUME NEW n \in InReach, ScanResult(n) PROVE FlagsTyped'
  BY <1>8 DEF ScanResult
<1>9. CASE DriverScanEnds
  BY <1>9 DEF DriverScanEnds
<1>10. CASE LinkChanges
  BY <1>10 DEF LinkChanges
<1>11. CASE ConnectDeadline
  BY <1>11 DEF ConnectDeadline
<1>12. CASE BringUp
  BY <1>12 DEF BringUp, DeclareFailed
<1>13. CASE FinishPoll
  BY <1>13 DEF FinishPoll
<1>14. CASE ReadConnection
  BY <1>14 DEF ReadConnection
<1>15. CASE Judge
  BY <1>15 DEF Judge, JudgeConnecting, Settle, StillConnecting, LinkLost
<1>16. CASE TakeProfile
  BY <1>16 DEF TakeProfile
<1>17. CASE RunProfile
  BY <1>17 DEF RunProfile, QueueConnection
<1>18. CASE PublishProfile
  BY <1>18 DEF PublishProfile
<1>19. CASE TakeScan
  BY <1>19 DEF TakeScan
<1>20. CASE CallScan
  BY <1>20 DEF CallScan
<1>21. CASE TakeConnect
  BY <1>21 DEF TakeConnect
<1>22. CASE Join
  BY <1>22 DEF Join
<1>23. CASE UNCHANGED vars
  BY <1>23
<1> QED
  BY <1>1, <1>2, <1>3, <1>4, <1>5, <1>6, <1>7, <1>8, <1>9, <1>10, <1>11,
     <1>12, <1>13, <1>14, <1>15, <1>16, <1>17, <1>18, <1>19, <1>20, <1>21,
     <1>22, <1>23
     DEF Next, Requests, Connects, Pico, Core0, Deadlines, Driver

\* What a failed connection is published as.
LEMMA FailureStates == \A status : FailureState(status) \in ConnStates
  BY DEF FailureState, ConnStates

\* Each step leaves the other variables in their ranges.
LEMMA ValuesStep == ASSUME ValuesTyped, [Next]_vars PROVE ValuesTyped'
<1> USE DEF ValuesTyped, InitStates, ScanStates, ConnStates, ProfileStates,
            Operations, Places, Core0Places, LinkFailures, LinkStatus, Idle,
            vars, initVars, scanVars, connVars, profileVars, core0Vars,
            driverVars, history, Core1Only
<1>1. CASE ScanStart
  BY <1>1 DEF ScanStart
<1>2. ASSUME NEW n \in Networks, WifiConnect(n) PROVE ValuesTyped'
  BY <1>2 DEF WifiConnect, QueueConnection
<1>3. CASE ProfileConnect
  BY <1>3 DEF ProfileConnect
<1>4. CASE ProfileSave
  BY <1>4 DEF ProfileSave
<1>5. CASE ProfileDelete
  BY <1>5 DEF ProfileDelete
<1>6. CASE InitDeadline
  BY <1>6 DEF InitDeadline, DeclareFailed
<1>7. CASE ScanDeadline
  BY <1>7 DEF ScanDeadline
<1>8. ASSUME NEW n \in InReach, ScanResult(n) PROVE ValuesTyped'
  BY <1>8, NetworksAssumption DEF ScanResult
<1>9. CASE DriverScanEnds
  BY <1>9 DEF DriverScanEnds
<1>10. CASE LinkChanges
  BY <1>10 DEF LinkChanges
<1>11. CASE ConnectDeadline
  BY <1>11 DEF ConnectDeadline
<1>12. CASE BringUp
  BY <1>12 DEF BringUp, DeclareFailed
<1>13. CASE FinishPoll
  BY <1>13 DEF FinishPoll
<1>14. CASE ReadConnection
  BY <1>14 DEF ReadConnection
<1>15. CASE Judge
  BY <1>15, FailureStates DEF Judge, JudgeConnecting, Settle,
                              StillConnecting, LinkLost
<1>16. CASE TakeProfile
  BY <1>16 DEF TakeProfile
<1>17. CASE RunProfile
  BY <1>17 DEF RunProfile, QueueConnection
<1>18. CASE PublishProfile
  BY <1>18 DEF PublishProfile
<1>19. CASE TakeScan
  BY <1>19 DEF TakeScan
<1>20. CASE CallScan
  BY <1>20 DEF CallScan
<1>21. CASE TakeConnect
  BY <1>21 DEF TakeConnect
<1>22. CASE Join
  BY <1>22 DEF Join
<1>23. CASE UNCHANGED vars
  BY <1>23
<1> QED
  BY <1>1, <1>2, <1>3, <1>4, <1>5, <1>6, <1>7, <1>8, <1>9, <1>10, <1>11,
     <1>12, <1>13, <1>14, <1>15, <1>16, <1>17, <1>18, <1>19, <1>20, <1>21,
     <1>22, <1>23
     DEF Next, Requests, Connects, Pico, Core0, Deadlines, Driver

-----------------------------------------------------------------------------
(***************************************************************************)
(* The stages of bring-up, a profile that was loaded, and the scans.       *)
(***************************************************************************)

\* Core 0 is past bring-up exactly when it was declared a success, and a failed
\* one leaves nothing asked for.
StageInv ==
  /\ initState = "STARTING" => pc0 = "bringup"
  /\ initState = "READY" => pc0 \notin {"bringup", "halted"}
  /\ initState = "FAILED" => /\ pc0 \in {"bringup", "halted"}
                             /\ connState = "CONNECTION_FAILED"
                             /\ ~connectRequested /\ ~scanRequested

\* Between loading a profile and publishing it, its connection is announced.
LoadedInv ==
  /\ pc0 = "flash" /\ taken.op = "CONNECT" => taken.ssid = NoNetwork
  /\ pc0 = "publish" /\ taken.op = "CONNECT" /\ taken.ssid # NoNetwork =>
       connState = "CONNECTING"

\* The scan core 0 is busy with is the one asked for, unless an earlier one
\* timed out in its hands.
ScanInv ==
  /\ scanRequested => scanState = "RUNNING" \/ overran
  /\ pc0 \in {"bringup", "halted"} => ~scanActive
  /\ scanActive \/ pc0 = "scan_call" =>
       overran \/ (scanState = "RUNNING" /\ ~scanRequested)
  /\ pc0 = "scan_call" => overran \/ ~scanActive

IInv == FlagsTyped /\ ValuesTyped /\ StageInv /\ LoadedInv /\ ScanInv

\* Each step preserves the stages.
LEMMA StageStep == ASSUME FlagsTyped, ValuesTyped, StageInv, [Next]_vars PROVE StageInv'
<1> USE DEF StageInv, ValuesTyped, InitStates, vars, initVars, scanVars,
            connVars, profileVars, core0Vars, driverVars, history, Core1Only
<1>1. CASE ScanStart
  BY <1>1 DEF ScanStart
<1>2. ASSUME NEW n \in Networks, WifiConnect(n) PROVE StageInv'
  BY <1>2 DEF WifiConnect, QueueConnection
<1>3. CASE ProfileConnect
  BY <1>3 DEF ProfileConnect
<1>4. CASE ProfileSave
  BY <1>4 DEF ProfileSave
<1>5. CASE ProfileDelete
  BY <1>5 DEF ProfileDelete
<1>6. CASE InitDeadline
  BY <1>6 DEF InitDeadline, DeclareFailed
<1>7. CASE ScanDeadline
  BY <1>7 DEF ScanDeadline
<1>8. ASSUME NEW n \in InReach, ScanResult(n) PROVE StageInv'
  BY <1>8 DEF ScanResult
<1>9. CASE DriverScanEnds
  BY <1>9 DEF DriverScanEnds
<1>10. CASE LinkChanges
  BY <1>10 DEF LinkChanges
<1>11. CASE ConnectDeadline
  BY <1>11 DEF ConnectDeadline
<1>12. CASE BringUp
  BY <1>12 DEF BringUp, DeclareFailed
<1>13. CASE FinishPoll
  BY <1>13 DEF FinishPoll
<1>14. CASE ReadConnection
  BY <1>14 DEF ReadConnection
<1>15. CASE Judge
  BY <1>15 DEF Judge, JudgeConnecting, Settle, StillConnecting, LinkLost
<1>16. CASE TakeProfile
  BY <1>16 DEF TakeProfile
<1>17. CASE RunProfile
  BY <1>17 DEF RunProfile, QueueConnection
<1>18. CASE PublishProfile
  BY <1>18 DEF PublishProfile
<1>19. CASE TakeScan
  BY <1>19 DEF TakeScan
<1>20. CASE CallScan
  BY <1>20 DEF CallScan
<1>21. CASE TakeConnect
  BY <1>21 DEF TakeConnect
<1>22. CASE Join
  BY <1>22 DEF Join
<1>23. CASE UNCHANGED vars
  BY <1>23
<1> QED
  BY <1>1, <1>2, <1>3, <1>4, <1>5, <1>6, <1>7, <1>8, <1>9, <1>10, <1>11,
     <1>12, <1>13, <1>14, <1>15, <1>16, <1>17, <1>18, <1>19, <1>20, <1>21,
     <1>22, <1>23
     DEF Next, Requests, Connects, Pico, Core0, Deadlines, Driver

\* Each step preserves what is announced.
LEMMA LoadedStep ==
  ASSUME ValuesTyped, StageInv, LoadedInv, [Next]_vars
  PROVE  LoadedInv'
<1> USE DEF StageInv, LoadedInv, ValuesTyped, Idle, vars, initVars, scanVars,
            connVars, profileVars, core0Vars, driverVars, history, Core1Only
<1>1. CASE ScanStart
  BY <1>1 DEF ScanStart
<1>2. ASSUME NEW n \in Networks, WifiConnect(n) PROVE LoadedInv'
  BY <1>2 DEF WifiConnect, QueueConnection
<1>3. CASE ProfileConnect
  BY <1>3 DEF ProfileConnect
<1>4. CASE ProfileSave
  BY <1>4 DEF ProfileSave
<1>5. CASE ProfileDelete
  BY <1>5 DEF ProfileDelete
<1>6. CASE InitDeadline
  BY <1>6 DEF InitDeadline, DeclareFailed
<1>7. CASE ScanDeadline
  BY <1>7 DEF ScanDeadline
<1>8. ASSUME NEW n \in InReach, ScanResult(n) PROVE LoadedInv'
  BY <1>8 DEF ScanResult
<1>9. CASE DriverScanEnds
  BY <1>9 DEF DriverScanEnds
<1>10. CASE LinkChanges
  BY <1>10 DEF LinkChanges
<1>11. CASE ConnectDeadline
  BY <1>11 DEF ConnectDeadline
<1>12. CASE BringUp
  BY <1>12 DEF BringUp, DeclareFailed
<1>13. CASE FinishPoll
  BY <1>13 DEF FinishPoll
<1>14. CASE ReadConnection
  BY <1>14 DEF ReadConnection
<1>15. CASE Judge
  BY <1>15 DEF Judge, JudgeConnecting, Settle, StillConnecting, LinkLost
<1>16. CASE TakeProfile
  BY <1>16 DEF TakeProfile
<1>17. CASE RunProfile
  BY <1>17 DEF RunProfile, QueueConnection
<1>18. CASE PublishProfile
  BY <1>18 DEF PublishProfile
<1>19. CASE TakeScan
  BY <1>19 DEF TakeScan
<1>20. CASE CallScan
  BY <1>20 DEF CallScan
<1>21. CASE TakeConnect
  BY <1>21 DEF TakeConnect
<1>22. CASE Join
  BY <1>22 DEF Join
<1>23. CASE UNCHANGED vars
  BY <1>23
<1> QED
  BY <1>1, <1>2, <1>3, <1>4, <1>5, <1>6, <1>7, <1>8, <1>9, <1>10, <1>11,
     <1>12, <1>13, <1>14, <1>15, <1>16, <1>17, <1>18, <1>19, <1>20, <1>21,
     <1>22, <1>23
     DEF Next, Requests, Connects, Pico, Core0, Deadlines, Driver

\* Each step preserves what is known about scans.
LEMMA ScanStep ==
  ASSUME FlagsTyped, StageInv, ScanInv, [Next]_vars
  PROVE  ScanInv'
<1> USE DEF FlagsTyped, StageInv, ScanInv, vars, initVars, scanVars,
            connVars, profileVars, core0Vars, driverVars, history, Core1Only
<1>1. CASE ScanStart
  BY <1>1 DEF ScanStart
<1>2. ASSUME NEW n \in Networks, WifiConnect(n) PROVE ScanInv'
  BY <1>2 DEF WifiConnect, QueueConnection
<1>3. CASE ProfileConnect
  BY <1>3 DEF ProfileConnect
<1>4. CASE ProfileSave
  BY <1>4 DEF ProfileSave
<1>5. CASE ProfileDelete
  BY <1>5 DEF ProfileDelete
<1>6. CASE InitDeadline
  BY <1>6 DEF InitDeadline, DeclareFailed
<1>7. CASE ScanDeadline
  BY <1>7 DEF ScanDeadline
<1>8. ASSUME NEW n \in InReach, ScanResult(n) PROVE ScanInv'
  BY <1>8 DEF ScanResult
<1>9. CASE DriverScanEnds
  BY <1>9 DEF DriverScanEnds
<1>10. CASE LinkChanges
  BY <1>10 DEF LinkChanges
<1>11. CASE ConnectDeadline
  BY <1>11 DEF ConnectDeadline
<1>12. CASE BringUp
  BY <1>12 DEF BringUp, DeclareFailed
<1>13. CASE FinishPoll
  <2>1. CASE scanActive /\ ~driverScan
    BY <1>13, <2>1 DEF FinishPoll
  <2>2. CASE ~(scanActive /\ ~driverScan)
    BY <1>13, <2>2 DEF FinishPoll
  <2> QED
    BY <2>1, <2>2
<1>14. CASE ReadConnection
  BY <1>14 DEF ReadConnection
<1>15. CASE Judge
  BY <1>15 DEF Judge, JudgeConnecting, Settle, StillConnecting, LinkLost
<1>16. CASE TakeProfile
  BY <1>16 DEF TakeProfile
<1>17. CASE RunProfile
  BY <1>17 DEF RunProfile, QueueConnection
<1>18. CASE PublishProfile
  BY <1>18 DEF PublishProfile
<1>19. CASE TakeScan
  BY <1>19 DEF TakeScan
<1>20. CASE CallScan
  BY <1>20 DEF CallScan
<1>21. CASE TakeConnect
  BY <1>21 DEF TakeConnect
<1>22. CASE Join
  BY <1>22 DEF Join
<1>23. CASE UNCHANGED vars
  BY <1>23
<1> QED
  BY <1>1, <1>2, <1>3, <1>4, <1>5, <1>6, <1>7, <1>8, <1>9, <1>10, <1>11,
     <1>12, <1>13, <1>14, <1>15, <1>16, <1>17, <1>18, <1>19, <1>20, <1>21,
     <1>22, <1>23
     DEF Next, Requests, Connects, Pico, Core0, Deadlines, Driver

\* The initial states satisfy IInv.
LEMMA InitInv == Init => IInv
<1> SUFFICES ASSUME Init PROVE IInv
  OBVIOUS
<1>1. FlagsTyped /\ ScanInv
  BY DEF Init, FlagsTyped, ScanInv
<1>2. ValuesTyped
  BY DEF Init, ValuesTyped, Idle, InitStates, ScanStates, ConnStates,
         ProfileStates, Operations, Places, Core0Places, LinkFailures, LinkStatus
<1>3. StageInv /\ LoadedInv
  BY DEF Init, StageInv, LoadedInv
<1> QED
  BY <1>1, <1>2, <1>3 DEF IInv

\* Each step preserves it.
LEMMA NextInv == IInv /\ [Next]_vars => IInv'
  BY FlagsStep, ValuesStep, StageStep, LoadedStep, ScanStep DEF IInv

\* IInv holds in every state that Spec reaches.
LEMMA InvHolds == Spec => []IInv
  BY InitInv, NextInv, PTL DEF Spec

\* Every variable keeps the values of its enumeration.
THEOREM TypeCorrect == Spec => []TypeOK
<1>1. IInv => TypeOK
  BY DEF IInv, FlagsTyped, ValuesTyped, TypeOK
<1> QED
  BY <1>1, InvHolds, PTL

\* A bring-up that wifi_check_deadlines or wifi_radio_main declared failed stays
\* failed, and nothing is asked of it any more.
THEOREM FailedIsFinalHolds == Spec => FailedIsFinal
<1>1. IInv /\ IInv' /\ [Next]_vars =>
        [ initState = "FAILED" =>
            /\ initState' = "FAILED"
            /\ connState' = "CONNECTION_FAILED"
            /\ ~connectRequested' /\ ~scanRequested' ]_vars
  <2> SUFFICES ASSUME IInv, IInv', [Next]_vars, initState = "FAILED"
               PROVE  initState' = "FAILED"
    BY DEF IInv, StageInv
  <2>1. pc0 # "bringup" => pc0 = "halted"
    BY DEF IInv, StageInv
  <2>2. CASE BringUp
    BY <2>2 DEF BringUp, DeclareFailed
  <2>3. CASE ~BringUp
    BY <2>1, <2>3
       DEF Next, Requests, Connects, Pico, Core0, Deadlines, Driver, ScanStart, WifiConnect,
           ProfileConnect, ProfileSave, ProfileDelete, InitDeadline, ScanDeadline,
           ScanResult, DriverScanEnds, LinkChanges, ConnectDeadline, FinishPoll,
           ReadConnection, Judge, TakeProfile, RunProfile, PublishProfile, TakeScan,
           CallScan, TakeConnect, Join, vars, initVars
  <2> QED
    BY <2>2, <2>3
<1> QED
  BY <1>1, InvHolds, PTL DEF Spec, FailedIsFinal

\* When WIFI_PROFILE_STATUS stops saying "busy" after wifi_profile_service
\* loaded a profile, WIFI_STATUS already says "connecting".
THEOREM ProfileConnectVisibleHolds == Spec => ProfileConnectVisible
<1>1. IInv => [ pc0 = "publish" /\ taken.op = "CONNECT" /\ taken.ssid # NoNetwork
                  /\ profileState' # profileState => connState = "CONNECTING" ]_vars
  BY DEF IInv, LoadedInv
<1> QED
  BY <1>1, InvHolds, PTL DEF ProfileConnectVisible

\* wifi_service reports a scan complete only when core 0 has begun it.
THEOREM CompleteIsThisScanHolds == Spec => CompleteIsThisScan
<1>1. IInv /\ [Next]_vars =>
        [ scanState' = "COMPLETE" /\ scanState # "COMPLETE" =>
            ~scanRequested \/ overran ]_vars
  <2> SUFFICES ASSUME IInv, [Next]_vars, scanState' = "COMPLETE",
                      scanState # "COMPLETE"
               PROVE  ~scanRequested \/ overran
    OBVIOUS
  <2>1. FinishPoll
    BY DEF Next, Requests, Connects, Pico, Core0, Deadlines, Driver, ScanStart, WifiConnect,
           ProfileConnect, ProfileSave, ProfileDelete, InitDeadline, ScanDeadline,
           ScanResult, DriverScanEnds, LinkChanges, ConnectDeadline, BringUp,
           ReadConnection, Judge, TakeProfile, RunProfile, PublishProfile, TakeScan,
           CallScan, TakeConnect, Join, vars, scanVars
  <2> QED
    BY <2>1 DEF FinishPoll, IInv, ScanInv
<1> QED
  BY <1>1, InvHolds, PTL DEF Spec, CompleteIsThisScan

-----------------------------------------------------------------------------
\* During bring-up there is no network to connect to, and so no password.
PasswordInv ==
  /\ PasswordWiped
  /\ pc0 \in {"bringup", "halted"} => ~password /\ results = {}

\* Each step preserves it.
LEMMA PasswordStep ==
  ASSUME FlagsTyped, StageInv, PasswordInv, [Next]_vars
  PROVE  PasswordInv'
<1> USE DEF FlagsTyped, StageInv, PasswordInv, PasswordWiped, vars, initVars,
            scanVars, connVars, profileVars, core0Vars, driverVars, history,
            Core1Only
<1>1. CASE ScanStart
  BY <1>1 DEF ScanStart
<1>2. ASSUME NEW n \in Networks, WifiConnect(n) PROVE PasswordInv'
  BY <1>2 DEF WifiConnect, QueueConnection
<1>3. CASE ProfileConnect
  BY <1>3 DEF ProfileConnect
<1>4. CASE ProfileSave
  BY <1>4 DEF ProfileSave
<1>5. CASE ProfileDelete
  BY <1>5 DEF ProfileDelete
<1>6. CASE InitDeadline
  BY <1>6 DEF InitDeadline, DeclareFailed
<1>7. CASE ScanDeadline
  BY <1>7 DEF ScanDeadline
<1>8. ASSUME NEW n \in InReach, ScanResult(n) PROVE PasswordInv'
  BY <1>8 DEF ScanResult
<1>9. CASE DriverScanEnds
  BY <1>9 DEF DriverScanEnds
<1>10. CASE LinkChanges
  BY <1>10 DEF LinkChanges
<1>11. CASE ConnectDeadline
  BY <1>11 DEF ConnectDeadline
<1>12. CASE BringUp
  BY <1>12 DEF BringUp, DeclareFailed
<1>13. CASE FinishPoll
  BY <1>13 DEF FinishPoll
<1>14. CASE ReadConnection
  BY <1>14 DEF ReadConnection
<1>15. CASE Judge
  BY <1>15 DEF Judge, JudgeConnecting, Settle, StillConnecting, LinkLost
<1>16. CASE TakeProfile
  BY <1>16 DEF TakeProfile
<1>17. CASE RunProfile
  BY <1>17 DEF RunProfile, QueueConnection
<1>18. CASE PublishProfile
  BY <1>18 DEF PublishProfile
<1>19. CASE TakeScan
  BY <1>19 DEF TakeScan
<1>20. CASE CallScan
  BY <1>20 DEF CallScan
<1>21. CASE TakeConnect
  BY <1>21 DEF TakeConnect
<1>22. CASE Join
  BY <1>22 DEF Join
<1>23. CASE UNCHANGED vars
  BY <1>23
<1> QED
  BY <1>1, <1>2, <1>3, <1>4, <1>5, <1>6, <1>7, <1>8, <1>9, <1>10, <1>11,
     <1>12, <1>13, <1>14, <1>15, <1>16, <1>17, <1>18, <1>19, <1>20, <1>21,
     <1>22, <1>23
     DEF Next, Requests, Connects, Pico, Core0, Deadlines, Driver

\* wifi_password is not left behind when wifi_start_requested_connection has
\* taken it, nor when bring-up fails.
THEOREM PasswordWipedHolds == Spec => []PasswordWiped
<1>1. Init => PasswordInv
  BY DEF Init, PasswordInv, PasswordWiped
<1>2. IInv /\ PasswordInv /\ [Next]_vars => PasswordInv'
  BY PasswordStep DEF IInv
<1>3. PasswordInv => PasswordWiped
  BY DEF PasswordInv
<1> QED
  BY <1>1, <1>2, <1>3, InvHolds, PTL DEF Spec

-----------------------------------------------------------------------------
(***************************************************************************)
(* As long as no connection overlapped another, what wifi_ssid holds is    *)
(* what the radio was told.                                                *)
(***************************************************************************)

\* While a connection is queued the radio is not joining, and while the radio
\* is joining or joined, wifi_ssid still is the network it was told to join.
NotOverlapped ==
  /\ connectRequested \/ pc0 = "join" => connState = "CONNECTING" /\ ~connActive
  /\ pc0 = "join" => taken.ssid = wifiSsid /\ ~connectRequested
  /\ connState = "CONNECTED" => connActive
  /\ connActive => connState \in {"CONNECTING", "CONNECTED"} /\ radioNet = wifiSsid

JoinInv ==
  /\ pc0 \in {"bringup", "halted"} => ~connActive
  /\ ~overlapped => NotOverlapped

\* Each step preserves it.
LEMMA JoinStep ==
  ASSUME FlagsTyped, ValuesTyped, StageInv, JoinInv, [Next]_vars
  PROVE  JoinInv'
<1> USE DEF FlagsTyped, ValuesTyped, StageInv, JoinInv, NotOverlapped, Idle, vars,
            initVars, scanVars, connVars, profileVars, core0Vars, driverVars,
            history, Core1Only
<1>1. CASE ScanStart
  BY <1>1 DEF ScanStart
<1>2. ASSUME NEW n \in Networks, WifiConnect(n) PROVE JoinInv'
  BY <1>2 DEF WifiConnect, QueueConnection
<1>3. CASE ProfileConnect
  BY <1>3 DEF ProfileConnect
<1>4. CASE ProfileSave
  BY <1>4 DEF ProfileSave
<1>5. CASE ProfileDelete
  BY <1>5 DEF ProfileDelete
<1>6. CASE InitDeadline
  BY <1>6 DEF InitDeadline, DeclareFailed
<1>7. CASE ScanDeadline
  BY <1>7 DEF ScanDeadline
<1>8. ASSUME NEW n \in InReach, ScanResult(n) PROVE JoinInv'
  BY <1>8 DEF ScanResult
<1>9. CASE DriverScanEnds
  BY <1>9 DEF DriverScanEnds
<1>10. CASE LinkChanges
  BY <1>10 DEF LinkChanges
<1>11. CASE ConnectDeadline
  BY <1>11 DEF ConnectDeadline
<1>12. CASE BringUp
  BY <1>12 DEF BringUp, DeclareFailed
<1>13. CASE FinishPoll
  BY <1>13 DEF FinishPoll
<1>14. CASE ReadConnection
  BY <1>14 DEF ReadConnection
<1>15. CASE Judge
  BY <1>15 DEF Judge, JudgeConnecting, Settle, StillConnecting, LinkLost
<1>16. CASE TakeProfile
  BY <1>16 DEF TakeProfile
<1>17. CASE RunProfile
  BY <1>17 DEF RunProfile, QueueConnection
<1>18. CASE PublishProfile
  BY <1>18 DEF PublishProfile
<1>19. CASE TakeScan
  BY <1>19 DEF TakeScan
<1>20. CASE CallScan
  BY <1>20 DEF CallScan
<1>21. CASE TakeConnect
  BY <1>21 DEF TakeConnect
<1>22. CASE Join
  BY <1>22 DEF Join
<1>23. CASE UNCHANGED vars
  BY <1>23
<1> QED
  BY <1>1, <1>2, <1>3, <1>4, <1>5, <1>6, <1>7, <1>8, <1>9, <1>10, <1>11,
     <1>12, <1>13, <1>14, <1>15, <1>16, <1>17, <1>18, <1>19, <1>20, <1>21,
     <1>22, <1>23
     DEF Next, Requests, Connects, Pico, Core0, Deadlines, Driver

\* JoinInv holds in every state that Spec reaches.
LEMMA JoinHolds == Spec => []JoinInv
<1>1. Init => JoinInv
  BY DEF Init, JoinInv, NotOverlapped, Idle
<1>2. IInv /\ JoinInv /\ [Next]_vars => JoinInv'
  BY JoinStep DEF IInv
<1> QED
  BY <1>1, <1>2, InvHolds, PTL DEF Spec

\* What wifi_service publishes of a connection attempt that is over does not
\* overwrite the "connecting" of the next one, queued meanwhile by core 1.
THEOREM QueuedIsPendingHolds == Spec => []QueuedIsPending
<1>1. JoinInv => QueuedIsPending
  BY DEF JoinInv, NotOverlapped, QueuedIsPending
<1> QED
  BY <1>1, JoinHolds, PTL

\* wifi_ssid, which pico_wifi_profile_save copies, has not been overwritten
\* since the radio was told to join, even if the link comes and goes, unless a
\* connection was asked for while another was being made or stood.
THEOREM SavesJoinedNetworkHolds == Spec => SavesJoinedNetwork
<1>1. JoinInv /\ [Next]_vars =>
        [ profileOp' = "SAVE" /\ profileOp # "SAVE" =>
            profileSsid' = radioNet \/ overlapped ]_vars
  <2> SUFFICES ASSUME JoinInv, [Next]_vars, profileOp' = "SAVE",
                      profileOp # "SAVE", ~overlapped
               PROVE  profileSsid' = radioNet
    OBVIOUS
  <2>1. ProfileSave
    BY DEF Next, Requests, Connects, Pico, Core0, Deadlines, Driver, ScanStart,
           WifiConnect, ProfileConnect, ProfileDelete, InitDeadline, ScanDeadline,
           ScanResult, DriverScanEnds, LinkChanges, ConnectDeadline, BringUp,
           FinishPoll, ReadConnection, Judge, TakeProfile, RunProfile,
           PublishProfile, TakeScan, CallScan, TakeConnect, Join, vars, profileVars,
           Core1Only
  <2> QED
    BY <2>1 DEF ProfileSave, JoinInv, NotOverlapped
<1> QED
  BY <1>1, JoinHolds, PTL DEF Spec, SavesJoinedNetwork

-----------------------------------------------------------------------------
\* The program of src/wifi.c is one of the hosts that Spec allows: whatever was
\* proved for any host holds with the cartridge, its lost requests and its
\* polls given up included.
THEOREM CartridgeIsAHost == CartridgeSpec => Spec
<1>1. CartridgeInit => Init
  BY DEF CartridgeInit
<1>2. Init => IInv
  BY InitInv
<1>3. IInv /\ [Next]_vars => IInv'
  BY NextInv
<1>4. IInv /\ [CartridgeNext]_allVars => [Next]_vars
  <2> SUFFICES ASSUME IInv, [CartridgeNext]_allVars PROVE [Next]_vars
    OBVIOUS
  <2> USE DEF Request
  <2>1. CASE UNCHANGED allVars
    BY <2>1 DEF allVars
  <2>2. CASE Pico
    BY <2>2 DEF Next
  <2>3. CASE TryProfile
    BY <2>3 DEF TryProfile, Next, Requests, Connects
  <2>4. CASE PollLoading \/ PollStoredConnection \/ PollDeleting \/ PollScan
               \/ PollChosenConnection \/ PollSaving
    BY <2>4 DEF PollLoading, PollStoredConnection, PollDeleting, PollScan,
                PollChosenConnection, PollSaving, PollProfile, PollConnection
  <2>5. CASE ProfileFailed
    BY <2>5 DEF ProfileFailed, Next, Requests
  <2>6. CASE StartScan
    BY <2>6 DEF StartScan, Next, Requests
  <2>7. CASE Choose \/ Reconfigure
    BY <2>7 DEF Choose, Reconfigure
  <2>8. CASE ConnectSelected
    <3>1. chosen \in results => chosen \in Networks
      BY DEF IInv, ValuesTyped
    <3>2. WifiConnect(chosen) => \E n \in Networks : WifiConnect(n)
      BY <3>1 DEF WifiConnect
    <3> QED
      BY <2>8, <3>2 DEF ConnectSelected, Next, Requests, Connects
  <2>9. CASE OfferSave
    BY <2>9 DEF OfferSave, Next, Requests
  <2> QED
    BY <2>1, <2>2, <2>3, <2>4, <2>5, <2>6, <2>7, <2>8, <2>9
       DEF CartridgeNext, Cartridge
<1> QED
  BY <1>1, <1>2, <1>3, <1>4, PTL DEF CartridgeSpec, Spec
=============================================================================
