------------------------------ MODULE PicoWifi ------------------------------
(***************************************************************************)
(* The radio of the Pico firmware (firmware/src/main.c): bring-up, scan,   *)
(* connection and stored profile, shared by two cores.  Core 1 answers the *)
(* cartridge's requests and enforces deadlines, one section of wifi_mutex  *)
(* per handler; core 0 runs the radio loop, and pc0 says before which of   *)
(* its sections of wifi_mutex it is.  What core 0 read in one section may  *)
(* be out of date in the next.                                             *)
(*                                                                         *)
(* The CYW43 driver is external: link is the status it reports, radioNet   *)
(* the network it was told to join.  Its callbacks run inside              *)
(* cyw43_arch_poll only.  A network stands for its SSID, authentication    *)
(* mode and password; a request with an index or password that the         *)
(* firmware rejects has no effect and is left out, and so are the results' *)
(* signal strengths and the WIFI_UP pin.  A variable the code writes before *)
(* it reads it again holds a fixed value meanwhile.                        *)
(***************************************************************************)
EXTENDS Integers, FiniteSets

CONSTANTS
  Networks,    \* the networks in reach or stored
  InReach,     \* those that may answer a scan
  NoNetwork    \* no network

ASSUME NetworksAssumption ==
  Networks # {} /\ InReach \subseteq Networks /\ NoNetwork \notin Networks

InitStates    == {"STARTING", "READY", "FAILED"}
ScanStates    == {"IDLE", "RUNNING", "COMPLETE", "FAILED"}
ConnStates    == {"DISCONNECTED", "CONNECTING", "CONNECTED", "NO_NETWORK",
                  "BAD_AUTH", "CONNECTION_FAILED"}
ProfileStates == {"ABSENT", "READY", "BUSY"}
Operations    == {"NONE", "CONNECT", "SAVE", "DELETE"}
LinkFailures  == {"NONET", "BADAUTH", "FAIL"}
LinkStatus    == {"DOWN", "JOIN", "UP"} \cup LinkFailures
Core0Places   == {"bringup", "poll", "link", "judge", "profile", "flash",
                  "publish", "scan", "scan_call", "connect", "join", "halted"}

VARIABLES
  \* Shared by the cores, under wifi_mutex
  initState,        \* wifi_init_state
  scanState,        \* wifi_scan_state
  results,          \* SSIDs in wifi_results
  scanRequested,    \* wifi_scan_requested
  connState,        \* wifi_connection_state
  connectRequested, \* wifi_connect_requested
  wifiSsid,         \* wifi_ssid and wifi_connect_auth
  password,         \* wifi_password holds a password
  profileState,     \* stored_profile_state
  profileOp,        \* stored_profile_operation
  profileSsid,      \* stored_profile_ssid and _auth
  \* Core 0's own
  pc0,              \* its place in wifi_radio_main
  seen,             \* connection_state as wifi_service read it
  taken,            \* the operation and SSID taken in hand
  scanActive,       \* wifi_scan_active
  connActive,       \* wifi_connection_active
  connectLate,      \* wifi_connect_deadline has passed
  pendingFailure,   \* wifi_pending_failure_status, "NONE" for 0
  \* Outside
  driverScan,       \* the driver is scanning
  link,             \* cyw43_tcpip_link_status
  radioNet,         \* network the driver was told to join
  flash,            \* SSID of the profile in flash
  \* History
  overran,          \* a scan timed out after core 0 had taken it
  overlapped        \* a connection was queued before the last one was over

initVars    == <<initState>>
scanVars    == <<scanState, results, scanRequested>>
connVars    == <<connState, connectRequested, wifiSsid, password>>
profileVars == <<profileState, profileOp, profileSsid>>
core0Vars   == <<seen, taken, scanActive, connActive, connectLate, pendingFailure>>
driverVars  == <<driverScan, link, radioNet>>
history     == <<overran, overlapped>>
vars == <<initVars, scanVars, connVars, profileVars, pc0, core0Vars, driverVars,
          flash, history>>

Idle == [op |-> "NONE", ssid |-> NoNetwork]

-----------------------------------------------------------------------------
(***************************************************************************)
(* Core 1: the request handlers and the deadlines.                         *)
(***************************************************************************)
Core1Only == UNCHANGED <<pc0, core0Vars, driverVars, flash, history>>

\* Both ways bring-up is declared failed withdraw every request.
DeclareFailed ==
  /\ initState' = "FAILED"
  /\ connState' = "CONNECTION_FAILED"
  /\ scanRequested' = FALSE
  /\ connectRequested' = FALSE

\* (mutant) The connection is queued, but not yet announced.
QueueQuietly(n) ==
  /\ wifiSsid' = n
  /\ password' = TRUE
  /\ connectRequested' = TRUE
  /\ overlapped' = (overlapped \/ connState \in {"CONNECTING", "CONNECTED"})
  /\ UNCHANGED <<connState, overran>>

\* A connection queued for core 0, by a request or with the stored profile.
QueueConnection(n) ==
  /\ wifiSsid' = n
  /\ password' = TRUE
  /\ connState' = "CONNECTING"
  /\ connectRequested' = TRUE
  /\ overlapped' = (overlapped \/ connState \in {"CONNECTING", "CONNECTED"})
  /\ UNCHANGED overran

ScanStart ==
  /\ initState # "FAILED"
  /\ scanState # "RUNNING"
  /\ results' = {}
  /\ scanState' = "RUNNING"
  /\ scanRequested' = TRUE
  /\ UNCHANGED <<initVars, connVars, profileVars>>
  /\ Core1Only

WifiConnect(n) ==
  /\ initState # "FAILED"
  /\ scanState = "COMPLETE"
  /\ n \in results
  /\ QueueConnection(n)
  /\ UNCHANGED <<initVars, scanVars, profileVars, pc0, core0Vars, driverVars,
                 flash>>

\* Without effect when already connected, save for clearing the last error.
ProfileConnect ==
  /\ profileState = "READY" /\ profileOp = "NONE"
  /\ connState # "CONNECTED"
  /\ profileState' = "BUSY"
  /\ profileOp' = "CONNECT"
  /\ UNCHANGED <<initVars, scanVars, connVars, profileSsid>>
  /\ Core1Only

\* (mutant) Saves without asking whether the radio is connected.
SaveUnconnected ==
  /\ profileState # "BUSY" /\ profileOp = "NONE"
  /\ profileSsid' = wifiSsid
  /\ profileState' = "BUSY"
  /\ profileOp' = "SAVE"
  /\ UNCHANGED <<initVars, scanVars, connVars>>
  /\ Core1Only

ProfileSave ==
  /\ profileState # "BUSY" /\ profileOp = "NONE"
  /\ connState = "CONNECTED"
  /\ profileSsid' = wifiSsid
  /\ profileState' = "BUSY"
  /\ profileOp' = "SAVE"
  /\ UNCHANGED <<initVars, scanVars, connVars>>
  /\ Core1Only

ProfileDelete ==
  /\ profileState # "BUSY" /\ profileOp = "NONE"
  /\ profileState' = "BUSY"
  /\ profileOp' = "DELETE"
  /\ UNCHANGED <<initVars, scanVars, connVars, profileSsid>>
  /\ Core1Only

\* wifi_check_deadlines, its first branch: bring-up takes too long.
InitDeadline ==
  /\ initState = "STARTING"
  /\ DeclareFailed
  /\ scanState' = IF scanState = "RUNNING" THEN "FAILED" ELSE scanState
  /\ UNCHANGED <<results, wifiSsid, password, profileVars>>
  /\ Core1Only

\* (mutant) Only a scan still queued is given a deadline.
DeadlineWhileQueued ==
  /\ scanState = "RUNNING"
  /\ scanRequested
  /\ scanState' = "FAILED"
  /\ scanRequested' = FALSE
  /\ UNCHANGED <<initVars, results, connVars, profileVars>>
  /\ Core1Only

\* Its second branch: a scan, queued or begun, takes too long.
ScanDeadline ==
  /\ scanState = "RUNNING"
  /\ scanState' = "FAILED"
  /\ scanRequested' = FALSE
  /\ overran' = (overran \/ ~scanRequested)
  /\ UNCHANGED <<initVars, results, connVars, profileVars, pc0, core0Vars,
                 driverVars, flash, overlapped>>

-----------------------------------------------------------------------------
(***************************************************************************)
(* The driver, inside cyw43_arch_poll.                                     *)
(***************************************************************************)

\* wifi_scan_callback.
ScanResult(n) ==
  /\ pc0 = "poll" /\ driverScan
  /\ scanState = "RUNNING"
  /\ results' = results \cup {n}
  /\ UNCHANGED <<initVars, scanState, scanRequested, connVars, profileVars, pc0,
                 core0Vars, driverVars, flash, history>>

DriverScanEnds ==
  /\ pc0 = "poll" /\ driverScan
  /\ driverScan' = FALSE
  /\ UNCHANGED <<initVars, scanVars, connVars, profileVars, pc0, core0Vars,
                 link, radioNet, flash, history>>

LinkChanges ==
  /\ pc0 = "poll" /\ radioNet # NoNetwork
  /\ link' \in LinkStatus \ {link}
  /\ UNCHANGED <<initVars, scanVars, connVars, profileVars, pc0, core0Vars,
                 driverScan, radioNet, flash, history>>

\* The clock reaches wifi_connect_deadline.
ConnectDeadline ==
  /\ connActive /\ ~connectLate
  /\ connectLate' = TRUE
  /\ UNCHANGED <<initVars, scanVars, connVars, profileVars, pc0, seen, taken,
                 scanActive, connActive, pendingFailure, driverVars, flash, history>>

-----------------------------------------------------------------------------
(***************************************************************************)
(* Core 0: wifi_radio_main, one action from one section to the next.       *)
(***************************************************************************)

\* (mutant) A late success revives a bring-up declared failed.
BringUpLate ==
  /\ pc0 = "bringup"
  /\ \/ /\ initState' = "READY"
        /\ pc0' = "poll"
        /\ UNCHANGED <<scanVars, connState, connectRequested>>
     \/ /\ DeclareFailed
        /\ scanState' = "FAILED"
        /\ pc0' = "halted"
        /\ UNCHANGED results
  /\ UNCHANGED <<wifiSsid, password, profileVars, core0Vars, driverVars, flash,
                 history>>

\* Bring-up ends; a success after the deadline has passed is ignored.
BringUp ==
  /\ pc0 = "bringup"
  /\ \/ /\ initState # "FAILED"
        /\ initState' = "READY"
        /\ pc0' = "poll"
        /\ UNCHANGED <<scanVars, connState, connectRequested>>
     \/ /\ DeclareFailed
        /\ scanState' = "FAILED"
        /\ pc0' = "halted"
        /\ UNCHANGED results
  /\ UNCHANGED <<wifiSsid, password, profileVars, core0Vars, driverVars, flash,
                 history>>

\* (mutant) The driver's scan alone tells that the scan is over.
FinishIfDriverIdle ==
  /\ pc0 = "poll"
  /\ pc0' = "link"
  /\ scanState' = IF ~driverScan /\ scanState = "RUNNING" THEN "COMPLETE"
                                                          ELSE scanState
  /\ scanActive' = (scanActive /\ driverScan)
  /\ UNCHANGED <<initVars, results, scanRequested, connVars, profileVars, seen,
                 taken, connActive, connectLate, pendingFailure, driverVars,
                 flash, history>>

\* wifi_service after the poll: the scan is over.
FinishPoll ==
  /\ pc0 = "poll"
  /\ pc0' = "link"
  /\ LET over == scanActive /\ ~driverScan
     IN  /\ scanState' = IF over /\ scanState = "RUNNING" THEN "COMPLETE"
                                                         ELSE scanState
         /\ scanActive' = (scanActive /\ ~over)
  /\ UNCHANGED <<initVars, results, scanRequested, connVars, profileVars, seen,
                 taken, connActive, connectLate, pendingFailure, driverVars,
                 flash, history>>

ReadConnection ==
  /\ pc0 = "link"
  /\ pc0' = "judge"
  /\ seen' = connState
  /\ UNCHANGED <<initVars, scanVars, connVars, profileVars, taken, scanActive,
                 connActive, connectLate, pendingFailure, driverVars, flash, history>>

\* (mutant) A failed attempt goes on being judged.
SettleStaysActive(state) ==
  /\ connState' = state
  /\ connActive' = TRUE
  /\ pendingFailure' = "NONE"
  /\ connectLate' = FALSE
  /\ IF state = "CONNECTED"
       THEN UNCHANGED <<link, radioNet>>
       ELSE link' = "DOWN" /\ radioNet' = NoNetwork

\* The connection attempt ended: publish it, and leave a network not joined.
Settle(state) ==
  /\ connState' = state
  /\ connActive' = (state = "CONNECTED")
  /\ pendingFailure' = "NONE"
  /\ connectLate' = FALSE
  /\ IF state = "CONNECTED"
       THEN UNCHANGED <<link, radioNet>>
       ELSE link' = "DOWN" /\ radioNet' = NoNetwork

StillConnecting(pending) ==
  /\ pendingFailure' = pending
  /\ UNCHANGED <<connState, connActive, connectLate, link, radioNet>>

FailureState(status) ==
  CASE status = "NONET"   -> "NO_NETWORK"
    [] status = "BADAUTH" -> "BAD_AUTH"
    [] OTHER              -> "CONNECTION_FAILED"

\* (mutant) The attempt has no deadline of its own.
JudgeUntimed ==
  \/ link = "UP" /\ Settle("CONNECTED")
  \/ /\ link \in LinkFailures
     /\ \/ pendingFailure # link /\ StillConnecting(link)
        \/ pendingFailure = link /\ StillConnecting(link)
        \/ pendingFailure = link /\ Settle(FailureState(link))
  \/ /\ link \notin LinkFailures \cup {"UP"}
     /\ StillConnecting("NONE")

\* A failure is final only when the driver reports it for WIFI_FAILURE_CONFIRM_MS.
JudgeConnecting ==
  \/ link = "UP" /\ Settle("CONNECTED")
  \/ link # "UP" /\ connectLate /\ Settle("CONNECTION_FAILED")
  \/ /\ link \in LinkFailures /\ ~connectLate
     /\ \/ pendingFailure # link /\ StillConnecting(link)
        \/ pendingFailure = link /\ StillConnecting(link)
        \/ pendingFailure = link /\ Settle(FailureState(link))
  \/ /\ link \notin LinkFailures \cup {"UP"} /\ ~connectLate
     /\ StillConnecting("NONE")

LinkLost ==
  /\ connState' = "DISCONNECTED"
  /\ connActive' = FALSE
  /\ connectLate' = FALSE
  /\ UNCHANGED <<pendingFailure, link, radioNet>>

Judge ==
  /\ pc0 = "judge"
  /\ pc0' = "profile"
  /\ seen' = "DISCONNECTED"
  /\ \/ connActive /\ seen = "CONNECTING" /\ JudgeConnecting
     \/ connActive /\ seen = "CONNECTED" /\ link # "UP" /\ LinkLost
     \/ /\ ~(connActive /\ seen = "CONNECTING")
        /\ ~(connActive /\ seen = "CONNECTED" /\ link # "UP")
        /\ UNCHANGED <<connState, connActive, connectLate, pendingFailure, link,
                       radioNet>>
  /\ UNCHANGED <<initVars, scanVars, connectRequested, wifiSsid, password,
                 profileVars, taken, scanActive, driverScan, flash, history>>

\* wifi_profile_service takes the queued operation.
TakeProfile ==
  /\ pc0 = "profile"
  /\ pc0' = IF profileOp = "NONE" THEN "scan" ELSE "flash"
  /\ taken' = [op |-> profileOp,
               ssid |-> IF profileOp = "SAVE" THEN profileSsid ELSE NoNetwork]
  /\ profileOp' = "NONE"
  /\ profileSsid' = NoNetwork
  /\ UNCHANGED <<initVars, scanVars, connVars, profileState, seen,
                 scanActive, connActive, connectLate, pendingFailure, driverVars,
                 flash, history>>

\* The operation on the flash sector; each may fail, and a failed one may have
\* erased the sector.  A loaded profile queues a connection.
RunProfile ==
  /\ pc0 = "flash"
  /\ pc0' = "publish"
  /\ \/ /\ taken.op = "CONNECT" /\ flash # NoNetwork
        /\ QueueConnection(flash)
        /\ taken' = [taken EXCEPT !.ssid = flash]
        /\ UNCHANGED flash
     \/ /\ \/ taken.op = "CONNECT" /\ UNCHANGED flash
           \/ taken.op = "SAVE" /\ flash' \in {taken.ssid, flash, NoNetwork}
           \/ taken.op = "DELETE" /\ flash' \in {flash, NoNetwork}
        /\ UNCHANGED <<connVars, taken, history>>
  /\ UNCHANGED <<initVars, scanVars, profileVars, seen, scanActive, connActive,
                 connectLate, pendingFailure, driverVars>>

\* (mutant) Nothing is published of an operation that left no profile.
PublishIfPresent ==
  /\ pc0 = "publish"
  /\ pc0' = "scan"
  /\ profileState' = IF flash # NoNetwork THEN "READY" ELSE profileState
  /\ taken' = Idle
  /\ UNCHANGED <<initVars, scanVars, connVars, profileOp, profileSsid, seen,
                 scanActive, connActive, connectLate, pendingFailure, driverVars,
                 flash, history>>

PublishProfile ==
  /\ pc0 = "publish"
  /\ pc0' = "scan"
  /\ profileState' = IF flash # NoNetwork THEN "READY" ELSE "ABSENT"
  /\ taken' = Idle
  /\ UNCHANGED <<initVars, scanVars, connVars, profileOp, profileSsid, seen,
                 scanActive, connActive, connectLate, pendingFailure, driverVars,
                 flash, history>>

\* wifi_start_requested_scan.
TakeScan ==
  /\ pc0 = "scan"
  /\ pc0' = IF scanRequested THEN "scan_call" ELSE "connect"
  /\ scanRequested' = FALSE
  /\ UNCHANGED <<initVars, scanState, results, connVars, profileVars, core0Vars,
                 driverVars, flash, history>>

CallScan ==
  /\ pc0 = "scan_call"
  /\ pc0' = "connect"
  /\ \/ /\ driverScan' = TRUE
        /\ scanActive' = TRUE
        /\ UNCHANGED scanState
     \/ /\ scanState' = "FAILED"
        /\ UNCHANGED <<driverScan, scanActive>>
  /\ UNCHANGED <<initVars, results, scanRequested, connVars, profileVars, seen,
                 taken, connActive, connectLate, pendingFailure, link, radioNet,
                 flash, history>>

\* (mutant) The shared password is left in place.
TakeKeepsPassword ==
  /\ pc0 = "connect"
  /\ pc0' = IF connectRequested THEN "join" ELSE "poll"
  /\ connectRequested' = FALSE
  /\ taken' = IF connectRequested THEN [Idle EXCEPT !.ssid = wifiSsid] ELSE Idle
  /\ UNCHANGED <<initVars, scanVars, connState, wifiSsid, password, profileVars,
                 seen, scanActive, connActive, connectLate, pendingFailure,
                 driverVars, flash, history>>

\* wifi_start_requested_connection.
TakeConnect ==
  /\ pc0 = "connect"
  /\ pc0' = IF connectRequested THEN "join" ELSE "poll"
  /\ connectRequested' = FALSE
  /\ taken' = IF connectRequested THEN [Idle EXCEPT !.ssid = wifiSsid] ELSE Idle
  /\ password' = (password /\ ~connectRequested)
  /\ UNCHANGED <<initVars, scanVars, connState, wifiSsid, profileVars, seen,
                 scanActive, connActive, connectLate, pendingFailure, driverVars,
                 flash, history>>

Join ==
  /\ pc0 = "join"
  /\ pc0' = "poll"
  /\ taken' = Idle
  /\ \/ /\ connActive' = TRUE
        /\ connectLate' = FALSE
        /\ pendingFailure' = "NONE"
        /\ link' \in {"JOIN", link}
        /\ radioNet' = taken.ssid
        /\ UNCHANGED connState
     \/ /\ connState' = "CONNECTION_FAILED"
        /\ UNCHANGED <<connActive, connectLate, pendingFailure, link, radioNet>>
  /\ UNCHANGED <<initVars, scanVars, connectRequested, wifiSsid, password,
                 profileVars, seen, scanActive, driverScan, flash, history>>

-----------------------------------------------------------------------------
\* mailbox_init to the launch of core 1; a profile may be in flash.
Init ==
  /\ initState = "STARTING"
  /\ scanState = "IDLE" /\ results = {} /\ scanRequested = FALSE
  /\ connState = "DISCONNECTED" /\ connectRequested = FALSE
  /\ wifiSsid = NoNetwork /\ password = FALSE
  /\ flash \in Networks \cup {NoNetwork}
  /\ profileState = IF flash # NoNetwork THEN "READY" ELSE "ABSENT"
  /\ profileOp = "NONE" /\ profileSsid = NoNetwork
  /\ pc0 = "bringup"
  /\ seen = "DISCONNECTED" /\ taken = Idle
  /\ scanActive = FALSE /\ connActive = FALSE
  /\ connectLate = FALSE /\ pendingFailure = "NONE"
  /\ driverScan = FALSE /\ link = "DOWN" /\ radioNet = NoNetwork
  /\ overran = FALSE /\ overlapped = FALSE

Core0 ==
  \/ FinishPoll \/ ReadConnection \/ Judge
  \/ TakeProfile \/ RunProfile \/ PublishProfile
  \/ TakeScan \/ CallScan \/ TakeConnect \/ Join

Deadlines == InitDeadline \/ ScanDeadline

Driver ==
  \/ \E n \in InReach : ScanResult(n)
  \/ DriverScanEnds \/ LinkChanges

Connects == ProfileConnect \/ \E n \in Networks : WifiConnect(n)

Requests == Connects \/ ScanStart \/ ProfileSave \/ ProfileDelete

Pico == Deadlines \/ ConnectDeadline \/ Driver \/ BringUp \/ Core0

Next == Requests \/ Pico

\* Any host: every request at any time.
Spec == Init /\ [][Next]_vars

(***************************************************************************)
(* Core 0 keeps looping once the radio is up, core 1 keeps checking the    *)
(* deadlines, and time passes.  Bring-up may block for ever.               *)
(***************************************************************************)
Fairness == WF_vars(Core0) /\ WF_vars(Deadlines) /\ WF_vars(ConnectDeadline)

FairSpec == Spec /\ Fairness

(***************************************************************************)
(* Properties.                                                             *)
(***************************************************************************)
Places == Networks \cup {NoNetwork}

\* Every variable keeps the values its enumeration in main.c allows.
TypeOK ==
  /\ initState \in InitStates /\ scanState \in ScanStates
  /\ results \subseteq Networks
  /\ {scanRequested, connectRequested, password} \subseteq BOOLEAN
  /\ connState \in ConnStates /\ seen \in ConnStates
  /\ profileState \in ProfileStates /\ profileOp \in Operations
  /\ {wifiSsid, profileSsid, radioNet, flash} \subseteq Places
  /\ pc0 \in Core0Places
  /\ taken \in [op : Operations, ssid : Places]
  /\ {scanActive, connActive, connectLate, driverScan, overran, overlapped}
       \subseteq BOOLEAN
  /\ pendingFailure \in LinkFailures \cup {"NONE"}
  /\ link \in LinkStatus

\* A bring-up declared failed stays failed, however late the radio comes up,
\* and then nothing is asked of it or reported from it.
FailedIsFinal ==
  [][ initState = "FAILED" =>
        /\ initState' = "FAILED"
        /\ connState' = "CONNECTION_FAILED"
        /\ ~connectRequested' /\ ~scanRequested' ]_vars

\* wifi_password holds a password only while a connection is queued.
PasswordWiped == password => connectRequested

\* A queued connection is told as "connecting" until core 0 has called the driver
\* for it: what wifi_service concludes, from a state read in an earlier section,
\* about an attempt that is over is not published over it.
QueuedIsPending ==
  connectRequested \/ pc0 = "join" => connState = "CONNECTING" \/ overlapped

\* When WIFI_PROFILE_STATUS stops saying "busy" after a profile was loaded,
\* WIFI_STATUS already says "connecting": the host cannot take the state from
\* before the request for its outcome.
ProfileConnectVisible ==
  [][ pc0 = "publish" /\ taken.op = "CONNECT" /\ taken.ssid # NoNetwork
        /\ profileState' # profileState => connState = "CONNECTING" ]_vars

\* A scan is reported complete only when core 0 has begun it, unless an
\* earlier one timed out after core 0 had taken it.
CompleteIsThisScan ==
  [][ scanState' = "COMPLETE" /\ scanState # "COMPLETE" =>
        ~scanRequested \/ overran ]_vars

\* A scan ends, even one queued while bring-up blocks core 0.
ScanSettles == []<>(scanState # "RUNNING")

\* A connection attempt ends, whatever the driver reports, unless the host asks
\* for another again and again.
ConnectSettles == []<>(connState # "CONNECTING") \/ []<><<Connects>>_vars

\* A profile operation ends, unless bring-up failed.
ProfileSettles ==
  []<>(profileState # "BUSY" \/ pc0 \in {"bringup", "halted"})

\* What a host polls for ends.
RequestsSettle == ScanSettles /\ ConnectSettles /\ ProfileSettles

\* WIFI_PROFILE_SAVE takes wifi_ssid for the network the radio is on.  Whatever
\* else is asked in whatever order, and whether the link comes and goes, it is,
\* as long as no connection was asked for while another was being made or stood.
SavesJoinedNetwork ==
  [][ profileOp' = "SAVE" /\ profileOp # "SAVE" =>
        profileSsid' = radioNet \/ overlapped ]_vars
=============================================================================
