----------------------------- MODULE WifiCartridge -----------------------------
(***************************************************************************)
(* PicoWifi with the one host it has in practice: the cartridge's program  *)
(* for choosing a network (src/wifi.c), as main calls it at power-up       *)
(* (wifi_startup) and the viewer later (wifi_reconfigure).                 *)
(*                                                                         *)
(* Requests go over a link that may fail: p2wp_request may give up on one  *)
(* that was executed, and any poll may give up on a request that failed or *)
(* because it has tried often enough.  A request that is executed only     *)
(* after p2wp_request gave it up is left out, and so are screens, keys     *)
(* that have no effect, and the details of a scan result.                  *)
(***************************************************************************)
EXTENDS PicoWifi

CartridgePlaces == {"profile", "loading", "profile_connecting",
                    "profile_failed", "deleting", "scan", "scanning", "choose",
                    "connect", "connecting", "save", "saving", "viewer", "halted"}

MaxAttempts == 3

VARIABLES
  cart,     \* where the program is
  viewing,  \* it was called by the viewer
  chosen,   \* the network in hand
  attempt,  \* of connect_selected
  address   \* history: the network the link that is up was made with

cartridgeVars == <<cart, viewing, chosen, attempt>>
allVars == <<vars, cartridgeVars, address>>

\* wifi_startup and wifi_reconfigure return: main halts without a connection,
\* the viewer goes on.
Return(connected) ==
  /\ cart' = IF connected \/ viewing THEN "viewer" ELSE "halted"
  /\ viewing' = (viewing \/ connected)
  /\ UNCHANGED <<chosen, attempt>>

Go(place) == cart' = place /\ UNCHANGED <<viewing, chosen, attempt>>

\* request_ok: the request is carried out and its answer arrives; it is carried
\* out, but its answer is lost; or it is refused or does not get through.
Request(R, Accepted, Otherwise) ==
  \/ R /\ (Accepted \/ Otherwise)
  \/ UNCHANGED vars /\ Otherwise

\* poll_connection.
PollConnection(Connected, Otherwise) ==
  /\ UNCHANGED vars
  /\ \/ initState # "FAILED" /\ connState = "CONNECTED" /\ Connected
     \/ Otherwise

\* poll_profile; the error code beside "ready" is any.
PollProfile(Done, Otherwise) ==
  /\ UNCHANGED vars
  /\ \/ profileState = "READY" /\ Done
     \/ Otherwise

-----------------------------------------------------------------------------
\* try_profile: there is none that can be used, or its connection is asked for.
TryProfile ==
  /\ cart = "profile"
  /\ \/ UNCHANGED vars /\ Go("scan")
     \/ /\ profileState = "READY"
        /\ Request(ProfileConnect, Go("loading"), Go("profile_failed"))
     \/ /\ profileState = "READY" /\ profileOp = "NONE" /\ connState = "CONNECTED"
        /\ UNCHANGED vars /\ Go("loading")

PollLoading ==
  /\ cart = "loading"
  /\ PollProfile(Go("profile_connecting"), Go("profile_failed"))

PollStoredConnection ==
  /\ cart = "profile_connecting"
  /\ PollConnection(Return(TRUE), Go("profile_failed"))

\* Keys O, N and V of wifi_startup.
ProfileFailed ==
  /\ cart = "profile_failed"
  /\ \/ UNCHANGED vars /\ (Go("profile") \/ Go("scan"))
     \/ Request(ProfileDelete, Go("deleting"), Go("deleting"))

PollDeleting == cart = "deleting" /\ PollProfile(Go("scan"), Go("scan"))

-----------------------------------------------------------------------------
\* scan_networks.
StartScan ==
  /\ cart = "scan"
  /\ Request(ScanStart, Go("scanning"), Return(FALSE))

PollScan ==
  /\ cart = "scanning"
  /\ UNCHANGED vars
  /\ \/ scanState = "COMPLETE" /\ results # {} /\ Go("choose")
     \/ Return(FALSE)

\* choose_network and read_password: a network to connect to, or STOP.
Choose ==
  /\ cart = "choose"
  /\ UNCHANGED vars
  /\ \/ /\ chosen' \in results /\ attempt' = 1
        /\ cart' = "connect"
        /\ UNCHANGED viewing
     \/ Return(FALSE)

\* The next round of the loop of connect_selected.
NextAttempt ==
  IF attempt = MaxAttempts
    THEN Return(FALSE)
    ELSE cart' = "connect" /\ attempt' = attempt + 1 /\ UNCHANGED <<viewing, chosen>>

ConnectSelected ==
  /\ cart = "connect"
  /\ Request(WifiConnect(chosen), Go("connecting"), NextAttempt)

PollChosenConnection ==
  /\ cart = "connecting"
  /\ PollConnection(Go("save"), NextAttempt)

\* offer_save.  Who is asked takes longer to answer than core 0 to take up the
\* connection that was asked for.
OfferSave ==
  /\ cart = "save"
  /\ ~connectRequested /\ pc0 # "join"
  /\ \/ Request(ProfileSave, Go("saving"), Return(TRUE))
     \/ UNCHANGED vars /\ Return(TRUE)

PollSaving == cart = "saving" /\ PollProfile(Return(TRUE), Return(TRUE))

\* wifi_reconfigure, for which the viewer waits: connected or not.
Reconfigure == cart = "viewer" /\ UNCHANGED vars /\ Go("scan")

-----------------------------------------------------------------------------
CartridgeInit ==
  /\ Init
  /\ cart = "profile" /\ viewing = FALSE /\ chosen = NoNetwork /\ attempt = 1
  /\ address = NoNetwork

Cartridge ==
  \/ TryProfile \/ PollLoading \/ PollStoredConnection
  \/ ProfileFailed \/ PollDeleting
  \/ StartScan \/ PollScan \/ Choose \/ ConnectSelected \/ PollChosenConnection
  \/ OfferSave \/ PollSaving \/ Reconfigure

CartridgeNext ==
  /\ Cartridge \/ (Pico /\ UNCHANGED cartridgeVars)
  /\ address' = CASE link' # "UP"                 -> NoNetwork
                  [] link' = "UP" /\ link # "UP"  -> radioNet
                  [] OTHER                        -> address

CartridgeSpec == CartridgeInit /\ [][CartridgeNext]_allVars

\* The Pico goes on as with any host; the cartridge may wait for its user.
FairCartridgeSpec == CartridgeSpec /\ Fairness

(***************************************************************************)
(* What the protocol's documentation promises.                             *)
(***************************************************************************)

\* docs/protocol.md:400 "The Pico takes the SSID and authentication mode from
\* the current connection": the profile saved is of the network the radio is on.
SavesCurrentNetwork ==
  [][ profileOp' = "SAVE" /\ profileOp # "SAVE" /\ link = "UP" =>
        profileSsid' = address ]_allVars

\* docs/protocol.md:371-373 "`0` disconnected, `1` connecting, `2` connected with
\* an IP address": WIFI_STATUS does not say "disconnected" for ever of a link
\* that is up and stays up.
ConnectionIsTold == <>[](link = "UP") => []<>(connState # "DISCONNECTED")
=============================================================================
