------------------------------ MODULE Onboarding ------------------------------
(***************************************************************************)
(* From power-up to a Wi-Fi connection on the cartridge (src/main.c,       *)
(* src/ui.c, src/wifi.c): the opening screen, HELLO, the stored profile,   *)
(* and the manual choice of a network with its password.  The program is   *)
(* one thread: at says which wait for a key or for the Pico it has come    *)
(* to.  The Pico's answers are arbitrary; a poll is as long as its bound   *)
(* lets it be, so it is one step with its outcomes.  Screens are left out. *)
(* Of a password the model keeps how many of its characters are in the     *)
(* input buffer and how many have been copied elsewhere: connect_selected  *)
(* and offer_save copy it to payload[] on the stack, p2wp_request from     *)
(* there to the static request[] of src/p2wp.c.  Nothing wipes these; what *)
(* later calls and requests happen to overwrite is not counted.            *)
(***************************************************************************)
EXTENDS Naturals

CONSTANTS
  MinPassword,  \* shortest WPA password
  MaxPassword   \* capacity of the password buffer

ASSUME PasswordAssumption ==
  /\ MinPassword \in Nat /\ MaxPassword \in Nat
  /\ 0 < MinPassword /\ MinPassword <= MaxPassword

OnboardingPlaces == {"opening", "hello", "halted", "profile", "profile_failed",
                     "scan", "choose", "show", "password", "connect_open",
                     "connect", "save"}

VARIABLES
  at,        \* where the program waits
  timedOut,  \* opening_timed_out
  started,   \* teletekst_start is running
  length,    \* password_length
  remains    \* characters of passwords left in payload[] and request[]

onboardingVars == <<timedOut, started, length, remains>>

\* manual_startup returns to teletekst_start, or to main, which halts when
\* there is no connection.
Return(connected) ==
  /\ at' = CASE started -> "source"
              [] connected /\ ~started -> "settings"
              [] OTHER -> "halted"
  /\ started' = (started \/ connected)

Wiped == length' = 0

\* A request with the password in it.
CopyPassword == remains' = IF length > remains THEN length ELSE remains

\* ui_wait_opening: a key, or a minute without one.
WaitOpening ==
  /\ at = "opening"
  /\ at' = "hello"
  /\ timedOut' \in BOOLEAN
  /\ UNCHANGED <<started, length, remains>>

Hello ==
  /\ at = "hello"
  /\ at' \in {"profile", "halted"}
  /\ UNCHANGED onboardingVars

\* try_profile: connected, no profile, or one that failed.
TryProfile ==
  /\ at = "profile"
  /\ \/ Return(TRUE)
     \/ at' \in {"scan", "profile_failed"} /\ UNCHANGED started
  /\ UNCHANGED <<timedOut, length, remains>>

\* Keys O, N and V; the deletion may fail.
AfterProfileFailed ==
  /\ at = "profile_failed"
  /\ at' \in {"profile", "scan"}
  /\ UNCHANGED onboardingVars

\* scan_networks: no network, or some to choose from.
ScanNetworks ==
  /\ at = "scan"
  /\ \/ Return(FALSE)
     \/ at' = "choose" /\ UNCHANGED started
  /\ UNCHANGED <<timedOut, length, remains>>

\* choose_network, and what manual_startup makes of it: STOP and a network
\* whose security it does not know end it, a password is read for WPA.
ChooseNetwork ==
  /\ at = "choose"
  /\ \/ Return(FALSE) /\ UNCHANGED length
     \/ at' = "connect_open" /\ UNCHANGED <<started, length>>
     \/ at' = "show" /\ Wiped /\ UNCHANGED started
  /\ UNCHANGED <<timedOut, remains>>

\* read_password asks whether to show the password.
AskToShow ==
  /\ at = "show"
  /\ \/ Return(FALSE)
     \/ at' = "password" /\ UNCHANGED started
  /\ UNCHANGED <<timedOut, length, remains>>

\* A character, or Backspace.
TypePassword ==
  /\ at = "password"
  /\ \/ length < MaxPassword /\ length' = length + 1
     \/ length > 0 /\ length' = length - 1
  /\ UNCHANGED <<at, timedOut, started, remains>>

\* ENTER: a password too short is wiped and asked for again.
EnterPassword ==
  /\ at = "password"
  /\ IF length >= MinPassword
       THEN at' = "connect" /\ UNCHANGED length
       ELSE at' = "show" /\ Wiped
  /\ UNCHANGED <<timedOut, started, remains>>

StopPassword ==
  /\ at = "password"
  /\ Wiped
  /\ Return(FALSE)
  /\ UNCHANGED <<timedOut, remains>>

\* (mutant) The password of a connection that failed is kept.
ConnectSelectedKeeps ==
  /\ at \in {"connect", "connect_open"}
  /\ \/ at' = "save" /\ UNCHANGED <<started, length>>
     \/ Return(FALSE) /\ UNCHANGED length
  /\ CopyPassword
  /\ UNCHANGED timedOut

\* connect_selected: three attempts, each as long as poll_connection lasts.
ConnectSelected ==
  /\ at \in {"connect", "connect_open"}
  /\ \/ at' = "save" /\ UNCHANGED <<started, length>>
     \/ Return(FALSE) /\ Wiped
  /\ CopyPassword
  /\ UNCHANGED timedOut

\* offer_save: J, successful or not, or N.
OfferSave ==
  /\ at = "save"
  /\ CopyPassword \/ UNCHANGED remains
  /\ Wiped
  /\ Return(TRUE)
  /\ UNCHANGED timedOut

\* wifi_reconfigure, called by the viewer.
Reconfigure ==
  /\ at' = "scan"
  /\ Wiped
  /\ UNCHANGED <<timedOut, started, remains>>

OnboardingInit ==
  /\ at = "opening" /\ timedOut = FALSE /\ started = FALSE
  /\ length = 0 /\ remains = 0

OnboardingNext ==
  \/ WaitOpening \/ Hello \/ TryProfile \/ AfterProfileFailed
  \/ ScanNetworks \/ ChooseNetwork \/ AskToShow
  \/ TypePassword \/ EnterPassword \/ StopPassword
  \/ ConnectSelected \/ OfferSave

\* The input buffer holds a password only while it is typed, used to connect and
\* offered for storage: an open network is never sent one, a WPA network never
\* one too short, and whatever way the user leaves, the buffer is wiped.  What is
\* left elsewhere is of passwords that were used, never of one given up before.
UnusedPasswordIsWiped ==
  /\ at \notin {"password", "connect", "save"} => length = 0
  /\ at = "connect" => length >= MinPassword
  /\ remains # 0 => remains >= MinPassword
=============================================================================
