------------------------------ MODULE PicoFetch ------------------------------
(***************************************************************************)
(* Page fetches and version checks of the Pico firmware                    *)
(* (firmware/src/main.c).  Core 1 answers the cartridge's requests; core 0 *)
(* takes a queued request in wifi_radio_main, hands it to lwIP's HTTP      *)
(* client and hears of it in callbacks, which run inside cyw43_arch_poll   *)
(* or, on a timeout, inside altcp_abort.  pc0 says where core 0 is between *)
(* two sections of wifi_mutex.                                             *)
(*                                                                         *)
(* The HTTP client is external: job is the page request it holds ("dns"    *)
(* until it has asked for a connection, then "open"), checks the version   *)
(* requests it holds, each named by its TLS configuration.  It may ask for *)
(* the connection at once or after the DNS answer, as                      *)
(* teletekst_check_fetch_deadline expects.  A page stands for page,        *)
(* subpage and source.  The error codes, byte counts and HTTP details that *)
(* FETCH_STATUS adds are left out, as is plain TCP: it differs from TLS    *)
(* only in having no configuration to free.                                *)
(***************************************************************************)
EXTENDS FiniteSets

CONSTANTS
  Pages,     \* what can be asked for
  NoPage,    \* no page
  Mixed,     \* rows of more than one page
  Configs,   \* TLS configurations the heap has room for
  NoConfig   \* a null TLS configuration

ASSUME ConstantsAssumption ==
  /\ NoPage \notin Pages /\ Mixed \notin Pages /\ NoPage # Mixed
  /\ NoConfig \notin Configs

FetchStates == {"IDLE", "CONNECTING", "RECEIVING", "COMPLETE", "FAILED"}
CheckStates == {"IDLE", "RUNNING", "COMPLETE", "FAILED"}
Jobs        == {"none", "dns", "open"}
Core0Places == {"bringup", "halted", "poll", "done", "decode", "decoded",
                "aborted", "clean", "check", "check_refuse",
                "check_start", "fetch", "fetch_refuse", "fetch_start"}

VARIABLES
  \* Shared by the cores, under wifi_mutex
  connected,      \* wifi_connection_state is WIFI_CONNECTED
  fetchState,     \* teletekst_fetch_state
  fetchRequested, \* teletekst_fetch_requested
  requested,      \* teletekst_requested_page, _subpage and _source
  httpActive,     \* teletekst_http_active
  links,          \* page whose next subpage and neighbours are published
  screen,         \* page whose rows teletekst_screen holds; no lock guards it
  checkState,     \* version_check_state
  checkRequested, \* version_check_requested
  \* Core 0's own
  pc0,            \* its place in wifi_radio_main
  taken,          \* page of the request it handed on
  connection,     \* teletekst_http_connection is not NULL
  forced,         \* teletekst_forced_timeout
  late,           \* http_active, and teletekst_fetch_deadline has passed
  tlsConfig,      \* teletekst_tls_config is not NULL
  cleanup,        \* teletekst_tls_cleanup_pending
  versionConfig,  \* version_tls_config
  versionCleanup, \* version_tls_cleanup_pending
  \* The HTTP client's
  job,            \* the page request
  jobOk,          \* the result it reports: HTTP status 200, a body that fits
  checks,         \* TLS configurations in use by version requests
  heap,           \* TLS configurations of version requests not freed
  \* History
  overtaken,      \* the fetch was accepted before its forerunner's last word
  told,           \* FETCH_STATUS may have told that this fetch FAILED
  overlapped      \* a version check was asked for while one was running

fetchVars   == <<fetchState, fetchRequested, requested, links, told>>
bodyVars    == <<httpActive, screen>>
checkVars   == <<checkState, checkRequested>>
fetchCore0  == <<taken, connection, forced, late, tlsConfig, cleanup>>
checkCore0  == <<versionConfig, versionCleanup>>
jobVars     == <<job, jobOk>>
checkJobs   == <<checks, heap>>
history     == <<overtaken, overlapped>>
allFetch    == <<fetchVars, bodyVars, fetchCore0, jobVars>>
allCheck    == <<checkVars, checkCore0, checkJobs>>
vars == <<connected, pc0, allFetch, allCheck, history>>

Underway == fetchState \in {"CONNECTING", "RECEIVING"}

\* What FETCH_START answers WIFI_BUSY to.
Busy == fetchRequested \/ httpActive \/ Underway

-----------------------------------------------------------------------------
(***************************************************************************)
(* Core 1: the request handlers.                                           *)
(***************************************************************************)

\* The part of FETCH_START after its refusals.
QueueFetch(p) ==
  /\ fetchState' = "CONNECTING"
  /\ fetchRequested' = TRUE
  /\ requested' = p
  /\ links' = NoPage
  /\ overtaken' = (pc0 \in {"done", "aborted"})
  /\ told' = FALSE
  /\ UNCHANGED <<connected, pc0, httpActive, screen, fetchCore0, jobVars,
                 allCheck, overlapped>>

\* (mutant) Only the state of the last fetch is asked.
FetchStartByState(p) ==
  /\ connected
  /\ ~fetchRequested /\ ~Underway
  /\ QueueFetch(p)

\* An overtaken fetch is FAILED while core 0 starts it.  A host needs a key or
\* ten seconds to ask again, core 0 some milliseconds: it is taken to be first.
FetchStart(p) ==
  /\ connected
  /\ ~Busy
  /\ ~(overtaken /\ pc0 \in {"fetch_start", "fetch_refuse"})
  /\ QueueFetch(p)

\* Accepted at any time, also while a check runs.
VersionCheckStart ==
  /\ checkState' = "RUNNING"
  /\ checkRequested' = TRUE
  /\ overlapped' = (overlapped \/ checkState = "RUNNING")
  /\ UNCHANGED <<connected, pc0, allFetch, checkCore0, checkJobs, overtaken>>

-----------------------------------------------------------------------------
(***************************************************************************)
(* The HTTP client's callbacks, inside cyw43_arch_poll.                    *)
(***************************************************************************)

\* teletekst_tls_alloc and teletekst_tcp_alloc after a DNS answer.
Allocate ==
  /\ pc0 = "poll" /\ job = "dns"
  /\ job' = "open"
  /\ connection' = TRUE
  /\ UNCHANGED <<connected, pc0, fetchVars, bodyVars, taken, forced, late,
                 tlsConfig, cleanup, jobOk, allCheck, history>>

\* teletekst_headers_done and teletekst_receive.
Deliver ==
  /\ pc0 = "poll" /\ job = "open"
  /\ fetchState' = "RECEIVING"
  /\ UNCHANGED <<connected, pc0, fetchRequested, requested, links, told, bodyVars,
                 fetchCore0, jobVars, allCheck, history>>

\* teletekst_request_done as far as its first section; it runs to its end in
\* the places "done" to "decoded".
RequestDone ==
  /\ pc0 = "poll" /\ job # "none"
  /\ pc0' = "done"
  /\ jobOk' \in {FALSE, fetchState = "RECEIVING"}
  /\ job' = "none"
  /\ connection' = FALSE
  /\ httpActive' = FALSE /\ late' = FALSE
  /\ cleanup' = TRUE
  /\ UNCHANGED <<connected, fetchVars, screen, taken, forced, tlsConfig,
                 allCheck, history>>

\* teletekst_set_failed.
SetFailed ==
  /\ fetchState' = "FAILED"
  /\ told' = TRUE
  /\ UNCHANGED <<fetchRequested, requested, links>>

\* (mutant) A timeout is told only by the result of the request.
ReportResultOnly ==
  /\ pc0 = "done"
  /\ \/ /\ ~jobOk
        /\ SetFailed
        /\ pc0' = "poll"
     \/ /\ jobOk
        /\ pc0' = "decode"
        /\ UNCHANGED fetchVars
  /\ forced' = FALSE /\ jobOk' = FALSE
  /\ UNCHANGED <<connected, bodyVars, taken, connection, late, tlsConfig,
                 cleanup, job, allCheck, history>>

\* The timeout, a failed request and a body too long end the fetch at once.
ReportResult ==
  /\ pc0 = "done"
  /\ \/ /\ forced
        /\ SetFailed
        /\ pc0' = "poll"
     \/ /\ ~forced
        /\ ~jobOk
        /\ SetFailed
        /\ pc0' = "poll"
     \/ /\ ~forced /\ jobOk
        /\ pc0' = "decode"
        /\ UNCHANGED fetchVars
  /\ forced' = FALSE /\ jobOk' = FALSE
  /\ UNCHANGED <<connected, bodyVars, taken, connection, late, tlsConfig,
                 cleanup, job, allCheck, history>>

\* teletekst_decode_json writes the rows one by one, without the lock.
DecodeRows ==
  /\ pc0 = "decode"
  /\ pc0' = "decoded"
  /\ screen' \in {screen, Mixed}
  /\ UNCHANGED <<connected, fetchVars, httpActive, fetchCore0, jobVars,
                 allCheck, history>>

\* (mutant) A page that cannot be decoded is published as well.
PublishUnchecked ==
  /\ pc0 = "decoded"
  /\ pc0' = "poll"
  /\ screen' \in {screen, taken}
  /\ links' = taken
  /\ fetchState' = "COMPLETE"
  /\ UNCHANGED <<connected, fetchRequested, requested, told, httpActive, fetchCore0,
                 jobVars, allCheck, history>>

\* The page is published when every row is there; a bad one leaves its rows.
PublishPage ==
  /\ pc0 = "decoded"
  /\ pc0' = "poll"
  /\ \/ /\ screen' = taken
        /\ links' = taken
        /\ fetchState' = "COMPLETE"
        /\ UNCHANGED <<fetchRequested, requested, told>>
     \/ /\ screen' \in {screen, taken}
        /\ SetFailed
  /\ UNCHANGED <<connected, httpActive, fetchCore0, jobVars, allCheck,
                 history>>

\* version_request_done, for a request that used configuration c.
VersionDone(c) ==
  /\ pc0 = "poll" /\ c \in checks
  /\ checks' = checks \ {c}
  /\ versionCleanup' = TRUE
  /\ checkState' \in {"COMPLETE", "FAILED"}
  /\ UNCHANGED <<connected, pc0, allFetch, checkRequested, versionConfig, heap,
                 history>>

\* wifi_service and the requests about Wi-Fi change the connection.
LinkChanges ==
  /\ pc0 \notin {"bringup", "halted"}
  /\ connected' = ~connected
  /\ UNCHANGED <<pc0, allFetch, allCheck, history>>

-----------------------------------------------------------------------------
(***************************************************************************)
(* Core 0: wifi_radio_main.                                                *)
(***************************************************************************)

BringUp ==
  /\ pc0 = "bringup"
  /\ \/ pc0' = "poll" /\ UNCHANGED <<fetchVars, checkRequested>>
     \/ /\ pc0' = "halted"
        /\ fetchState' = "FAILED"
        /\ fetchRequested' = FALSE
        /\ checkRequested' = FALSE
        /\ UNCHANGED <<requested, links, told>>
  /\ UNCHANGED <<connected, bodyVars, fetchCore0, jobVars, checkState, checkCore0,
                 checkJobs, history>>

\* Time passes.
FetchDeadline ==
  /\ httpActive /\ ~late
  /\ late' = TRUE
  /\ UNCHANGED <<connected, pc0, fetchVars, bodyVars, taken, connection, forced,
                 tlsConfig, cleanup, jobVars, allCheck, history>>

\* The connection is aborted: lwIP calls teletekst_request_done at once.
Abort ==
  /\ connection
  /\ pc0' = "aborted"
  /\ connection' = FALSE
  /\ job' = "none" /\ jobOk' = FALSE
  /\ httpActive' = FALSE /\ late' = FALSE
  /\ cleanup' = TRUE
  /\ UNCHANGED fetchVars

\* Without a connection the request is left to the HTTP client.
TimeOutInDns ==
  /\ ~connection
  /\ pc0' = "clean"
  /\ SetFailed
  /\ UNCHANGED <<connection, httpActive, late, cleanup, jobVars>>

Overdue == httpActive /\ ~forced /\ late

\* (mutant) The timeout is announced, the connection left open.
CheckDeadlineKeeps ==
  /\ pc0 = "poll"
  /\ IF Overdue
       THEN /\ forced' = TRUE
            /\ pc0' = "clean"
            /\ SetFailed
       ELSE /\ pc0' = "clean"
            /\ UNCHANGED <<forced, fetchVars>>
  /\ UNCHANGED <<connected, screen, taken, connection, httpActive, late,
                 tlsConfig, cleanup, jobVars, allCheck, history>>

\* (mutant) A request without a connection is left alone.
CheckDeadlineOpen ==
  /\ pc0 = "poll"
  /\ IF Overdue /\ connection
       THEN forced' = TRUE /\ Abort
       ELSE /\ pc0' = "clean"
            /\ UNCHANGED <<forced, connection, fetchVars, httpActive, late,
                           cleanup, jobVars>>
  /\ UNCHANGED <<connected, screen, taken, tlsConfig, allCheck, history>>

\* teletekst_check_fetch_deadline, when cyw43_arch_poll returns.
CheckDeadline ==
  /\ pc0 = "poll"
  /\ IF Overdue
       THEN /\ forced' = TRUE
            /\ Abort \/ TimeOutInDns
       ELSE /\ pc0' = "clean"
            /\ UNCHANGED <<forced, connection, fetchVars, httpActive, late,
                           cleanup, jobVars>>
  /\ UNCHANGED <<connected, screen, taken, tlsConfig, allCheck, history>>

\* The rest of teletekst_request_done inside altcp_abort.
ReportAbort ==
  /\ pc0 = "aborted"
  /\ pc0' = "clean"
  /\ forced' = FALSE
  /\ SetFailed
  /\ UNCHANGED <<connected, bodyVars, taken, connection, late, tlsConfig, cleanup,
                 jobVars, allCheck, history>>

\* teletekst_cleanup_tls and version_cleanup_tls, after the poll.
CleanUp ==
  /\ pc0 = "clean"
  /\ pc0' = "check"
  /\ tlsConfig' = (tlsConfig /\ ~cleanup)
  /\ cleanup' = FALSE
  /\ IF versionCleanup
       THEN heap' = heap \ {versionConfig} /\ versionConfig' = NoConfig
       ELSE UNCHANGED <<heap, versionConfig>>
  /\ versionCleanup' = FALSE
  /\ UNCHANGED <<connected, fetchVars, bodyVars, taken, connection, forced, late,
                 jobVars, checkVars, checks, history>>

-----------------------------------------------------------------------------
\* version_start_requested_check.
TakeCheck ==
  /\ pc0 = "check"
  /\ checkRequested' = FALSE
  /\ pc0' = CASE ~checkRequested -> "fetch"
              [] checkRequested /\ ~connected -> "check_refuse"
              [] OTHER -> "check_start"
  /\ UNCHANGED <<connected, allFetch, checkState, checkCore0, checkJobs, history>>

\* (mutant) The check that cannot be started is dropped in silence.
RefuseCheckSilently ==
  /\ pc0 = "check_refuse"
  /\ pc0' = "fetch"
  /\ UNCHANGED <<connected, allFetch, allCheck, history>>

RefuseCheck ==
  /\ pc0 = "check_refuse"
  /\ pc0' = "fetch"
  /\ checkState' = "FAILED"
  /\ UNCHANGED <<connected, allFetch, checkRequested, checkCore0, checkJobs,
                 history>>

\* A free configuration for the request, which may still fail to start.
StartCheck ==
  /\ pc0 = "check_start"
  /\ pc0' = "fetch"
  /\ \/ \E c \in Configs \ (heap \cup checks) :
          /\ versionConfig' = c
          /\ heap' = heap \cup {c}
          /\ checks' = checks \cup {c}
          /\ UNCHANGED checkState
     \/ /\ checkState' = "FAILED"
        /\ versionConfig' = NoConfig
        /\ UNCHANGED <<checks, heap>>
  /\ UNCHANGED <<connected, allFetch, checkRequested, versionCleanup, history>>

\* teletekst_start_requested_fetch.
TakeFetch ==
  /\ pc0 = "fetch"
  /\ fetchRequested' = FALSE
  /\ taken' = IF fetchRequested THEN requested ELSE taken
  /\ pc0' = CASE ~fetchRequested -> "poll"
              [] fetchRequested /\ ~connected -> "fetch_refuse"
              [] OTHER -> "fetch_start"
  /\ UNCHANGED <<connected, fetchState, requested, links, told, bodyVars, connection,
                 forced, late, tlsConfig, cleanup, jobVars, allCheck,
                 history>>

RefuseFetch ==
  /\ pc0 = "fetch_refuse"
  /\ pc0' = "poll"
  /\ SetFailed
  /\ UNCHANGED <<connected, bodyVars, fetchCore0, jobVars, allCheck, history>>

\* The request is handed on.
HandOn ==
  /\ httpActive' = TRUE
  /\ tlsConfig' = TRUE
  /\ job' \in {"dns", "open"}
  /\ connection' = (job' = "open")
  /\ UNCHANGED <<fetchVars, jobOk>>

\* No endpoint, path, TLS configuration or request.
CannotStart ==
  /\ SetFailed
  /\ tlsConfig' = FALSE
  /\ connection' = FALSE
  /\ UNCHANGED <<httpActive, jobVars>>

StartFetch ==
  /\ pc0 = "fetch_start"
  /\ pc0' = "poll"
  /\ forced' = FALSE
  /\ late' = FALSE
  /\ HandOn \/ CannotStart
  /\ UNCHANGED <<connected, screen, taken, cleanup, allCheck, history>>

-----------------------------------------------------------------------------
Init ==
  /\ connected = FALSE /\ pc0 = "bringup"
  /\ fetchState = "IDLE" /\ fetchRequested = FALSE
  /\ requested = NoPage /\ links = NoPage /\ screen = NoPage
  /\ httpActive = FALSE
  /\ checkState = "IDLE" /\ checkRequested = FALSE
  /\ taken = NoPage /\ connection = FALSE /\ forced = FALSE /\ late = FALSE
  /\ tlsConfig = FALSE /\ cleanup = FALSE
  /\ versionConfig = NoConfig /\ versionCleanup = FALSE
  /\ job = "none" /\ jobOk = FALSE
  /\ checks = {} /\ heap = {}
  /\ overtaken = FALSE /\ told = FALSE /\ overlapped = FALSE

Core1 == VersionCheckStart \/ \E p \in Pages : FetchStart(p)

Callbacks ==
  Allocate \/ Deliver \/ RequestDone \/ \E c \in Configs : VersionDone(c)

Core0 ==
  \/ ReportResult \/ DecodeRows \/ PublishPage
  \/ CheckDeadline \/ ReportAbort \/ CleanUp
  \/ TakeCheck \/ RefuseCheck \/ StartCheck
  \/ TakeFetch \/ RefuseFetch \/ StartFetch

Next ==
  Core1 \/ Callbacks \/ Core0 \/ BringUp \/ LinkChanges \/ FetchDeadline

Spec == Init /\ [][Next]_vars

(***************************************************************************)
(* Core 0 keeps looping once the radio is up, and time passes.  The HTTP   *)
(* client reports the end of a version check and of a request whose DNS    *)
(* lookup outlasted the deadline: lwIP gives both its own timeouts.  No    *)
(* other request need ever end by itself.                                  *)
(***************************************************************************)
LateDone == forced /\ RequestDone

Fairness ==
  /\ WF_vars(Core0) /\ WF_vars(FetchDeadline)
  /\ SF_vars(LateDone) /\ \A c \in Configs : SF_vars(VersionDone(c))

FairSpec == Spec /\ Fairness

(***************************************************************************)
(* Properties.                                                             *)
(***************************************************************************)

\* Every variable keeps the values its declaration in main.c allows, and the
\* connection kept for a timeout to abort is one the HTTP client still has.
TypeOK ==
  /\ fetchState \in FetchStates
  /\ checkState \in CheckStates
  /\ {connected, fetchRequested, httpActive, checkRequested} \subseteq BOOLEAN
  /\ {connection, forced, late, tlsConfig, cleanup, versionCleanup} \subseteq BOOLEAN
  /\ {jobOk, overtaken, told, overlapped} \subseteq BOOLEAN
  /\ {requested, taken, links} \subseteq Pages \cup {NoPage}
  /\ screen \in Pages \cup {NoPage, Mixed}
  /\ pc0 \in Core0Places /\ job \in Jobs
  /\ versionConfig \in Configs \cup {NoConfig}
  /\ checks \subseteq Configs /\ heap \subseteq Configs
  /\ connection => job = "open"
  /\ job # "none" => httpActive

\* FETCH_ROWS answers only while a fetch is complete; then teletekst_screen and
\* the links told with it are those of the page last asked for, none of another.
RowsAreOfRequestedPage ==
  fetchState = "COMPLETE" => screen = requested /\ links = requested

\* A TLS configuration lives exactly as long as the request that uses it: none
\* is freed under a connection, none is overwritten without being freed.  A
\* host that asks for a version check while one is running voids that.
TlsLifetime ==
  /\ job # "none" => tlsConfig
  /\ pc0 = "fetch_start" => ~tlsConfig
  /\ ~overlapped => checks \subseteq heap /\ heap \subseteq {versionConfig}

Over == fetchState \in {"COMPLETE", "FAILED"}

\* docs/protocol.md:423 "On expiry it aborts and releases the active connection
\* before reporting TIMEOUT": a fetch ends, well or not, with its connection
\* gone.  A request still without one is left behind.
NoStaleWork == [][~Over /\ Over' => job' # "open"]_vars

\* The outcome of a fetch stands until FETCH_START: a complete one stays so, and
\* one told to have failed never completes after all, unless it was accepted
\* just before its forerunner's last word, which then is told of it.
OutcomeStands ==
  [][ /\ fetchState = "COMPLETE" => fetchState' \in {"COMPLETE", "CONNECTING"}
      /\ fetchState' = "COMPLETE" => ~told \/ overtaken ]_vars

\* FETCH_START is not refused as busy for ever, whatever server and DNS do.
BusyEnds == Busy ~> ~Busy

\* A version check ends, unless bring-up does not end or failed.
CheckEnds ==
  checkState = "RUNNING" ~> checkState # "RUNNING" \/ pc0 \in {"bringup", "halted"}

\* What a host waits for ends.
RequestsEnd == BusyEnds /\ CheckEnds
=============================================================================
