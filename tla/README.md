# TLA+ models of the P2000T teletext cartridge

This directory holds TLA+ specifications of the P2000T Pico Web Interface: a
Z80 cartridge that shows teletext pages and a Raspberry Pi Pico W that fetches
them. The modules are translated from the C sources of this repository; TLC
checks them on small instances and TLAPS proves the central theorems for all
values of the constants.

Paths below are relative to the repository's root.

## The system

| Part | Code | State it keeps | Talks to |
| --- | --- | --- | --- |
| Link client | `src/p2wp.c`, `src/main.c` | session (version, next sequence number), request and response workspaces, deadline | the mailbox ports; called by onboarding and viewer |
| Wi-Fi onboarding | `src/wifi.c` | scan list, password, menu position | Pico commands, through the link client |
| Viewer | `src/teletekst.c`, `src/ui.c` | page, subpage, rotation, automatic mode, pause, clock, screen buffer | Pico commands, keyboard, screen |
| Z80 assembly | `src/platform.asm`, `src/crt0.asm`, `src/lz4_z80.asm` | clock digits, reveal flag | screen memory, monitor clock |
| Mailbox driver | `firmware/src/main.c` (core 1) | parser, GPIO lines | latches and flip-flops of the board |
| Frame codec | `firmware/src/p2wp.c` | parser buffer and flags | mailbox driver |
| Protocol core | `firmware/src/firmware_core.c` | session version, cached request and response | frame codec, command handlers |
| Command handlers | `firmware/src/main.c` (core 1) | none of their own | state shared with core 0 under `wifi_mutex` |
| Radio loop | `firmware/src/main.c` (core 0) | scan, connection, profile, fetch, version check, NTP | CYW43 driver, lwIP, flash; shared state |
| Decoder | `firmware/src/teletekst.c` | none | called by the fetch |
| Stores | `firmware/src/wifi_profile.c`, `firmware/src/custom_url_store.c` | one flash sector each | radio loop |
| Emulator | `emulator/src` | a single-threaded device around the same protocol core | development only |
| Server | `server` | none | HTTP |

The cartridge is the only one that asks. A request travels as a frame of bytes
through a one-byte mailbox, is handled on core 1 of the Pico, and is answered
at once. Whatever takes long (scan, join, flash, fetch) is queued in shared
variables for core 0; the cartridge polls for its end. Hard behaviour is
therefore of four kinds:

* *the link*: bytes and frames get lost, deadlines pass on one end only, either
  end restarts, and a frame may be executed long after it was sent;
* *two cores*: core 0 reads shared state in one section of the mutex and acts on
  it in a later one, with requests and deadlines of core 1 in between;
* *outside events*: radio, DNS, TCP and TLS callbacks that come late, and power
  loss in the middle of a flash update;
* *the viewer's loop*: keys, rotation, automatic retry and failures interleave.

What makes each part correct:

* transactions: a request is executed at most once; "OK" means executed, and the
  answer is its own; every call returns; both ends agree on the version;
* radio: states reported to the cartridge are those of the request it made, and
  every state it polls for is left again; a failed bring-up stays failed; a
  queued connection is not told to be over before it was tried; a password is not
  kept in shared memory; the profile saved is the one of the network joined;
* fetch: rows are read of a completed fetch only, a timed-out one cannot disturb
  the next, TLS memory is freed after its last use;
* mailbox: bytes arrive once and in order, and no wait is mutual;
* stores: after power loss a record is the old one, the new one or absent;
* onboarding and viewer: the input buffer does not keep a password that is not in use, a
  subpage chosen by hand stays, automatic pages skip what is faulty only, a rotation comes round;
* algorithms: a frame survives whatever precedes it, a row hides as little as it
  can, the clock shows the legal time.

## Modules

| Module | What it is |
| --- | --- |
| `P2wpSession` | transactions and sessions of both ends over a lossy, half-duplex link |
| `RemoteCalls` | what that layer promises: calls executed at most once |
| `MCP2wpSession` | small instances for TLC |
| `HalfDuplex` | what the transactions rely on: a line on which one end speaks at a time |
| `P2wpSession_proofs` | types, the inductive invariant, the safety theorems, and the refinements of `RemoteCalls` and `HalfDuplex` |
| `Mailbox` | the handshake of single bytes between the Z80 and core 1, with the board's flip-flops |
| `Mailbox_proofs` | its inductive invariant and theorems, and the refinement of `HalfDuplex` |
| `PicoWifi` | bring-up, scan, connection and stored profile on two cores, with any host |
| `WifiCartridge` | the same with the one host it has, the cartridge's program for choosing a network; extends `PicoWifi` |
| `PicoWifi_proofs` | the radio's inductive invariant and theorems, and that the cartridge is a host |
| `PicoFetch` | page fetches and version checks on two cores, with lwIP's callbacks |
| `PicoFetch_proofs` | its inductive invariant and theorems |
| `FlashStore` | the two flash sectors, their queues, and power failure |
| `FlashStore_proofs` | lemmas on records, inductive invariants and theorems |
| `Onboarding` | the cartridge from power-up to a connection |
| `Viewer` | the source menu and the page viewer; extends `Onboarding` |
| `Viewer_proofs` | theorems about both |
| `FrameCodec` | escaping and both receivers, byte by byte, for a checksum that is a parameter |
| `Checksum` | `p2wp_crc16`, which TLC gives it |
| `FrameCodec_proofs` | that a frame arrives whatever precedes it, and a cut one is not heard |
| `RowCompiler` | the dynamic programming of `compile_row`, and what the SAA5050 shows |
| `LocalClock` | local time of a fetch, and the cartridge's counting from there |
| `Sequential_proofs` | that the row compiled is shown and hides the least; the calendar, and that the clock tells the local time |
| `MCSequential` | the cartridge and these three algorithms side by side, for TLC |

A definition marked `(mutant)` is a deliberately wrong variant of the
definition that follows it. It takes no part in the specification; substituting
it must make TLC find a named property violated, which shows that the property
is sensitive to that error in the code.

### P2wpSession

The state and the code:

| Variable | Code |
| --- | --- |
| `phase`, `attempt`, `expired`, `frame`, `result` | where `transact()` of `src/p2wp.c` is, its loop counter, `deadline_reached`, the request workspace, the value returned |
| `hostVersion`, `nextSeq` | `p2wp_session_t` |
| `parked` | a frame that lacks only its closing delimiter, in the firmware's parser |
| `inbound`, `outbound` | the frame complete in the parser, the response in `mailbox_send` |
| `picoVersion`, `cache` | `session_version` and the cached request and response of `p2wp_firmware_core_t` |
| `firmware`, `radioUp` | which version range this firmware has; whether HELLO offers capabilities |
| `ran`, `gaveUp`, `age`, `restarted` | history, for the properties only |

`SendOpening`, `SendBody`, `SendTimesOut`, `ReceiveTimesOut`, `ReceiveBad` and
`Receive` are the steps of one attempt; `PicoHandle` is all of
`p2wp_firmware_core_handle` with its order of checks (duplicate, version,
conflict, HELLO, command). `PicoAbortsResponse` and `PicoDropsPartial` are the
firmware's two timeouts. `HostRestart` and `PicoRestart` may come at any point,
separately: on the board a reset of the P2000T resets the Pico too, which is the
one followed by the other.

Two facts of the link matter and are easily overlooked. The firmware reads
nothing while it sends, so when the host has sent a whole frame the old response
is gone: this is why a late answer cannot be mistaken (`HearsOnlyItsAnswer`). And
the last delimiter of a frame is also the first of the next, so a request may be
executed when the host begins its *next* attempt, or its next call.

Abstractions: a frame is a record, and damage makes it disappear (the CRC is
taken to detect every damage); a command either succeeds or has no effect; the
contents of HELLO are its version range, `HostRange`. Payload limits and
capability bits other than "the radio is usable" are left out.

### RemoteCalls

Calls with no frames and no sequence numbers: a call in progress, the requests
that may still arrive, and what was executed since the last answer. `P2wpSession`
implements it (`ImplementsCalls`) with a call in progress being the request in
the workspace and the requests still to come those in the parser. The
implementation is subject to `WindowSpec`, which leaves out behaviours in which
the cached sequence number comes round again; see "the window" below.

### HalfDuplex

The line between the two ends with neither bytes nor contents: whether the cartridge
is away, before its opening delimiter, in the body or listening, and how many frames
are parked in the parser, on their way in and on their way out, none or one. It says
who may do what when. The opening delimiter completes a parked frame (`SendOpening`);
the body goes through only while the Pico reads (`SendBody`); the Pico answers a frame
it has whole and nothing else (`Answer`); a cartridge that hears anything but the
answer gives the attempt up, and the rest of what it misheard may follow (`Mishear`).
Frames may be lost anywhere.

`Mailbox` implements it (`ImplementsLine`): its bytes, flip-flops and timeouts are a
line of that kind. A frame counts as parked or inbound by what the parser holds
together with the one byte between the programs (`InFlight`, `BodyArrived`), and an
answer as outbound until its last byte is acknowledged.

### Mailbox

One level below `P2wpSession`: bytes instead of frames, and the four wires that
say whether a byte is there.

| Variable | Code or board |
| --- | --- |
| `txFull`, `txByte` | U5A and U1, set by the Z80's write to port 0x40 |
| `rxReady`, `rxByte` | `GPIO_RX_READY`, `GPIO_PICO_DATA_BASE`, driven by the Pico |
| `ackPending` | U5B, set by the Z80's read of port 0x41 |
| `txClear`, `ackClear` | the Pico holds `/TX_CLR`, `/RX_ACK_CLR` low; a flip-flop held clear is not set |
| `hostAt`, `sent`, `hostActive`, `hostLength`, `attempt`, `late` | `send_byte`, `receive_byte`, and the locals of `send_frame`, `receive_frame`, `transact` |
| `picoAt`, `held`, `put` | the step of `mailbox_try_receive` or `mailbox_send_byte`, the byte sampled, the index in `mailbox_send` |
| `picoActive`, `picoLength` | `p2wp_parser_t` |
| `paused` | core 1 is in the lockout of `flash_safe_execute` |
| `unread`, `current` | history, for the properties only |

The host tests a status bit and reads or writes the port in two I/O cycles: the
read is a step of its own (`SeeReady`, `ReadByte`) because the Pico may withdraw
the byte between; the write is not (`WriteByte`), since only the host itself sets
`TX_FULL`. `Sample`, `ClearFull`, `Feed` are `mailbox_try_receive` and the parser;
`Offer`, `Retract`, `ClearAck`, `Release` are `mailbox_send_byte`, and
`SendByteTimesOut` its timeouts.

Four assumptions on time. The steps of core 1 that follow each other at once (a
microsecond) are not interrupted by an I/O cycle of the Z80 (`Prompt`, `HostTurn`)
unless core 1 is paused. A listening host reads within the second of
`BYTE_TIMEOUT_MS`, a sending one writes within that of `PARTIAL_FRAME_TIMEOUT_MS`,
and a restart of the Pico is longer than the time from a host's test to its read.
A pause is shorter than a second, so no timeout of the firmware falls due in it.

`Spec` has no pauses; `FlashSpec` has core 0 stop core 1 anywhere. A frame's body
has bytes without values, and is recognised by its length: the CRC and the length
field do that in the code.

### The composition

`P2wpSession` and `Mailbox` are two levels of the link, and `HalfDuplex` is where they
meet: both are shown to keep to it, the one for what it does to frames
(`KeepsToLine`), the other for what its bytes amount to (`ImplementsLine`). So the
order of events on the link that `P2wpSession` takes for granted, and above all that
nothing but its own answer can reach a cartridge that listens, is what the handshakes
provide. That `P2wpSession` leaves the line free to do all that `HalfDuplex` allows
(lose, park, abandon, mishear, restart) is read off its actions and not proved: these are
alternatives of `SendBody`, `SendTimesOut`, `ReceiveBad`, `PicoAbortsResponse`,
`PicoDropsPartial` and `PicoRestart`; when the cartridge gives up and how often it tries
both modules take from `transact` itself. Above the link, `PicoWifi`,
`PicoFetch` and `FlashStore` each take one group of the variables that core 0 and
core 1 share under `wifi_mutex`; they meet in few places, which each module
states as free choices: the connection (`LinkChanges` of `PicoFetch`), the
outcome of a flash operation (`PicoWifi`), the profile operation in the queue
(`FlashStore`). `Onboarding` and `Viewer` are the program that asks, and take
every answer as possible.

### PicoWifi

One action per section of `wifi_mutex`. `pc0` says before which section core 0
is: `bringup`, then the loop `poll`, `link`, `judge`, `profile` (`flash`,
`publish`), `scan` (`scan_call`), `connect` (`join`), or `halted`. What core 0
carries from one section to the next is in `seen` (the `connection_state` read
before it is judged) and `taken`. Requests of the cartridge (`ScanStart`,
`WifiConnect`, `ProfileConnect`, `ProfileSave`, `ProfileDelete`) and the
deadlines (`InitDeadline`, `ScanDeadline`) are core 1's and come between any two
of these. The CYW43 driver is external: `link`, `radioNet`, `driverScan`, changed
by it while it is polled. Its status is arbitrary, and each call to it may fail.

A network stands for SSID, authentication and password together. Left out are
requests refused for their contents, which change nothing, the ranking and
strength of scan results, the error byte of the profile status, and the
`WIFI_UP` pin. Flash operations may succeed, do nothing or lose the sector.

The host is any: every request at any time (`Spec`). Networks that answer no scan
(outside `InReach`) may be in flash. `overlapped` is history: a connection was
queued while the last one was being made or stood.

### WifiCartridge

The host there is. `cart` is the wait or request that `src/wifi.c` has come to,
`chosen` and `attempt` are the locals of `manual_startup` and `connect_selected`,
`viewing` says who called. The actions are the functions: a stored profile first,
its failure with keys O, N and V, the scan, the choice, three attempts to connect, the
offer to save; and `Reconfigure`, by which the viewer may ask for all but the stored
profile again, connected or not. A request may be lost before or after it is carried
out (`Request`), and each poll may end without the answer it waits for, because a
request failed or the tries are used up, so that `ConnectSelected` may come while
the attempt before is still being made. `address` is history: the network whose
link is up. As in `PicoWifi` the link reported just after the driver was told to
join may still be the old one.

Two restrictions. Who is offered to save takes longer to answer than core 0 to take
up the connection asked for (`OfferSave`). A request that p2wp_request gave up is
executed at once or never; `P2wpSession` is about later.

### PicoFetch

| Variable | Code |
| --- | --- |
| `fetchState`, `fetchRequested`, `requested`, `httpActive`, `links` | the `teletekst_` variables of those names |
| `screen` | whose rows `teletekst_screen` holds; `Mixed` while they are of more than one page |
| `checkState`, `checkRequested`, `versionConfig`, `versionCleanup` | the `version_` variables |
| `connection`, `forced`, `late`, `tlsConfig`, `cleanup` | `teletekst_http_connection`, `teletekst_forced_timeout`, a deadline that has passed, the TLS configuration and its pending release |
| `pc0`, `taken` | where core 0 is between two sections of the mutex, and the page it handed on |
| `job`, `jobOk`, `checks`, `heap` | the HTTP client: its page request, its version requests, TLS configurations not freed |
| `overtaken`, `told`, `overlapped` | history |

The callbacks run inside `cyw43_arch_poll` (`Allocate`, `Deliver`, `RequestDone`,
`VersionDone`, at `poll`) or inside `altcp_abort` (`Abort`). `RequestDone` to
`PublishPage` are the sections of `teletekst_request_done`: between them core 1
may answer, and the rows are written without the lock (`DecodeRows`). The client
may ask for its connection at once or only after the DNS answer, which is why a
timeout may find none (`TimeOutInDns`).

`teletekst_request_done` sets `http_active` to false two sections before it tells
the outcome, so a FETCH_START may be accepted in between and be told the outcome of
its forerunner (`overtaken`). One assumption on time: the cartridge needs a key or
ten seconds to ask once more, core 0 milliseconds to pick the request up.

### FlashStore

A settings record keeps its fields apart, in the order of `custom_url_record_t`:
an erasure or a programming may stop after any of them (`Between`), and a load of
core 1, which takes no lock, may be held by the lockout in the middle (`Torn`). Its
checksum is the contents it was computed over, so a record that is part old and
part new is found out exactly when the code's checksum would, collisions apart.
A URL has its text and its length; `Garbled` is the text of one with the length
of another. `LockFails` is `flash_safe_execute` giving up. `kept` is history: what
the saves carried out add up to. The profile is whole, absent or `Broken`, as its
authentication tag tells.

### Onboarding and Viewer

One thread; `at` is the wait it has come to. A request, with all its polls, is one
step with its outcomes, since the polls are bounded and keys wait meanwhile. The
actions of `Onboarding` are the functions of `src/wifi.c`, those of `Viewer` the
keys of `viewer_loop`, the menu and the timer. `Replies` are what `fetch_page` may
find: a page; its links but not all of its rows, which leaves `next_subpage` of the
new page; or nothing, which leaves it of the old one. A failure is told by what
caused it and by whether its number is 5 to 8, as fetch errors and P2WP errors share
`state->error`. `due` is the deadline of rotation; the 16-bit tick brings it up again
after it has long passed (`DeadlineWraps`), and the first one is not initialised.

A password is its length. `length` is that of the input buffer, which
`wipe_password` clears. Connecting and saving copy it to a payload on the stack
(`src/wifi.c:291`, `:319`) and from there to `request[]` (`src/p2wp.c:211`); nothing
wipes these, and a later request overwrites no more than its own length. `remains` is
how many characters of passwords such copies may hold; it never shrinks.

Left out is the screen: reveal, help pages, the indicator, and the rows themselves.

### FrameCodec, RowCompiler, LocalClock

`FrameCodec` sends a frame after some remains of another and lets both receivers
read the line: `ParserFeed` is `p2wp_parser_feed`, `HostFeed` is `receive_frame`. The
checksum is the parameter `Crc16`, so that theorems hold for any; TLC computes it as
the code does (`Checksum`).

`RowCompiler` compiles a row cell by cell; `costs` and `history` are the arrays of
`compile_row`, without the entries that are infinite. The reference is `Displays`:
every sequence of bytes that an SAA5050 (`Render`) shows as the cells wanted, with
the cost of what its control codes hide. A blank is sent as a space there, as in the
code: an inverted space, which would show the foreground, is not considered.

`LocalClock` has Unix time as a day and a second. `Components` is
`clock_local_components`, `HalfSecond` is `_platform_advance_clock`. The reference is
the calendar the other way round (`DayNumber`) and the law on summer time
(`InSummer`).

## Runs

| Run | Instance | Question |
| --- | --- | --- |
| `session` | 3 requests of 2 types, 3 sequence numbers, 3 attempts, cartridge versions 2..4 against firmware 2..3, 3..6 and 5..6 | types; `AtMostOnce`, `HearsOnlyItsAnswer`, `SessionsAgree`, `AnswerIsOwn`, `ConflictAfterGiveUp`, `RefusalAfterRestart`; `EveryCallReturns` |
| `session_calls` | the same with 4 sequence numbers | refinement of `RemoteCalls` |
| `mailbox` | bodies of 2 bytes, 3 attempts, restarts of the Pico, no flash update | `NothingLost`, `ReadOnce`, `NoStaleAck`, `OnlyTheAnswer`; refinement of `HalfDuplex`; `PicoListensAgain`, `ExchangeEnds` |
| `wifi` | two networks, one in reach, any host | `PasswordWiped`, `QueuedIsPending`, `FailedIsFinal`, `ProfileConnectVisible`, `CompleteIsThisScan`, `SavesJoinedNetwork`; `RequestsSettle`: scans, connections and profile operations end |
| `fetch` | two pages, two TLS configurations | `RowsAreOfRequestedPage`, `TlsLifetime`, `NoStaleWork`, `OutcomeStands`, `RequestsEnd` |
| `store` | two URLs, one source, one network | `SavesAddUp`, `LoadsAreWhole`, `PowerLossLeavesOne`, `SaveIsTaken` |
| `sequential` | two pages, subpages 0 to 2, passwords of 2 characters; three frames, each after 100 or so remains; every row of 4 cells of 8 kinds; four times a day for four years | `UnusedPasswordIsWiped`, `ChosenSubpageStays`, `AutostartOnce`, `RotationReturns`; `FrameArrives`, `OnlyFramesSent`; `HidesLeast`; `ClockTellsLocalTime` |

Bounds. The code has 256 sequence numbers; three suffice for a number to be
reused, and nothing in the model counts beyond the number in use, the one cached
and the distance between them. Three requests of two types are enough for "same
request", "same type, other payload" and "other type". The proofs hold for all
values of these constants. For the radio one network in reach already gives every
order of scan, join and profile, and another in flash is the wrong one to save; a
password of the shortest length is long enough, one character less too short. A body of two bytes has a first, a last and a place between delimiters where
a frame can be cut; the theorems hold for every length.

Two pages are enough to confuse one with the other, two TLS configurations to lose
one, two URLs to mix one with the other. In the viewer two pages have a first and a
last and a wrap, subpages 0 to 2 a next one that is higher, equal or lower; the
finding about skipping uses three pages. The codec's bodies hold every byte that
matters to framing, and the noises run past the longest frame, so the overflow
happens. Four cells of the eight kinds cover what one control code can hide from the
next, with two of the seven colours; 40 columns and seven colours differ in number
only, since the cost of a row (at most 40 times 200) stays far from the infinite one,
and are left to the theorem. The clock's four years have every kind of
month end, a leap day and eight changes of summer time; each fetch is just before
a midnight, local or UTC, and is followed through it. The week from 25 October 2026
is left out of `sequential` and is the subject of `clock_october`.

Fairness. `P2wpSession`: the Z80 and core 1 run their loops, and the monitor
clock ticks, so the deadline passes; nothing is assumed of frames arriving, keys
or resets. `Mailbox`: the same two loops and the clock; under flash updates also
that an update ends, and that core 1 gets its turn between two of them.
`PicoWifi`: core 0 keeps looping once bring-up has returned (which it need not),
core 1 keeps checking the deadlines, and time passes for the
connection's deadline. Nothing is assumed of the driver or the host, so
`RequestsSettle` excuses a host that asks for connections again and again.
`WifiCartridge`: the same, and nothing of the cartridge. `PicoFetch`: core 0 keeps
looping, deadlines pass, and lwIP ends a version check, and a request whose DNS
lookup outlasted its deadline, by timeouts of its own; nothing is assumed of
any other request. `FlashStore`: core 0 keeps looping. `Viewer`: its loop does not
wait for keys, and the clock ticks (`Timer`).

Deadlock is not checked in the runs of the radio and the fetch, where a halted core 0
leaves nothing to do, nor in `store`, where nobody need save, nor in `sequential` and
`clock_october`, whose behaviours end: the cartridge halts without a Pico, a frame is
read, a row is full, the bound `Halves` is reached.

### Where the code and its documentation differ

| Run | What it shows |
| --- | --- |
| `mailbox_flash` | a flash update stops core 1 while a byte is on offer, and the host reads it twice (against `docs/hardware.rst:109`); if core 1 goes on just between the host's test and the second read, the acknowledgement stays set and the Pico cannot send until it is reset; `docs/protocol.md:100` |
| `wifi_save` | `wifi_reconfigure` sends WIFI_CONNECT while connected: core 0 takes the old link for the new one (`main.c:1211`, `:1822`), and the profile saved is of the network asked for (`main.c:1907`) while the address is the old network's; `docs/protocol.md:400`, `:392` |
| `wifi_told` | a link lost clears `wifi_connection_active` (`main.c:1244`), and when the driver joins again by itself the cartridge is told DISCONNECTED for ever; `docs/protocol.md:371-373` |
| `viewer_skip` | P2WP errors 5 to 7 (`INTERNAL`, `WIFI_UNAVAILABLE`, `WIFI_BUSY`) have the numbers of faulty pages, so automatic mode skips pages while Wi-Fi is lost; and a subpage of the page before is asked of the next one; `src/README.md:241-243` |
| `clock_october` | in years like 2026 summer time ends on 1 November; `firmware/src/main.c:279` |

Met while modelling, and not the subject of a run:

* After all attempts failed the cartridge goes on in the same session and under the
  same sequence number (`src/p2wp.c:350`); `docs/protocol.md:191` has it start again
  with HELLO.
* After a restart of the Pico alone every request is refused, for ever
  (`firmware_core.c:271`); `docs/protocol.md:34` has the host establish a session
  after either end starts.
* Two payloads of one type with one 16-bit checksum are the same request to the
  firmware (`firmware_core.c:254`); `docs/protocol.md:189` requires
  `SEQUENCE_CONFLICT`.
* The copies of a password that was used, in `request[]` (`src/p2wp.c:36`, `:211-213`)
  and in the payloads of `connect_selected` and `offer_save` (`src/wifi.c:287-291`,
  `:310-319`), are not wiped; `src/README.md:310` has the cartridge wipe the password
  when neither retry nor profile creation is an option any more. `UnusedPasswordIsWiped`
  is about the input buffer, and says of the copies only that a password given up
  before it was used is not among them.
* A fetch that timed out in DNS is told FAILED, and may then be told RECEIVING and
  FAILED again; its request is not aborted (`docs/protocol.md:422-425`).
* A version check asked for before bring-up failed stays RUNNING (`main.c:1682`),
  and one asked for while one is running loses a TLS configuration (`main.c:1027`).
* `version_http_overflow` is set and never read; the result of a save is not looked at
  (`main.c:1428`), and a save refused as busy is not repeated by the cartridge.
* When the rows of a page fail to arrive, H and R show rows of two pages. A page
  100 that fails while auto-start begins leaves automatic mode on and the clock's
  fields uninitialised; `src/README.md:243` has it stop. After STOP and another source
  the viewer begins at page 100, not with "the current page" (`src/README.md:233`).
* NTP: a reply that is too short or lies before 1970 sets no next attempt, so the next
  request follows at once; from 2036 on the era wraps and replies are refused.
* The cartridge's clock stands still in prompts and during fetches, and its leap
  rule (`year & 3`) holds until 2099.

### The window

A response with an error is not cached (`firmware_core.c:377`). After as many
errors in a row as there are sequence numbers but one, the number of the cached
request comes round, and a new request equal to it would be answered from the
cache, a different one refused. `age` counts the advances since the cache was
filled; `AnswerIsOwn` and `ConflictAfterGiveUp` are stated for `age < SeqMod`, and
`WindowSpec` keeps to it. With 256 numbers this takes 255 errors in a row.

## Proofs

`P2wpSession_proofs` proves, for every set of requests, every checksum function,
every modulus above one, every number of attempts and all version ranges, the six safety properties of the run `session` and `TypeOK`. The
assumptions are `RequestsAssumption`, `NumbersAssumption` and `RangesAssumption`
of `P2wpSession`; TLC evaluates them on every run.

None of the properties is inductive. The invariant `IInv` adds to the types:

* `HostInv`: there is a session exactly from HELLO's answer to the next reset,
  and the workspace holds the request of the call in progress;
* `LinkInv`: at most one frame or response is on the link, requests on it have
  the current sequence number, and while the host listens there is nothing but
  its own request or the answer to it. This carries `HearsOnlyItsAnswer`, and
  needs that sending the body waits until the firmware reads again;
* `CacheInv`: a successful response under way is the cached one, and a cached
  HELLO tells the version of the session. This carries `SessionsAgree`;
* `HistoryInv`: what ran under the present number is in the cache, and otherwise
  the cached number is `age` behind. A request under the present number is then
  refused or answered from the cache once something ran under it: `AtMostOnce`;
* `VersionInv`: without a restart no request is refused for its version;
* `RejectedInv`: a command that failed was the first under its number, so the
  call it answers was not executed. Only the refinement needs it.

`InvInit`, `InvNext` (one lemma per conjunct, in it one step per action) and PTL
give `Invariant`; the action properties follow from `IInv` and `TypeOK` at the step
concerned.

`Refinement` proves `WindowSpec => ImplementsCalls` from the same invariant. The
initial states map to initial states (`InitRefines`), and each action to a step of
`RemoteCalls` or a stutter: `transact()` beginning is `Call`, an execution in
`PicoHandle` is `Execute`, `Receive` is `Done` or `Refused`, a frame lost is `Lose`,
a call abandoned is `GiveUp`, and a restart of the Pico is `Crash`
(`AttemptRefines`, `HostRefines`, `ReceiveRefines`, `PicoRefines`). `HistoryInv` is
what makes `Execute` find nothing executed before it, and is where the window is
needed: outside it a request may be answered from the cache, unexecuted.

`KeepsToLineHolds` proves `KeepsToLine` under `Spec`, with no window: each action is a
step of `HalfDuplex` or a stutter (`LineNext`). It rests on `LinkInv`, by which there is
one frame of a kind at most, so that counting them loses nothing (`CountFacts`).

`Mailbox_proofs` proves, for every length of a body and number of attempts, the four
safety properties of the run `mailbox` and `TypeOK` from `SizesAssumption`, under
`Spec`: without flash updates. Its invariant adds

* `LinesInv`: each wire tells at which step core 1 is, and a host about to read has
  an unread byte before it. The timeouts' order (a listening host reads before the
  Pico gives up) is what makes this inductive;
* `AnswerInv`: while the Pico sends, a host that began another frame has written at
  most its delimiter and one byte. A request executed late was completed by that
  delimiter, so the host cannot come to listen before the Pico reads again;
* `CountersInv`, for the types.

`FlagsTyped` and `CountersTyped` are the two halves of `TypeOK`, for Zenon and SMT.

`Refinement` proves that `Mailbox` implements `HalfDuplex` (`Spec => ImplementsLine`).
`Feed` of the delimiter that closes a frame is `Answer`; `WriteByte` is `SendOpening`
for the first byte, `SendBody` for the last, and within the body a stutter; `ReadByte`
is `Hear`, `Mishear` or a stutter. What `IInv` does not say and this needs is `SyncInv`:
a host that listens while the Pico sends is exactly as far in the answer as the bytes
acknowledged, and a delimiter still on its way to the Pico means the host has heard
nothing yet. Without it the host could take the tail of one answer and the head of
another for a frame, which no step of the line is. `SizesAssumption` asks for bodies of
two bytes or more: a body has at least a header and a checksum.

`PicoWifi_proofs` proves types and the six safety properties of the run `wifi` for
every set of networks and any host. `StageInv` ties core 0's place to the state of bring-up,
`LoadedInv` says that between loading a profile and publishing it its connection is
announced, `ScanInv` whose scan core 0 is busy with, and `PasswordInv` adds to
`PasswordWiped` that before bring-up there is no network to connect to.
`JoinInv` carries `QueuedIsPending` and `SavesJoinedNetwork`: as long as connections
did not overlap, a connection queued or about to be joined is the only one, no
attempt is being judged beside it, and the SSID in shared memory is that of the
network the radio is told to join. With overlapping ones neither holds, which is what
`wifi_save` shows. `CartridgeIsAHost` proves `CartridgeSpec => Spec`: each step of
the cartridge is a request, or no step, of `PicoWifi`, so all of this holds with
it.

`PicoFetch_proofs` proves types, `RowsAreOfRequestedPage`, `TlsLifetime`,
`NoStaleWork` and `OutcomeStands` for all pages and TLS configurations. The invariant
has `Underlying` (which request is where: it has its TLS configuration, and core 0 is
at none of the places of a request that starts or has ended), `Own` (whose it is: the
page handed on is the page asked for), `Told` (what was said of it) and `CheckInv` (a
version check that is not overlapped holds the one configuration there is).

`FlashStore_proofs` proves `SavesAddUp`, `PowerLossLeavesOne` and `LoadsAreWhole` for all
URLs, sources and networks. Its core are lemmas on records: a record that is `Partial`,
some fields written and some erased, reads as that record or as nothing
(`PartialReads`), and so does everything between two of them (`ErasingReads`,
`ProgrammingReads`). `AddUpInv` says that the saves taken are in the sector or in
the record about to be written, `SectorInv` that the sector is partial, `LoadInv`
that what a load began with was.

`Viewer_proofs` proves types, `UnusedPasswordIsWiped`, `ChosenSubpageStays` and
`AutostartOnce` for all bounds. The first two are inductive with a bound on the length; `AutostartInv`
says that the time-out of the opening screen is forgotten with the first page.

`FrameCodec_proofs` proves `FrameArrives` for every set of frames and noises, every pair
of limits and every checksum of 16 bits (`FrameAlwaysArrives`). `AllEscaped` is a
recursive function, and of the bytes still to come (`EndsOf`, `At`) the proof needs only
the next one (`NextByte`, `WholeFrame`). `ArrivalInv` follows the line: in the noise
nothing is known of the parser but that it is one (`InNoise`); the delimiter that opens
the frame resets it whatever it holds (`FrameBegins`), an open escape and an overflow
included; from there the parser has what was sent so far (`InFrame`), and the closing
delimiter finds it `Valid` (`FrameCloses`). `CutFrameIsUnheard` starts with a frame cut
off anywhere instead: the length in its header gives it away whatever the checksum
(`PartOfFrame`), so nothing but the two frames is ever heard. For the cartridge it
supposes that the first byte, the version, needs no escape (`Plain`), since
`receive_frame` keeps an open escape over a delimiter that ends nothing; versions are
2 to 7 (`firmware/src/p2wp.h:9`).

`Sequential_proofs` holds the theorems about the clock and the row compiler, first
`ClockTellsLocalTimeHolds`. It proves `ClockTellsLocalTime` for every fetch from 2000 to the end
of 2099 and any number of half seconds after it. The lemmas give the loops of
`clock_local_components` their closed forms: the first day of a year
(`FirstDayValue`), of a month (`DaysBeforeValue`), hence the date of a day
(`DateOfDay`); `OffsetLegal` compares the two dates the code computes with the last
Sundays of March and October. `NextDate` and `NextSecond` then show that the
cartridge's counting agrees with the calendar, and `ClockInv` carries that through a
behaviour. Two hypotheses are the code's own limits. `Century`: the cartridge takes
every fourth year for a leap year, which is wrong in 2100. `MissedOctober`: in the
week the run `clock_october` is about the theorem is false. That a recursive
function has its closed form is shown by the least counterexample (`LeastNat`), an
induction over sets of numbers that takes no operator as parameter.

`HidesLeastHolds` proves `HidesLeast` for all cells that `append_cell` stores and
rows of any length whose cost stays below the infinite one, so for 40 columns, and for
all seven colours. The edges the code relaxes from a state are exactly the bytes that
show the cell in that state (`EdgesAreChoices`), and the displays of a row with one
more cell are those of the row with one more such byte (`DisplaysAppend`). The
invariant is the argument of dynamic programming: no display that ends in a state
costs less than `costs` says (`NoCheaper`), and the history leads back along one that
costs as much (`Reached`). `CandidateCosts` is why no sum reaches the infinite cost,
and `PathUnique` why the row traced back is the one the invariant speaks of.

Only model-checked: all liveness (`EveryCallReturns`, `PicoListensAgain`,
`ExchangeEnds`, `RequestsSettle`, `RequestsEnd`, `SaveIsTaken`,
`RotationReturns`), which is out of the prover's reach; and `OnlyFramesSent`, which for a
frame with a byte lost or bytes put in rests on the checksums of the frames considered
telling them apart, and is not true of every checksum. What can be said of every
checksum is `CutFrameIsUnheard`.

## Plan

What would come next: NTP beside `PicoFetch`, the ranking of scan results beside
`PicoWifi`, and the queue that `PicoWifi` and `FlashStore` share as a composition
instead of free choices.

## Not modelled

JSON, HTML and URL parsing (text processing with unbounded inputs), the encryption
of the profile (a library's), NTP (a request, a reply and a retry, with no state that
another part depends on), drawing and key scanning, LZ4, the emulator (a
single-threaded wrapper of the protocol core), the content server (stateless), and
the build and signing tools. Timing appears only as "the deadline has passed".
