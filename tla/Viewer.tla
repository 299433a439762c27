-------------------------------- MODULE Viewer --------------------------------
(***************************************************************************)
(* The page viewer of the cartridge (src/teletekst.c), entered from the    *)
(* source menu and left for it or for Wi-Fi selection.  A fetch is one     *)
(* step with its outcomes: keys wait in the FIFO meanwhile, and its polls  *)
(* are bounded.  What is on the screen is left out: the model keeps what   *)
(* decides which page is asked for next.                                   *)
(***************************************************************************)
EXTENDS Onboarding

CONSTANTS
  FirstPage, LastPage,  \* 100 and 899
  LastSubpage,          \* highest subpage a page has
  Version               \* the negotiated P2WP version

ASSUME ViewerAssumption ==
  /\ FirstPage \in Nat \ {0} /\ LastPage \in Nat /\ FirstPage < LastPage
  /\ LastSubpage \in Nat /\ Version \in 2..7

Pages    == FirstPage..LastPage
Subpages == 0..LastSubpage
NoPage   == 0

VARIABLES
  autoStart, \* auto_start_source: "off", "custom" or "built in"
  page, subpage, nextSub, next,  \* of viewer_state_t
  paused,    \* rotation_paused
  cycle,     \* cycle_started
  auto,      \* auto_page
  retry,     \* auto_retry
  typed,     \* digits of a page number typed so far
  due,       \* rotation_deadline has come
  outcome,   \* of the last fetch, and for what a page was skipped
  keyed,     \* history: a key was pressed since the last automatic fetch
  chosen,    \* history: the subpage was chosen by hand
  stale      \* history: nextSub is of another page

pageVars    == <<page, subpage, nextSub, next>>
modeVars    == <<paused, cycle, auto, retry, typed, due>>
historyVars == <<keyed, chosen, stale>>
viewerVars  == <<autoStart, pageVars, modeVars, outcome, historyVars>>
vars == <<at, onboardingVars, viewerVars>>

-----------------------------------------------------------------------------
(***************************************************************************)
(* fetch_page.  A reply is a page with its links, the links without all of *)
(* the rows, or nothing.  A failure is the page's ("content": invalid, too *)
(* large, missing, HTTP status, which are errors 5 to 8), the network's,   *)
(* or a P2WP error of the request, whose numbers may also be 5 to 7.       *)
(***************************************************************************)
Failures == {[cause |-> "content", skip |-> TRUE],
             [cause |-> "network", skip |-> FALSE],
             [cause |-> "request", skip |-> TRUE],
             [cause |-> "request", skip |-> FALSE]}
NoFailure == [cause |-> "none", skip |-> FALSE]

Skipped(cause) == IF cause = "content" THEN "skipped for its content"
                                       ELSE "skipped for a request"
Outcomes == {"page", "failed", "skipped for its content",
             "skipped for a request", "skipped for a stale subpage"}

Links     == Pages \cup {NoPage}

Replies(p) ==
  [got : {"page"}, failure : {NoFailure}, sub : Subpages,
   next : {NoPage, p + 1} \cap Links]
  \cup
  [got : {"links"}, failure : {f \in Failures : f.cause = "request"},
   sub : Subpages, next : {NoPage, p + 1} \cap Links]
  \cup
  [got : {"nothing"}, failure : Failures, sub : {0}, next : {NoPage}]

Failed(r) == r.got # "page"

\* A subpage without a link to the next page keeps that of its page.
NextPage(r, s) ==
  IF r.got = "nothing" THEN next
  ELSE IF Version < 4 THEN NoPage
  ELSE IF s = 0 \/ r.next # NoPage THEN r.next
  ELSE next

NextSub(r)   == IF r.got = "nothing" THEN nextSub ELSE r.sub
Stale(p, r)  == r.got = "nothing" /\ nextSub # 0 /\ (stale \/ p # page)
Cycle(r, cy) == cy \/ (r.got = "page" /\ r.sub # 0)

\* The deadline is set when a page will be replaced by itself.
Rearm(isAuto, isPaused, sub, cy) ==
  due' = (due /\ ~(isAuto \/ (~isPaused /\ (sub # 0 \/ cy))))

\* A page asked for by hand.
FetchByHand(p, s) ==
  \E r \in Replies(p) :
    /\ page' = p /\ subpage' = s
    /\ next' = NextPage(r, s)
    /\ nextSub' = NextSub(r) /\ stale' = Stale(p, r)
    /\ cycle' = Cycle(r, FALSE)
    /\ IF Failed(r) THEN UNCHANGED due ELSE Rearm(auto, paused', r.sub, cycle')
    /\ outcome' = IF Failed(r) THEN "failed" ELSE "page"
    /\ typed' = 0 /\ keyed' = TRUE
    /\ UNCHANGED <<onboardingVars, autoStart, auto, retry>>

\* request_page.
RequestPage(p) ==
  /\ paused' = FALSE /\ chosen' = FALSE
  /\ FetchByHand(p, 0)
  /\ UNCHANGED at

\* (mutant) A subpage chosen by hand does not pause rotation.
RequestSubpageOnly(s) ==
  /\ UNCHANGED paused /\ chosen' = TRUE
  /\ FetchByHand(page, s)

\* What select_subpage and step_subpage end with.
RequestSubpage(s) ==
  /\ paused' = TRUE /\ chosen' = TRUE
  /\ FetchByHand(page, s)

-----------------------------------------------------------------------------
(***************************************************************************)
(* The source menu.                                                        *)
(***************************************************************************)

\* What auto-start may be set to; the built-in sources behave alike.
Settings == {"off"} \cup IF Version < 6 THEN {} ELSE {"custom", "built in"}

\* load_settings, as teletekst_start begins.
LoadSettings ==
  /\ at = "settings"
  /\ at' = "source"
  /\ autoStart' \in Settings
  /\ UNCHANGED <<onboardingVars, pageVars, modeVars, outcome, historyVars>>

\* The first fetch of teletekst_start.  The deadline is not initialised.
FirstFetch(isAuto) ==
  \E r \in Replies(FirstPage) :
    /\ page' = FirstPage /\ subpage' = 0
    /\ nextSub' = r.sub /\ next' = r.next
    /\ paused' = FALSE /\ auto' = isAuto /\ retry' = FALSE /\ typed' = 0
    /\ cycle' = Cycle(r, FALSE)
    /\ due' \in IF Failed(r) \/ ~(isAuto \/ cycle') THEN BOOLEAN ELSE {FALSE}
    /\ outcome' = IF Failed(r) THEN "failed" ELSE "page"
    /\ keyed' = ~isAuto /\ chosen' = FALSE /\ stale' = FALSE

\* (mutant) The time-out of the opening screen is remembered.
EnterTimedOut(isAuto) == at' = "viewer" /\ UNCHANGED timedOut /\ FirstFetch(isAuto)

Enter(isAuto) == at' = "viewer" /\ timedOut' = FALSE /\ FirstFetch(isAuto)

\* choose_source as it begins: auto-start, only after an opening screen that
\* timed out, or the menu.
\* The custom source has a URL or has none.
ChooseSource ==
  /\ at = "source"
  /\ \/ timedOut /\ autoStart # "off" /\ Enter(TRUE)
     \/ /\ ~timedOut \/ autoStart # "built in"
        /\ at' = "menu" /\ timedOut' = FALSE
        /\ UNCHANGED <<pageVars, modeVars, outcome, historyVars>>
  /\ UNCHANGED <<started, length, remains, autoStart>>

\* Keys 1, 2 and 3.
PickSource ==
  /\ at = "menu"
  /\ Enter(FALSE)
  /\ UNCHANGED <<started, length, remains, autoStart>>

\* Key A: off, one built-in source after the other, custom.
ToggleAutoStart ==
  /\ at = "menu" /\ Version >= 6
  /\ CASE autoStart = "off"      -> autoStart' = "built in"
       [] autoStart = "built in" -> autoStart' \in {"built in", "custom"}
       [] autoStart = "custom"   -> autoStart' = "off"
  /\ UNCHANGED <<at, onboardingVars, pageVars, modeVars, outcome, historyVars>>

\* Key 0: choose_custom_url, which ends with ENTER or with STOP.
OpenUrl ==
  /\ at = "menu" /\ Version >= 4
  /\ at' = "url"
  /\ UNCHANGED <<onboardingVars, viewerVars>>

LeaveUrl ==
  /\ at = "url"
  /\ \/ Enter(FALSE)
     \/ /\ at' = "menu"
        /\ UNCHANGED <<timedOut, pageVars, modeVars, outcome, historyVars>>
  /\ UNCHANGED <<started, length, remains, autoStart>>

-----------------------------------------------------------------------------
(***************************************************************************)
(* viewer_loop: keys.  Every key but a digit and Backspace ends the entry  *)
(* of a page number.                                                       *)
(***************************************************************************)
Pressed(digits) == typed' = digits /\ keyed' = TRUE

\* A key that only ends the entry of a page number.
Nothing ==
  /\ Pressed(0)
  /\ UNCHANGED <<at, onboardingVars, autoStart, pageVars, paused, cycle, auto,
                 retry, due, outcome, chosen, stale>>

\* START and I, P and N, and the third digit of a page number.  The link to the
\* previous page is any page: nothing else depends on it.
AskForPage ==
  /\ at = "viewer"
  /\ \/ RequestPage(FirstPage)
     \/ Nothing \/ \E previous \in Pages : RequestPage(previous)
     \/ IF next # NoPage THEN RequestPage(next) ELSE Nothing
     \/ typed = 2 /\ \E p \in Pages : RequestPage(p)

\* The first and second digit, and Backspace.
TypeDigit ==
  /\ at = "viewer"
  /\ \/ typed < 2 /\ Pressed(typed + 1)
     \/ typed > 0 /\ Pressed(typed - 1)
  /\ UNCHANGED <<at, onboardingVars, autoStart, pageVars, paused, cycle, auto,
                 retry, due, outcome, chosen, stale>>

\* toggle_rotation.
ToggleRotation ==
  /\ at = "viewer"
  /\ paused' = ~paused
  /\ chosen' = (chosen /\ paused')
  /\ due' = (due /\ (paused' \/ ~(auto \/ nextSub # 0 \/ cycle)))
  /\ Pressed(0)
  /\ UNCHANGED <<at, onboardingVars, autoStart, pageVars, cycle, auto, retry,
                 outcome, stale>>

\* toggle_auto_page.
ToggleAutoPage ==
  /\ at = "viewer"
  /\ auto' = ~auto
  /\ due' = (due /\ ~auto')
  /\ Pressed(0)
  /\ UNCHANGED <<at, onboardingVars, autoStart, pageVars, paused, cycle, retry,
                 outcome, chosen, stale>>

\* step_subpage: < and >.
StepSubpage ==
  /\ at = "viewer"
  /\ \/ IF subpage # 0 THEN RequestSubpage(subpage - 1) ELSE Nothing
     \/ IF nextSub # 0 \/ subpage # 0 THEN RequestSubpage(nextSub) ELSE Nothing
  /\ UNCHANGED at

\* select_subpage: S, then a number, or STOP.
OpenSubpage ==
  /\ at = "viewer"
  /\ at' = "subpage"
  /\ Pressed(0)
  /\ UNCHANGED <<onboardingVars, autoStart, pageVars, paused, cycle, auto,
                 retry, due, outcome, chosen, stale>>

SelectSubpage ==
  /\ at = "subpage"
  /\ at' = "viewer"
  /\ \/ \E s \in Subpages : RequestSubpage(s)
     \/ UNCHANGED <<onboardingVars, viewerVars>>

\* H: the time spent reading help does not count.
Help ==
  /\ at = "viewer"
  /\ Rearm(auto, paused, nextSub, cycle)
  /\ Pressed(0)
  /\ UNCHANGED <<at, onboardingVars, autoStart, pageVars, paused, cycle, auto,
                 retry, outcome, chosen, stale>>

\* STOP returns to the source menu, W to the networks first.
LeaveViewer ==
  /\ at = "viewer"
  /\ \/ at' = "source" /\ UNCHANGED onboardingVars
     \/ Reconfigure
  /\ keyed' = TRUE
  /\ UNCHANGED <<autoStart, pageVars, modeVars, outcome, chosen, stale>>

-----------------------------------------------------------------------------
(***************************************************************************)
(* viewer_loop: the rotation timer.                                        *)
(***************************************************************************)
Rotates ==
  /\ at = "viewer" /\ typed = 0 /\ ~paused
  /\ auto \/ nextSub # 0 \/ cycle

\* The deadline comes; long after, the 16-bit tick makes it lie ahead again.
DeadlineComes ==
  /\ at \in {"viewer", "subpage"} /\ ~due
  /\ due' = TRUE
  /\ UNCHANGED <<at, onboardingVars, autoStart, pageVars, paused, cycle, auto,
                 retry, typed, outcome, historyVars>>

DeadlineWraps ==
  /\ at \in {"viewer", "subpage"} /\ due /\ ~Rotates
  /\ due' = FALSE
  /\ UNCHANGED <<at, onboardingVars, autoStart, pageVars, paused, cycle, auto,
                 retry, typed, outcome, historyVars>>

\* handle_auto_failure, of page p with subpage s and the page that would be
\* tried instead: errors 5 to 8 skip p, the others retry it.
AutoFailure(p, s, r, rt, successor) ==
  IF p = FirstPage
    THEN /\ auto' = FALSE /\ page' = p /\ retry' = rt /\ outcome' = "failed"
         /\ stale' = Stale(p, r)
         /\ UNCHANGED due
    ELSE /\ page' = IF r.failure.skip THEN successor ELSE p
         /\ outcome' = IF ~r.failure.skip THEN "failed"
                       ELSE IF s # 0 /\ Stale(p, r) THEN "skipped for a stale subpage"
                       ELSE Skipped(r.failure.cause)
         /\ stale' = (NextSub(r) # 0 /\ (page' # p \/ Stale(p, r)))
         /\ retry' = TRUE /\ due' = FALSE
         /\ UNCHANGED auto

HandleAutoFailure(p, s, r, rt) ==
  AutoFailure(p, s, r, rt, IF p = LastPage THEN FirstPage ELSE p + 1)

\* What rotate_subpage and request_auto_page do once they know the page p, the
\* subpage s, whether the cycle goes on, and what auto_retry was left.
AutoFetch(p, s, cy, rt) ==
  \E r \in Replies(p) :
    /\ subpage' = s
    /\ next' = NextPage(r, s)
    /\ CASE ~Failed(r) ->
              /\ page' = p /\ nextSub' = r.sub /\ cycle' = Cycle(r, cy)
              /\ Rearm(auto, FALSE, r.sub, cycle')
              /\ retry' = rt /\ stale' = FALSE /\ outcome' = "page"
              /\ UNCHANGED auto
         [] Failed(r) /\ auto ->
              /\ HandleAutoFailure(p, s, r, rt)
              /\ nextSub' = NextSub(r) /\ cycle' = cy
         [] OTHER ->
              /\ page' = p /\ nextSub' = 0 /\ cycle' = FALSE
              /\ retry' = rt /\ stale' = FALSE /\ outcome' = "failed"
              /\ UNCHANGED <<auto, due>>
    /\ keyed' = FALSE
    /\ UNCHANGED <<at, onboardingVars, autoStart, paused, typed, chosen>>

\* (mutant) The next subpage may be the one shown or an earlier one.
RotateSubpageAnywhere ==
  IF nextSub # 0
    THEN AutoFetch(page, nextSub, cycle, retry)
    ELSE AutoFetch(page, 0, FALSE, retry)

RotateSubpage ==
  IF nextSub # 0 /\ nextSub > subpage
    THEN AutoFetch(page, nextSub, cycle, retry)
    ELSE AutoFetch(page, 0, FALSE, retry)

RequestAutoPage ==
  LET following == IF next # NoPage THEN next ELSE FirstPage
  IN AutoFetch(IF retry THEN page ELSE following, 0, FALSE, FALSE)

AutoStep ==
  /\ Rotates /\ due
  /\ IF (nextSub # 0 /\ (~auto \/ nextSub > subpage)) \/ ~auto
       THEN RotateSubpage
       ELSE RequestAutoPage

-----------------------------------------------------------------------------
Init ==
  /\ OnboardingInit
  /\ autoStart = "off"
  /\ page = NoPage /\ subpage = 0 /\ nextSub = 0
  /\ next = NoPage
  /\ paused = FALSE /\ cycle = FALSE /\ auto = FALSE /\ retry = FALSE
  /\ typed = 0 /\ due = FALSE /\ outcome = "page"
  /\ keyed = TRUE /\ chosen = FALSE /\ stale = FALSE

Next ==
  \/ OnboardingNext /\ UNCHANGED viewerVars
  \/ LoadSettings \/ ChooseSource \/ PickSource \/ ToggleAutoStart
  \/ OpenUrl \/ LeaveUrl
  \/ AskForPage \/ TypeDigit \/ ToggleRotation \/ ToggleAutoPage
  \/ StepSubpage \/ OpenSubpage \/ SelectSubpage \/ Help \/ LeaveViewer
  \/ DeadlineComes \/ DeadlineWraps \/ AutoStep

Spec == Init /\ [][Next]_vars

\* The loop of the viewer never waits for a key, and time passes.
Timer    == DeadlineComes \/ AutoStep
FairSpec == Spec /\ WF_vars(Timer)

-----------------------------------------------------------------------------
(***************************************************************************)
(* Properties.                                                             *)
(***************************************************************************)

\* Every variable keeps its range, the waits those of the program.
TypeOK ==
  /\ at \in OnboardingPlaces \cup {"settings", "source", "menu", "url",
                              "viewer", "subpage"}
  /\ timedOut \in BOOLEAN /\ started \in BOOLEAN
  /\ length \in 0..MaxPassword /\ remains \in 0..MaxPassword
  /\ autoStart \in Settings
  /\ page \in Links /\ subpage \in Subpages /\ nextSub \in Subpages
  /\ next \in Links
  /\ {paused, cycle, auto, retry, due, keyed, chosen, stale} \subseteq BOOLEAN
  /\ typed \in 0..2
  /\ outcome \in Outcomes

\* A subpage chosen with S, < or > stays: neither rotation nor automatic pages
\* fetch anything before the user asks for a page or resumes with L or A.
ChosenSubpageStays == chosen => keyed /\ paused

\* Auto-start follows a power-up whose opening screen timed out, and only
\* there: who comes back from the viewer or from Wi-Fi selection gets the menu.
AutostartOnce ==
  [][at = "source" /\ at' = "viewer" => timedOut /\ page = NoPage]_vars

\* A loop over subpages in which every fetch succeeds comes back to the first,
\* whatever subpage numbers the pages name, unless a key is pressed.
RotationReturns ==
  []<>(at # "viewer" \/ ~cycle \/ subpage = 0 \/ keyed \/ outcome # "page")

\* src/README.md:241-243 "Invalid, oversized, missing, or HTTP-error pages are
\* skipped numerically; network failures retry the same page."  A page is not
\* skipped because a P2WP error has the number of such a failure, nor because
\* a subpage of another page was asked of it.
SkipsOnlyFaultyPages ==
  outcome \in {"page", "failed", "skipped for its content"}
=============================================================================
