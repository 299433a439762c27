----------------------------- MODULE Viewer_proofs -----------------------------
(***************************************************************************)
(* Proofs about Viewer and the Onboarding it is entered from: the life of  *)
(* the password, the subpage chosen by hand, auto-start, and the ranges of *)
(* every variable.                                                         *)
(***************************************************************************)
EXTENDS Viewer, TLAPS

\* A time-out of the opening screen is forgotten with the first page.
AutostartInv ==
  /\ timedOut \/ at = "opening" => page = NoPage
  /\ at \in {"menu", "url", "viewer", "subpage"} => ~timedOut

\* Where a finished Wi-Fi selection leads.
LEMMA ReturnPlaces ==
  /\ Return(TRUE) => at' \in {"source", "settings"}
  /\ Return(FALSE) => at' \in {"source", "halted"}
  BY Zenon DEF Return

\* What an automatic fetch leaves alone, and when there is one.
LEMMA AutoStepKeeps ==
  AutoStep => /\ at = "viewer" /\ ~paused
              /\ at' = at /\ timedOut' = timedOut /\ length' = length
              /\ remains' = remains
              /\ paused' = paused /\ chosen' = chosen
  BY Zenon DEF AutoStep, Rotates, RotateSubpage, RequestAutoPage, AutoFetch,
               onboardingVars

\* What a page asked for by hand leaves alone.
LEMMA ByHandKeeps ==
  ASSUME AskForPage \/ StepSubpage \/ SelectSubpage
  PROVE  /\ at \in {"viewer", "subpage"} /\ at' = "viewer"
         /\ timedOut' = timedOut /\ length' = length /\ started' = started
         /\ remains' = remains
  BY Zenon DEF AskForPage, StepSubpage, SelectSubpage, RequestPage, RequestSubpage,
               FetchByHand, Nothing, onboardingVars

-----------------------------------------------------------------------------
\* The password buffer never runs over, and what connected is offered for storage
\* as it is.
PasswordInv ==
  /\ length \in 0..MaxPassword /\ remains \in 0..MaxPassword
  /\ UnusedPasswordIsWiped
  /\ at = "save" => length \in {0} \cup MinPassword..MaxPassword

\* Each step of the cartridge keeps the password where it belongs.
LEMMA PasswordStep == ASSUME PasswordInv, [Next]_vars PROVE PasswordInv'
<1> USE PasswordAssumption
    DEF PasswordInv, UnusedPasswordIsWiped,
        vars, onboardingVars, viewerVars, pageVars, modeVars, historyVars
<1>1. CASE WaitOpening /\ UNCHANGED viewerVars
  BY <1>1 DEF WaitOpening
<1>2. CASE Hello /\ UNCHANGED viewerVars
  BY <1>2 DEF Hello
<1>3. CASE TryProfile /\ UNCHANGED viewerVars
  BY <1>3, ReturnPlaces DEF TryProfile
<1>4. CASE AfterProfileFailed /\ UNCHANGED viewerVars
  BY <1>4 DEF AfterProfileFailed
<1>5. CASE ScanNetworks /\ UNCHANGED viewerVars
  BY <1>5, ReturnPlaces DEF ScanNetworks
<1>6. CASE ChooseNetwork /\ UNCHANGED viewerVars
  BY <1>6, ReturnPlaces DEF ChooseNetwork, Wiped
<1>7. CASE AskToShow /\ UNCHANGED viewerVars
  BY <1>7, ReturnPlaces DEF AskToShow
<1>8. CASE TypePassword /\ UNCHANGED viewerVars
  BY <1>8 DEF TypePassword, Wiped
<1>9. CASE EnterPassword /\ UNCHANGED viewerVars
  BY <1>9 DEF EnterPassword, Wiped
<1>10. CASE StopPassword /\ UNCHANGED viewerVars
  BY <1>10, ReturnPlaces DEF StopPassword, Wiped
<1>11. CASE ConnectSelected /\ UNCHANGED viewerVars
  <2>1. length \in {0} \cup MinPassword..MaxPassword
    BY <1>11 DEF ConnectSelected
  <2>2. remains' \in 0..MaxPassword /\ (remains' # 0 => remains' >= MinPassword)
    BY <1>11, <2>1 DEF ConnectSelected, CopyPassword
  <2>3. CASE at' = "save" /\ UNCHANGED length
    BY <2>1, <2>2, <2>3
  <2>4. CASE Return(FALSE) /\ Wiped
    BY <2>2, <2>4, ReturnPlaces DEF Wiped
  <2> QED
    BY <1>11, <2>3, <2>4 DEF ConnectSelected
<1>12. CASE OfferSave /\ UNCHANGED viewerVars
  <2>1. remains' \in 0..MaxPassword /\ (remains' # 0 => remains' >= MinPassword)
    BY <1>12 DEF OfferSave, CopyPassword
  <2> QED
    BY <1>12, <2>1, ReturnPlaces DEF OfferSave, Wiped
<1>13. CASE LoadSettings
  BY <1>13 DEF LoadSettings
<1>14. CASE ChooseSource
  BY <1>14 DEF ChooseSource, Enter, FirstFetch
<1>15. CASE PickSource
  BY <1>15 DEF PickSource, Enter, FirstFetch
<1>16. CASE ToggleAutoStart
  BY <1>16 DEF ToggleAutoStart
<1>17. CASE OpenUrl
  BY <1>17 DEF OpenUrl
<1>18. CASE LeaveUrl
  BY <1>18 DEF LeaveUrl, Enter, FirstFetch
<1>19. CASE AskForPage
  BY <1>19, ByHandKeeps
<1>20. CASE TypeDigit
  BY <1>20 DEF TypeDigit, Pressed
<1>21. CASE ToggleRotation
  BY <1>21 DEF ToggleRotation, Pressed
<1>22. CASE ToggleAutoPage
  BY <1>22 DEF ToggleAutoPage, Pressed
<1>23. CASE StepSubpage
  BY <1>23, ByHandKeeps
<1>24. CASE OpenSubpage
  BY <1>24 DEF OpenSubpage, Pressed
<1>25. CASE SelectSubpage
  BY <1>25, ByHandKeeps
<1>26. CASE Help
  BY <1>26 DEF Help, Pressed
<1>27. CASE LeaveViewer
  BY <1>27 DEF LeaveViewer, Reconfigure, Wiped
<1>28. CASE DeadlineComes
  BY <1>28 DEF DeadlineComes
<1>29. CASE DeadlineWraps
  BY <1>29 DEF DeadlineWraps
<1>30. CASE AutoStep
  BY <1>30, AutoStepKeeps
<1>31. CASE UNCHANGED vars
  BY <1>31
<1> QED
  BY <1>1, <1>2, <1>3, <1>4, <1>5, <1>6, <1>7, <1>8, <1>9, <1>10, <1>11,
     <1>12, <1>13, <1>14, <1>15, <1>16, <1>17, <1>18, <1>19, <1>20, <1>21,
     <1>22, <1>23, <1>24, <1>25, <1>26, <1>27, <1>28, <1>29, <1>30, <1>31
     DEF Next, OnboardingNext

\* The input buffer of wifi.c holds a password only while it is typed, used to
\* connect and offered for storage; none too short is sent, and what payload[] and
\* request[] keep is of passwords that were used.
THEOREM UnusedPasswordIsWipedHolds == Spec => []UnusedPasswordIsWiped
<1>1. Init => PasswordInv
  BY PasswordAssumption DEF Init, OnboardingInit, PasswordInv, UnusedPasswordIsWiped
<1>2. PasswordInv /\ [Next]_vars => PasswordInv'
  BY PasswordStep
<1>3. PasswordInv => UnusedPasswordIsWiped
  BY DEF PasswordInv
<1> QED
  BY <1>1, <1>2, <1>3, PTL DEF Spec

-----------------------------------------------------------------------------
\* Each step leaves a subpage chosen by hand paused.
LEMMA ChosenStep == ASSUME ChosenSubpageStays, [Next]_vars PROVE ChosenSubpageStays'
<1> USE DEF ChosenSubpageStays,
            vars, onboardingVars, viewerVars, pageVars, modeVars, historyVars
<1>1. CASE WaitOpening /\ UNCHANGED viewerVars
  BY <1>1 DEF WaitOpening
<1>2. CASE Hello /\ UNCHANGED viewerVars
  BY <1>2 DEF Hello
<1>3. CASE TryProfile /\ UNCHANGED viewerVars
  BY <1>3, ReturnPlaces DEF TryProfile
<1>4. CASE AfterProfileFailed /\ UNCHANGED viewerVars
  BY <1>4 DEF AfterProfileFailed
<1>5. CASE ScanNetworks /\ UNCHANGED viewerVars
  BY <1>5, ReturnPlaces DEF ScanNetworks
<1>6. CASE ChooseNetwork /\ UNCHANGED viewerVars
  BY <1>6, ReturnPlaces DEF ChooseNetwork, Wiped
<1>7. CASE AskToShow /\ UNCHANGED viewerVars
  BY <1>7, ReturnPlaces DEF AskToShow
<1>8. CASE TypePassword /\ UNCHANGED viewerVars
  BY <1>8 DEF TypePassword, Wiped
<1>9. CASE EnterPassword /\ UNCHANGED viewerVars
  BY <1>9 DEF EnterPassword, Wiped
<1>10. CASE StopPassword /\ UNCHANGED viewerVars
  BY <1>10, ReturnPlaces DEF StopPassword, Wiped
<1>11. CASE ConnectSelected /\ UNCHANGED viewerVars
  BY <1>11, ReturnPlaces DEF ConnectSelected, Wiped
<1>12. CASE OfferSave /\ UNCHANGED viewerVars
  BY <1>12, ReturnPlaces DEF OfferSave, Wiped
<1>13. CASE LoadSettings
  BY <1>13 DEF LoadSettings
<1>14. CASE ChooseSource
  BY <1>14 DEF ChooseSource, Enter, FirstFetch
<1>15. CASE PickSource
  BY <1>15 DEF PickSource, Enter, FirstFetch
<1>16. CASE ToggleAutoStart
  BY <1>16 DEF ToggleAutoStart
<1>17. CASE OpenUrl
  BY <1>17 DEF OpenUrl
<1>18. CASE LeaveUrl
  BY <1>18 DEF LeaveUrl, Enter, FirstFetch
<1>19. CASE AskForPage
  BY <1>19 DEF AskForPage, RequestPage, FetchByHand, Nothing, Pressed
<1>20. CASE TypeDigit
  BY <1>20 DEF TypeDigit, Pressed
<1>21. CASE ToggleRotation
  BY <1>21 DEF ToggleRotation, Pressed
<1>22. CASE ToggleAutoPage
  BY <1>22 DEF ToggleAutoPage, Pressed
<1>23. CASE StepSubpage
  BY <1>23 DEF StepSubpage, RequestSubpage, FetchByHand, Nothing, Pressed
<1>24. CASE OpenSubpage
  BY <1>24 DEF OpenSubpage, Pressed
<1>25. CASE SelectSubpage
  BY <1>25 DEF SelectSubpage, RequestSubpage, FetchByHand
<1>26. CASE Help
  BY <1>26 DEF Help, Pressed
<1>27. CASE LeaveViewer
  BY <1>27 DEF LeaveViewer, Reconfigure, Wiped
<1>28. CASE DeadlineComes
  BY <1>28 DEF DeadlineComes
<1>29. CASE DeadlineWraps
  BY <1>29 DEF DeadlineWraps
<1>30. CASE AutoStep
  BY <1>30, AutoStepKeeps
<1>31. CASE UNCHANGED vars
  BY <1>31
<1> QED
  BY <1>1, <1>2, <1>3, <1>4, <1>5, <1>6, <1>7, <1>8, <1>9, <1>10, <1>11,
     <1>12, <1>13, <1>14, <1>15, <1>16, <1>17, <1>18, <1>19, <1>20, <1>21,
     <1>22, <1>23, <1>24, <1>25, <1>26, <1>27, <1>28, <1>29, <1>30, <1>31
     DEF Next, OnboardingNext

\* A page that select_subpage or step_subpage asked for is not replaced by
\* rotation or by automatic pages.
THEOREM ChosenSubpageStaysHolds == Spec => []ChosenSubpageStays
<1>1. Init => ChosenSubpageStays
  BY DEF Init, ChosenSubpageStays
<1>2. ChosenSubpageStays /\ [Next]_vars => ChosenSubpageStays'
  BY ChosenStep
<1> QED
  BY <1>1, <1>2, PTL DEF Spec

-----------------------------------------------------------------------------
\* Each step preserves what is known about the time-out.
LEMMA AutostartStep == ASSUME AutostartInv, [Next]_vars PROVE AutostartInv'
<1> USE DEF AutostartInv,
            vars, onboardingVars, viewerVars, pageVars, modeVars, historyVars
<1>1. CASE WaitOpening /\ UNCHANGED viewerVars
  BY <1>1 DEF WaitOpening
<1>2. CASE Hello /\ UNCHANGED viewerVars
  BY <1>2 DEF Hello
<1>3. CASE TryProfile /\ UNCHANGED viewerVars
  BY <1>3, ReturnPlaces DEF TryProfile
<1>4. CASE AfterProfileFailed /\ UNCHANGED viewerVars
  BY <1>4 DEF AfterProfileFailed
<1>5. CASE ScanNetworks /\ UNCHANGED viewerVars
  BY <1>5, ReturnPlaces DEF ScanNetworks
<1>6. CASE ChooseNetwork /\ UNCHANGED viewerVars
  BY <1>6, ReturnPlaces DEF ChooseNetwork, Wiped
<1>7. CASE AskToShow /\ UNCHANGED viewerVars
  BY <1>7, ReturnPlaces DEF AskToShow
<1>8. CASE TypePassword /\ UNCHANGED viewerVars
  BY <1>8 DEF TypePassword, Wiped
<1>9. CASE EnterPassword /\ UNCHANGED viewerVars
  BY <1>9 DEF EnterPassword, Wiped
<1>10. CASE StopPassword /\ UNCHANGED viewerVars
  BY <1>10, ReturnPlaces DEF StopPassword, Wiped
<1>11. CASE ConnectSelected /\ UNCHANGED viewerVars
  BY <1>11, ReturnPlaces DEF ConnectSelected, Wiped
<1>12. CASE OfferSave /\ UNCHANGED viewerVars
  BY <1>12, ReturnPlaces DEF OfferSave, Wiped
<1>13. CASE LoadSettings
  BY <1>13 DEF LoadSettings
<1>14. CASE ChooseSource
  BY <1>14 DEF ChooseSource, Enter, FirstFetch
<1>15. CASE PickSource
  BY <1>15 DEF PickSource, Enter, FirstFetch
<1>16. CASE ToggleAutoStart
  BY <1>16 DEF ToggleAutoStart
<1>17. CASE OpenUrl
  BY <1>17 DEF OpenUrl
<1>18. CASE LeaveUrl
  <2>1. CASE Enter(FALSE)
    BY <2>1 DEF Enter
  <2>2. CASE at' = "menu" /\ UNCHANGED <<timedOut, page>>
    BY <1>18, <2>2 DEF LeaveUrl
  <2> QED
    BY <1>18, <2>1, <2>2 DEF LeaveUrl
<1>19. CASE AskForPage
  BY <1>19, ByHandKeeps
<1>20. CASE TypeDigit
  BY <1>20 DEF TypeDigit, Pressed
<1>21. CASE ToggleRotation
  BY <1>21 DEF ToggleRotation, Pressed
<1>22. CASE ToggleAutoPage
  BY <1>22 DEF ToggleAutoPage, Pressed
<1>23. CASE StepSubpage
  BY <1>23, ByHandKeeps
<1>24. CASE OpenSubpage
  BY <1>24 DEF OpenSubpage, Pressed
<1>25. CASE SelectSubpage
  BY <1>25, ByHandKeeps
<1>26. CASE Help
  BY <1>26 DEF Help, Pressed
<1>27. CASE LeaveViewer
  BY <1>27 DEF LeaveViewer, Reconfigure, Wiped
<1>28. CASE DeadlineComes
  BY <1>28 DEF DeadlineComes
<1>29. CASE DeadlineWraps
  BY <1>29 DEF DeadlineWraps
<1>30. CASE AutoStep
  BY <1>30, AutoStepKeeps
<1>31. CASE UNCHANGED vars
  BY <1>31
<1> QED
  BY <1>1, <1>2, <1>3, <1>4, <1>5, <1>6, <1>7, <1>8, <1>9, <1>10, <1>11,
     <1>12, <1>13, <1>14, <1>15, <1>16, <1>17, <1>18, <1>19, <1>20, <1>21,
     <1>22, <1>23, <1>24, <1>25, <1>26, <1>27, <1>28, <1>29, <1>30, <1>31
     DEF Next, OnboardingNext

\* choose_source starts a source by itself only after an opening screen that
\* timed out, and only before the first page.
THEOREM AutostartOnceHolds == Spec => AutostartOnce
<1>1. Init => AutostartInv
  BY DEF Init, OnboardingInit, AutostartInv, NoPage
<1>2. AutostartInv /\ [Next]_vars => AutostartInv'
  BY AutostartStep
<1>3. AutostartInv /\ [Next]_vars =>
        [at = "source" /\ at' = "viewer" => timedOut /\ page = NoPage]_vars
  <2> SUFFICES ASSUME AutostartInv, [Next]_vars, at = "source", at' = "viewer"
               PROVE  timedOut /\ page = NoPage
    OBVIOUS
  <2> USE DEF AutostartInv,
            vars, onboardingVars, viewerVars, pageVars, modeVars, historyVars
<2>1. CASE WaitOpening /\ UNCHANGED viewerVars
  BY <2>1 DEF WaitOpening
<2>2. CASE Hello /\ UNCHANGED viewerVars
  BY <2>2 DEF Hello
<2>3. CASE TryProfile /\ UNCHANGED viewerVars
  BY <2>3, ReturnPlaces DEF TryProfile
<2>4. CASE AfterProfileFailed /\ UNCHANGED viewerVars
  BY <2>4 DEF AfterProfileFailed
<2>5. CASE ScanNetworks /\ UNCHANGED viewerVars
  BY <2>5, ReturnPlaces DEF ScanNetworks
<2>6. CASE ChooseNetwork /\ UNCHANGED viewerVars
  BY <2>6, ReturnPlaces DEF ChooseNetwork, Wiped
<2>7. CASE AskToShow /\ UNCHANGED viewerVars
  BY <2>7, ReturnPlaces DEF AskToShow
<2>8. CASE TypePassword /\ UNCHANGED viewerVars
  BY <2>8 DEF TypePassword, Wiped
<2>9. CASE EnterPassword /\ UNCHANGED viewerVars
  BY <2>9 DEF EnterPassword, Wiped
<2>10. CASE StopPassword /\ UNCHANGED viewerVars
  BY <2>10, ReturnPlaces DEF StopPassword, Wiped
<2>11. CASE ConnectSelected /\ UNCHANGED viewerVars
  BY <2>11, ReturnPlaces DEF ConnectSelected, Wiped
<2>12. CASE OfferSave /\ UNCHANGED viewerVars
  BY <2>12, ReturnPlaces DEF OfferSave, Wiped
<2>13. CASE LoadSettings
  BY <2>13 DEF LoadSettings
<2>14. CASE ChooseSource
  BY <2>14 DEF ChooseSource, Enter, FirstFetch
<2>15. CASE PickSource
  BY <2>15 DEF PickSource, Enter, FirstFetch
<2>16. CASE ToggleAutoStart
  BY <2>16 DEF ToggleAutoStart
<2>17. CASE OpenUrl
  BY <2>17 DEF OpenUrl
<2>18. CASE LeaveUrl
  BY <2>18 DEF LeaveUrl, Enter, FirstFetch
<2>19. CASE AskForPage
  BY <2>19, ByHandKeeps
<2>20. CASE TypeDigit
  BY <2>20 DEF TypeDigit, Pressed
<2>21. CASE ToggleRotation
  BY <2>21 DEF ToggleRotation, Pressed
<2>22. CASE ToggleAutoPage
  BY <2>22 DEF ToggleAutoPage, Pressed
<2>23. CASE StepSubpage
  BY <2>23, ByHandKeeps
<2>24. CASE OpenSubpage
  BY <2>24 DEF OpenSubpage, Pressed
<2>25. CASE SelectSubpage
  BY <2>25, ByHandKeeps
<2>26. CASE Help
  BY <2>26 DEF Help, Pressed
<2>27. CASE LeaveViewer
  BY <2>27 DEF LeaveViewer, Reconfigure, Wiped
<2>28. CASE DeadlineComes
  BY <2>28 DEF DeadlineComes
<2>29. CASE DeadlineWraps
  BY <2>29 DEF DeadlineWraps
<2>30. CASE AutoStep
  BY <2>30, AutoStepKeeps
<2>31. CASE UNCHANGED vars
  BY <2>31
<2> QED
  BY <2>1, <2>2, <2>3, <2>4, <2>5, <2>6, <2>7, <2>8, <2>9, <2>10, <2>11,
     <2>12, <2>13, <2>14, <2>15, <2>16, <2>17, <2>18, <2>19, <2>20, <2>21,
     <2>22, <2>23, <2>24, <2>25, <2>26, <2>27, <2>28, <2>29, <2>30, <2>31
     DEF Next, OnboardingNext
<1> QED
  BY <1>1, <1>2, <1>3, PTL DEF Spec, AutostartOnce

-----------------------------------------------------------------------------
(***************************************************************************)
(* Types.  The page shown is a page as soon as there is a viewer.          *)
(***************************************************************************)
\* The variables of the onboarding, the flags of the viewer, and its numbers.
PlacesTyped ==
  /\ at \in OnboardingPlaces \cup {"settings", "source", "menu", "url",
                              "viewer", "subpage"}
  /\ timedOut \in BOOLEAN /\ started \in BOOLEAN
  /\ length \in 0..MaxPassword /\ remains \in 0..MaxPassword

FlagsTyped ==
  {paused, cycle, auto, retry, due, keyed, chosen, stale} \subseteq BOOLEAN

ValuesTyped ==
  /\ autoStart \in Settings
  /\ page \in Links /\ subpage \in Subpages /\ nextSub \in Subpages
  /\ next \in Links
  /\ typed \in 0..2
  /\ outcome \in Outcomes
  /\ at \in {"viewer", "subpage"} => page \in Pages

Typed == PlacesTyped /\ FlagsTyped /\ ValuesTyped

\* The page numbers behind the assumptions.
LEMMA PageNumbers ==
  /\ FirstPage \in Pages /\ LastPage \in Pages /\ NoPage \in Links
  /\ 0 \in Subpages
  /\ \A p \in Pages : p \in Links
  /\ \A p \in Pages : p # LastPage => p + 1 \in Pages
  /\ \A p \in Links : p # NoPage => p \in Pages
  BY ViewerAssumption DEF Pages, Links, NoPage, Subpages

\* The links and subpages that a reply names exist.
LEMMA ReplyTypes ==
  ASSUME NEW p, NEW r \in Replies(p)
  PROVE  r.sub \in Subpages /\ r.next \in Links
  BY PageNumbers DEF Replies

\* What the viewer keeps of a reply is in range.
LEMMA KeptTypes ==
  ASSUME Typed, NEW p, NEW r \in Replies(p), NEW s
  PROVE  NextPage(r, s) \in Links /\ NextSub(r) \in Subpages
<1>1. NextPage(r, s) \in {next, NoPage, r.next}
  BY Zenon DEF NextPage
<1>2. NextSub(r) \in {nextSub, r.sub}
  BY DEF NextSub
<1> QED
  BY <1>1, <1>2, ReplyTypes, PageNumbers DEF Typed, FlagsTyped, ValuesTyped

\* The variables that a fetch assigns.
FetchTyped ==
  /\ page \in Pages /\ subpage \in Subpages /\ nextSub \in Subpages
  /\ next \in Links
  /\ {cycle, due, stale, keyed} \subseteq BOOLEAN
  /\ outcome \in Outcomes

\* The first fetch of teletekst_start leaves them in range.
LEMMA FirstFetchTyped ==
  ASSUME NEW isAuto \in BOOLEAN, FirstFetch(isAuto)
  PROVE  /\ FetchTyped'
         /\ paused' \in BOOLEAN /\ auto' \in BOOLEAN /\ retry' \in BOOLEAN
         /\ chosen' \in BOOLEAN /\ typed' \in 0..2
<1>1. PICK r \in Replies(FirstPage) :
        /\ page' = FirstPage /\ subpage' = 0
        /\ nextSub' = r.sub /\ next' = r.next
        /\ paused' = FALSE /\ auto' = isAuto /\ retry' = FALSE /\ typed' = 0
        /\ cycle' = Cycle(r, FALSE)
        /\ due' \in IF Failed(r) \/ ~(isAuto \/ cycle') THEN BOOLEAN ELSE {FALSE}
        /\ outcome' = IF Failed(r) THEN "failed" ELSE "page"
        /\ keyed' = ~isAuto /\ chosen' = FALSE /\ stale' = FALSE
  BY DEF FirstFetch
<1>2. r.sub \in Subpages /\ r.next \in Links
  BY ReplyTypes
<1>3. {cycle', due', stale', keyed'} \subseteq BOOLEAN
  BY <1>1 DEF Cycle
<1>4. outcome' \in Outcomes
  BY <1>1 DEF Outcomes
<1>5. /\ page' \in Pages /\ subpage' \in Subpages /\ nextSub' \in Subpages
      /\ next' \in Links /\ typed' \in 0..2
  BY <1>1, <1>2, PageNumbers
<1>6. /\ paused' \in BOOLEAN /\ auto' \in BOOLEAN /\ retry' \in BOOLEAN
      /\ chosen' \in BOOLEAN
  BY <1>1
<1> QED
  BY <1>3, <1>4, <1>5, <1>6 DEF FetchTyped

\* So does a page asked for by hand.
LEMMA ByHandTyped ==
  ASSUME Typed, NEW p \in Pages, NEW s \in Subpages, FetchByHand(p, s)
  PROVE  FetchTyped' /\ typed' \in 0..2 /\ auto' = auto /\ retry' = retry
         /\ autoStart' = autoStart /\ UNCHANGED onboardingVars
<1>1. PICK r \in Replies(p) :
        /\ page' = p /\ subpage' = s
        /\ next' = NextPage(r, s)
        /\ nextSub' = NextSub(r) /\ stale' = Stale(p, r)
        /\ cycle' = Cycle(r, FALSE)
        /\ IF Failed(r) THEN UNCHANGED due ELSE Rearm(auto, paused', r.sub, cycle')
        /\ outcome' = IF Failed(r) THEN "failed" ELSE "page"
        /\ typed' = 0 /\ keyed' = TRUE
        /\ UNCHANGED <<onboardingVars, autoStart, auto, retry>>
  BY DEF FetchByHand
<1>2. NextPage(r, s) \in Links /\ NextSub(r) \in Subpages
  BY KeptTypes
<1>3. {cycle', due', stale', keyed'} \subseteq BOOLEAN
  BY <1>1 DEF Stale, Cycle, Rearm, Typed, FlagsTyped, ValuesTyped
<1>4. outcome' \in Outcomes
  BY <1>1 DEF Outcomes
<1>5. /\ page' \in Pages /\ subpage' \in Subpages /\ nextSub' \in Subpages
      /\ next' \in Links /\ typed' \in 0..2
  BY <1>1, <1>2
<1>6. FetchTyped'
  BY <1>3, <1>4, <1>5 DEF FetchTyped
<1> QED
  BY <1>1, <1>5, <1>6

\* And a page that the viewer asks for by itself, whatever the reply.
LEMMA AutoFetchTyped ==
  ASSUME Typed, NEW p \in Pages, NEW s \in Subpages, NEW cy \in BOOLEAN,
         NEW rt \in BOOLEAN, AutoFetch(p, s, cy, rt)
  PROVE  /\ FetchTyped' /\ auto' \in BOOLEAN /\ retry' \in BOOLEAN
         /\ UNCHANGED <<at, onboardingVars, autoStart, paused, typed, chosen>>
<1>1. PICK r \in Replies(p) :
        /\ subpage' = s
        /\ next' = NextPage(r, s)
        /\ \/ /\ page' = p /\ nextSub' = r.sub /\ cycle' = Cycle(r, cy)
              /\ Rearm(auto, FALSE, r.sub, cycle')
              /\ retry' = rt /\ stale' = FALSE /\ outcome' = "page"
              /\ UNCHANGED auto
           \/ /\ HandleAutoFailure(p, s, r, rt)
              /\ nextSub' = NextSub(r) /\ cycle' = cy
           \/ /\ page' = p /\ nextSub' = 0 /\ cycle' = FALSE
              /\ retry' = rt /\ stale' = FALSE /\ outcome' = "failed"
              /\ UNCHANGED <<auto, due>>
        /\ keyed' = FALSE
        /\ UNCHANGED <<at, onboardingVars, autoStart, paused, typed, chosen>>
  BY DEF AutoFetch
<1>2. /\ NextPage(r, s) \in Links /\ NextSub(r) \in Subpages
      /\ r.sub \in Subpages /\ 0 \in Subpages
  BY KeptTypes, ReplyTypes, PageNumbers
<1>3. ASSUME HandleAutoFailure(p, s, r, rt)
      PROVE  /\ page' \in Pages /\ outcome' \in Outcomes
             /\ {auto', retry', stale', due'} \subseteq BOOLEAN
  <2>1. page' \in {p, IF p = LastPage THEN FirstPage ELSE p + 1}
    BY <1>3 DEF HandleAutoFailure, AutoFailure
  <2>2. page' \in Pages
    BY <2>1, PageNumbers
  <2>3. outcome' \in Outcomes
    BY <1>3, Zenon DEF HandleAutoFailure, AutoFailure, Outcomes, Skipped
  <2>4. {auto', retry', stale', due'} \subseteq BOOLEAN
    BY <1>3 DEF HandleAutoFailure, AutoFailure, Stale, Typed, FlagsTyped, ValuesTyped
  <2> QED
    BY <2>2, <2>3, <2>4
<1>4. {cycle', due', auto', retry', stale'} \subseteq BOOLEAN
  BY <1>1, <1>3 DEF Cycle, Rearm, Typed, FlagsTyped, ValuesTyped
<1> QED
  BY <1>1, <1>2, <1>3, <1>4 DEF FetchTyped, Outcomes

\* rotate_subpage and request_auto_page ask for a page and a subpage in range.
LEMMA AutoStepTyped ==
  ASSUME Typed, AutoStep
  PROVE  /\ FetchTyped' /\ auto' \in BOOLEAN /\ retry' \in BOOLEAN
         /\ UNCHANGED <<at, onboardingVars, autoStart, paused, typed, chosen>>
<1>1. page \in Pages /\ nextSub \in Subpages /\ cycle \in BOOLEAN
      /\ retry \in BOOLEAN /\ next \in Links
  BY DEF AutoStep, Rotates, Typed, FlagsTyped, ValuesTyped
<1>2. CASE RotateSubpage
  BY <1>1, <1>2, AutoFetchTyped, PageNumbers DEF RotateSubpage
<1>3. CASE RequestAutoPage
  BY <1>1, <1>3, AutoFetchTyped, PageNumbers DEF RequestAutoPage
<1> QED
  BY <1>2, <1>3 DEF AutoStep

\* Wi-Fi selection does not end in the viewer itself.
LEMMA OnboardingPlacesOnly ==
  ASSUME PlacesTyped, OnboardingNext
  PROVE  PlacesTyped' /\ at' \notin {"viewer", "subpage"}
<1> USE PasswordAssumption
    DEF PlacesTyped, OnboardingPlaces, onboardingVars
<1>0. 0 \in 0..MaxPassword /\ (CopyPassword => remains' \in 0..MaxPassword)
  BY DEF CopyPassword
<1>1. CASE WaitOpening \/ Hello \/ AfterProfileFailed
  BY <1>1 DEF WaitOpening, Hello, AfterProfileFailed
<1>2. ASSUME Return(TRUE) \/ Return(FALSE), UNCHANGED timedOut,
             length' \in 0..MaxPassword, remains' \in 0..MaxPassword
      PROVE  PlacesTyped' /\ at' \notin {"viewer", "subpage"}
  <2>1. at' \in {"source", "settings", "halted"}
    BY <1>2, ReturnPlaces
  <2>2. started' \in BOOLEAN
    BY <1>2 DEF Return
  <2> QED
    BY <1>2, <2>1, <2>2
<1>3. CASE TryProfile \/ ScanNetworks \/ AskToShow
  BY <1>2, <1>3 DEF TryProfile, ScanNetworks, AskToShow
<1>4. CASE ChooseNetwork \/ ConnectSelected
  BY <1>0, <1>2, <1>4 DEF ChooseNetwork, ConnectSelected, Wiped
<1>5. CASE TypePassword \/ EnterPassword
  BY <1>5 DEF TypePassword, EnterPassword, Wiped
<1>6. CASE StopPassword \/ OfferSave
  BY <1>0, <1>2, <1>6 DEF StopPassword, OfferSave, Wiped
<1> QED
  BY <1>1, <1>3, <1>4, <1>5, <1>6 DEF OnboardingNext

\* Each step leaves the variables of the onboarding in range.
LEMMA PlacesStep == ASSUME Typed, [Next]_vars PROVE PlacesTyped'
<1> USE PasswordAssumption
    DEF Typed, PlacesTyped, OnboardingPlaces, vars, onboardingVars, viewerVars
<1>1. CASE OnboardingNext
  BY <1>1, OnboardingPlacesOnly
<1>2. CASE LoadSettings \/ ToggleAutoStart \/ OpenUrl
  BY <1>2 DEF LoadSettings, ToggleAutoStart, OpenUrl
<1>3. CASE ChooseSource \/ PickSource \/ LeaveUrl
  BY <1>3 DEF ChooseSource, PickSource, LeaveUrl, Enter
<1>4. CASE AskForPage \/ StepSubpage \/ SelectSubpage
  BY <1>4, ByHandKeeps
<1>5. CASE TypeDigit \/ ToggleRotation \/ ToggleAutoPage \/ OpenSubpage \/ Help
  BY <1>5 DEF TypeDigit, ToggleRotation, ToggleAutoPage, OpenSubpage, Help
<1>6. CASE LeaveViewer
  BY <1>6 DEF LeaveViewer, Reconfigure, Wiped
<1>7. CASE DeadlineComes \/ DeadlineWraps
  BY <1>7 DEF DeadlineComes, DeadlineWraps
<1>8. CASE AutoStep
  BY <1>8, AutoStepTyped
<1>9. CASE UNCHANGED vars
  BY <1>9
<1> QED
  BY <1>1, <1>2, <1>3, <1>4, <1>5, <1>6, <1>7, <1>8, <1>9 DEF Next

\* Each step leaves the flags Boolean.
LEMMA FlagsStep == ASSUME Typed, [Next]_vars PROVE FlagsTyped'
<1> USE DEF Typed, FlagsTyped, FetchTyped, vars, viewerVars, pageVars, modeVars,
            historyVars
<1>1. CASE UNCHANGED viewerVars
  BY <1>1
<1>2. CASE LoadSettings
  BY <1>2 DEF LoadSettings
<1>3. CASE ChooseSource
  <2>1. CASE Enter(TRUE)
    BY <1>3, <2>1, FirstFetchTyped DEF ChooseSource, Enter
  <2>2. CASE at' = "menu" /\ UNCHANGED <<pageVars, modeVars, outcome, historyVars>>
    BY <1>3, <2>2 DEF ChooseSource
  <2> QED
    BY <1>3, <2>1, <2>2 DEF ChooseSource
<1>4. CASE PickSource
  BY <1>4, FirstFetchTyped DEF PickSource, Enter
<1>5. CASE ToggleAutoStart
  BY <1>5 DEF ToggleAutoStart
<1>6. CASE OpenUrl
  BY <1>6 DEF OpenUrl
<1>7. CASE LeaveUrl
  <2>1. CASE Enter(FALSE)
    BY <1>7, <2>1, FirstFetchTyped DEF LeaveUrl, Enter
  <2>2. CASE at' = "menu" /\ UNCHANGED <<pageVars, modeVars, outcome, historyVars>>
    BY <1>7, <2>2 DEF LeaveUrl
  <2> QED
    BY <1>7, <2>1, <2>2 DEF LeaveUrl
<1>8. CASE AskForPage
  <2>1. ASSUME NEW p \in Pages, RequestPage(p) PROVE FlagsTyped'
    BY <2>1, ByHandTyped, PageNumbers DEF RequestPage
  <2>2. CASE Nothing
    BY <2>2 DEF Nothing, Pressed
  <2>3. next \in Links
    BY DEF Typed, ValuesTyped
  <2> QED
    BY <1>8, <2>1, <2>2, <2>3, PageNumbers DEF AskForPage
<1>9. CASE TypeDigit
  BY <1>9 DEF TypeDigit, Pressed
<1>10. CASE ToggleRotation
  BY <1>10 DEF ToggleRotation, Pressed
<1>11. CASE ToggleAutoPage
  BY <1>11 DEF ToggleAutoPage, Pressed
<1>12. CASE StepSubpage
  <2>0. page \in Pages
    BY <1>12 DEF StepSubpage, Typed, ValuesTyped
  <2>1. ASSUME NEW sub \in Subpages, RequestSubpage(sub) PROVE FlagsTyped'
    BY <2>0, <2>1, ByHandTyped DEF RequestSubpage
  <2>2. CASE Nothing
    BY <2>2 DEF Nothing, Pressed
  <2>3. nextSub \in Subpages /\ (subpage # 0 => subpage - 1 \in Subpages)
    BY ViewerAssumption DEF Subpages, Typed, ValuesTyped
  <2> QED
    BY <1>12, <2>1, <2>2, <2>3 DEF StepSubpage
<1>13. CASE OpenSubpage
  BY <1>13 DEF OpenSubpage, Pressed
<1>14. CASE SelectSubpage
  <2>0. page \in Pages
    BY <1>14 DEF SelectSubpage, Typed, ValuesTyped
  <2>1. ASSUME NEW sub \in Subpages, RequestSubpage(sub) PROVE FlagsTyped'
    BY <2>0, <2>1, ByHandTyped DEF RequestSubpage
  <2>2. CASE UNCHANGED viewerVars
    BY <1>14, <2>2 DEF SelectSubpage
  <2> QED
    BY <1>14, <2>1, <2>2 DEF SelectSubpage
<1>15. CASE Help
  BY <1>15 DEF Help, Pressed, Rearm
<1>16. CASE LeaveViewer
  BY <1>16 DEF LeaveViewer, Reconfigure, Wiped
<1>17. CASE DeadlineComes
  BY <1>17 DEF DeadlineComes
<1>18. CASE DeadlineWraps
  BY <1>18 DEF DeadlineWraps
<1>19. CASE AutoStep
  BY <1>19, AutoStepTyped
<1>20. CASE UNCHANGED vars
  BY <1>20
<1> QED
  BY <1>1, <1>2, <1>3, <1>4, <1>5, <1>6, <1>7, <1>8, <1>9, <1>10, <1>11,
     <1>12, <1>13, <1>14, <1>15, <1>16, <1>17, <1>18, <1>19, <1>20 DEF Next

\* Each step leaves the numbers in range.
LEMMA ValuesStep == ASSUME Typed, [Next]_vars PROVE ValuesTyped'
<1> USE PageNumbers
    DEF Typed, ValuesTyped, FetchTyped, vars, viewerVars, pageVars, modeVars,
        historyVars
<1>1. CASE OnboardingNext /\ UNCHANGED viewerVars
  BY <1>1, OnboardingPlacesOnly
<1>2. CASE LoadSettings
  BY <1>2 DEF LoadSettings
<1>3. CASE ChooseSource
  <2>1. CASE Enter(TRUE)
    BY <1>3, <2>1, FirstFetchTyped DEF ChooseSource, Enter
  <2>2. CASE at' = "menu" /\ UNCHANGED <<pageVars, modeVars, outcome, historyVars>>
    BY <1>3, <2>2 DEF ChooseSource
  <2> QED
    BY <1>3, <2>1, <2>2 DEF ChooseSource
<1>4. CASE PickSource
  BY <1>4, FirstFetchTyped DEF PickSource, Enter
<1>5. CASE ToggleAutoStart
  <2>1. ~(Version < 6)
    <3>1. Version >= 6
      BY <1>5, Zenon DEF ToggleAutoStart
    <3> QED
      BY <3>1, ViewerAssumption
  <2>2. {"off", "custom", "built in"} \subseteq Settings
    BY <2>1 DEF Settings
  <2>3. autoStart \in {"off", "custom", "built in"}
    BY DEF Settings
  <2>4. autoStart' \in {"off", "custom", "built in"}
    BY <1>5, <2>3, Zenon DEF ToggleAutoStart
  <2> QED
    BY <1>5, <2>2, <2>4 DEF ToggleAutoStart
<1>6. CASE OpenUrl
  BY <1>6 DEF OpenUrl
<1>7. CASE LeaveUrl
  <2>1. CASE Enter(FALSE)
    BY <1>7, <2>1, FirstFetchTyped DEF LeaveUrl, Enter
  <2>2. CASE at' = "menu" /\ UNCHANGED <<pageVars, modeVars, outcome, historyVars>>
    BY <1>7, <2>2 DEF LeaveUrl
  <2> QED
    BY <1>7, <2>1, <2>2 DEF LeaveUrl
<1>8. CASE AskForPage
  <2>1. ASSUME NEW p \in Pages, RequestPage(p) PROVE ValuesTyped'
    BY <2>1, ByHandTyped, PageNumbers DEF RequestPage
  <2>2. CASE Nothing
    BY <2>2 DEF Nothing, Pressed
  <2>3. next \in Links
    BY DEF Typed, ValuesTyped
  <2> QED
    BY <1>8, <2>1, <2>2, <2>3, PageNumbers DEF AskForPage
<1>9. CASE TypeDigit
  BY <1>9 DEF TypeDigit, Pressed
<1>10. CASE ToggleRotation
  BY <1>10 DEF ToggleRotation, Pressed
<1>11. CASE ToggleAutoPage
  BY <1>11 DEF ToggleAutoPage, Pressed
<1>12. CASE StepSubpage
  <2>0. page \in Pages
    BY <1>12 DEF StepSubpage, Typed, ValuesTyped
  <2>1. ASSUME NEW sub \in Subpages, RequestSubpage(sub) PROVE ValuesTyped'
    BY <2>0, <2>1, ByHandTyped DEF RequestSubpage
  <2>2. CASE Nothing
    BY <2>2 DEF Nothing, Pressed
  <2>3. nextSub \in Subpages /\ (subpage # 0 => subpage - 1 \in Subpages)
    BY ViewerAssumption DEF Subpages, Typed, ValuesTyped
  <2> QED
    BY <1>12, <2>1, <2>2, <2>3 DEF StepSubpage
<1>13. CASE OpenSubpage
  BY <1>13 DEF OpenSubpage, Pressed
<1>14. CASE SelectSubpage
  <2>0. page \in Pages
    BY <1>14 DEF SelectSubpage, Typed, ValuesTyped
  <2>1. ASSUME NEW sub \in Subpages, RequestSubpage(sub) PROVE ValuesTyped'
    BY <2>0, <2>1, ByHandTyped DEF RequestSubpage
  <2>2. CASE UNCHANGED viewerVars
    BY <1>14, <2>2 DEF SelectSubpage
  <2> QED
    BY <1>14, <2>1, <2>2 DEF SelectSubpage
<1>15. CASE Help
  BY <1>15 DEF Help, Pressed, Rearm
<1>16. CASE LeaveViewer
  BY <1>16 DEF LeaveViewer, Reconfigure, Wiped
<1>17. CASE DeadlineComes
  BY <1>17 DEF DeadlineComes
<1>18. CASE DeadlineWraps
  BY <1>18 DEF DeadlineWraps
<1>19. CASE AutoStep
  BY <1>19, AutoStepTyped
<1>20. CASE UNCHANGED vars
  BY <1>20
<1> QED
  BY <1>1, <1>2, <1>3, <1>4, <1>5, <1>6, <1>7, <1>8, <1>9, <1>10, <1>11,
     <1>12, <1>13, <1>14, <1>15, <1>16, <1>17, <1>18, <1>19, <1>20 DEF Next

\* Every variable of the cartridge keeps its range: no page or subpage number
\* outside those of the service is ever asked for, by hand or automatically.
THEOREM TypeCorrect == Spec => []TypeOK
<1>1. Init => Typed
  <2> SUFFICES ASSUME Init PROVE Typed
    OBVIOUS
  <2>1. PlacesTyped
    <3>1. 0 \in 0..MaxPassword
      BY PasswordAssumption
    <3> QED
      BY <3>1 DEF Init, OnboardingInit, PlacesTyped, OnboardingPlaces
  <2>2. FlagsTyped
    BY DEF Init, FlagsTyped
  <2>3. ValuesTyped
    BY PageNumbers DEF Init, OnboardingInit, ValuesTyped, Settings, Outcomes
  <2> QED
    BY <2>1, <2>2, <2>3 DEF Typed
<1>2. Typed /\ [Next]_vars => Typed'
  BY PlacesStep, FlagsStep, ValuesStep DEF Typed
<1>3. Typed => TypeOK
  BY DEF Typed, PlacesTyped, FlagsTyped, ValuesTyped, TypeOK
<1> QED
  BY <1>1, <1>2, <1>3, PTL DEF Spec
=============================================================================
