------------------------------ MODULE FlashStore ------------------------------
(***************************************************************************)
(* What the Pico keeps in flash: the record with the custom URL and the    *)
(* auto-start source (firmware/src/custom_url_store.c) in the last sector  *)
(* but one, the encrypted Wi-Fi profile (firmware/src/wifi_profile.c) in   *)
(* the last.  Core 1 queues saves, one of each kind at a time, and reads   *)
(* the record itself; core 0 takes them in its loop and updates flash with *)
(* core 1 locked out: erase the sector, then program it.  The power may    *)
(* fail between or within the two.                                         *)
(*                                                                         *)
(* The record's fields are kept apart, as erasing, programming and reading *)
(* may stop between them, and its checksum is the contents it was computed *)
(* over: no two contents share one.  The profile is authenticated by       *)
(* AES-GCM: it is whole, absent, or broken.                                *)
(***************************************************************************)
EXTENDS Naturals, Sequences

CONSTANTS
  Urls, NoUrl,         \* valid custom URLs, and the empty one
  Sources, Disabled,   \* menu sources that can start by themselves, and 0xff
  Networks, NoNetwork  \* profiles; NoNetwork when the sector has no magic

Blank   == "0xff"     \* a URL in erased flash, where the source is Disabled
Garbled == "garbled"  \* the text of one URL with the length of another

ASSUME ConstantsAssumption ==
  /\ NoUrl \notin Urls \cup {Blank, Garbled}
  /\ Blank \notin Urls /\ Garbled \notin Urls
  /\ Disabled \notin Sources /\ NoNetwork \notin Networks
Broken  == "broken"   \* a profile that fails authentication

Contents(version, auto, url) == <<version, auto, url>>

\* custom_url_record_t, its fields in the order they lie in flash.  The length
\* of a URL is written as that URL.
Fields == <<"magic", "version", "length", "auto", "checksum", "text">>

Record(version, auto, url) ==
  [magic |-> TRUE, version |-> version, length |-> url, auto |-> auto,
   checksum |-> Contents(version, auto, url), text |-> url]

Erased == [magic |-> FALSE, version |-> 255, length |-> Blank, auto |-> Disabled,
           checksum |-> Contents(255, Disabled, Blank), text |-> Blank]

\* The text as far as its length goes.
TextOf(record) ==
  IF record.length \in {NoUrl, record.text} THEN record.length ELSE Garbled

\* What an interrupted change from one record to another may leave.
Between(from, to) ==
  {[f \in DOMAIN from |-> IF f \in done THEN to[f] ELSE from[f]] :
     done \in SUBSET DOMAIN from}

\* A copy whose first cut fields were made before the record changed.
Torn(from, to, cut) ==
  [f \in DOMAIN from |->
     IF \E i \in 1..cut : Fields[i] = f THEN from[f] ELSE to[f]]

\* (mutant) The checksum is not looked at.
ReadUnchecked(record) ==
  IF ~record.magic THEN "NOT_FOUND"
  ELSE IF record.version \in {1, 2} /\ record.length # Blank THEN "OK"
       ELSE "CORRUPT"

\* custom_url_read_record.
ReadRecord(record) ==
  IF ~record.magic THEN "NOT_FOUND"
  ELSE IF /\ record.version \in {1, 2}
          /\ record.length # Blank
          /\ record.checksum =
               Contents(record.version, record.auto, TextOf(record))
          /\ record.version = 1 => record.length # NoUrl
          /\ record.version = 2 => record.auto \in Sources \cup {Disabled}
       THEN "OK"
       ELSE "CORRUPT"

\* custom_url_store_load and custom_url_store_settings_load, as the handlers
\* tell their results: whatever is wrong, there is no URL and no auto-start.
UrlOf(record) == IF ReadRecord(record) = "OK" THEN TextOf(record) ELSE NoUrl

AutoOf(record) ==
  IF ReadRecord(record) = "OK" /\ record.version = 2
    THEN record.auto
    ELSE Disabled

Settings(record) == [url |-> UrlOf(record), auto |-> AutoOf(record)]
Nothing == [url |-> NoUrl, auto |-> Disabled]

\* (mutant) The record is built from what is asked for alone.
NewRecordAnew(record, s) ==
  IF s.kind = "url" THEN Record(2, Disabled, s.url)
                       ELSE Record(2, s.auto, NoUrl)

\* custom_url_new_record, with the field to save.
NewRecord(record, s) ==
  IF s.kind = "url" THEN Record(2, AutoOf(record), s.url)
                       ELSE Record(2, s.auto, UrlOf(record))

Saves == [kind : {"url"}, url : Urls]
           \cup [kind : {"auto"}, auto : Sources \cup {Disabled}]
NoSave == [kind |-> "none"]
NoOp   == [op |-> "NONE", network |-> NoNetwork]
NoLoad == [magic |-> FALSE]

VARIABLES
  sector,    \* the settings record in flash
  profile,   \* the profile in flash
  save,      \* stored_custom_url_operation and its argument
  profileOp, \* stored_profile_operation and its argument
  pc0,       \* core 0: at "profile" or "settings", or where in an update
  job,       \* what core 0 has taken off a queue
  load,      \* the record as core 1's load began to copy it
  kept       \* history: what every save carried out so far adds up to

vars == <<sector, profile, save, profileOp, pc0, job, load, kept>>

Idle   == pc0 \in {"profile", "settings"}
Locked == pc0 \in {"erase", "program"}  \* core 1 is held in RAM

-----------------------------------------------------------------------------
(***************************************************************************)
(* Core 1's handlers.                                                      *)
(***************************************************************************)

\* CUSTOM_URL_SAVE and SETTINGS_SAVE; WIFI_BUSY while one is queued.
QueueSave(s) ==
  /\ ~Locked /\ load = NoLoad
  /\ save = NoSave
  /\ save' = s
  /\ UNCHANGED <<sector, profile, profileOp, pc0, job, load, kept>>

\* WIFI_PROFILE_SAVE and _DELETE; _CONNECT leaves flash as it is.
QueueProfile(op, n) ==
  /\ ~Locked /\ load = NoLoad
  /\ profileOp = NoOp
  /\ profileOp' = [op |-> op, network |-> n]
  /\ UNCHANGED <<sector, profile, save, pc0, job, load, kept>>

\* CUSTOM_URL_LOAD and SETTINGS_LOAD copy the record without the lock; the
\* lockout may hold core 1 in the middle.
LoadBegin ==
  /\ ~Locked /\ load = NoLoad
  /\ load' = sector
  /\ UNCHANGED <<sector, profile, save, profileOp, pc0, job, kept>>

LoadEnd ==
  /\ ~Locked /\ load # NoLoad
  /\ load' = NoLoad
  /\ UNCHANGED <<sector, profile, save, profileOp, pc0, job, kept>>

\* What the load may tell when it ends now.
Answers == {Settings(Torn(load, sector, cut)) : cut \in 0..Len(Fields)}

-----------------------------------------------------------------------------
(***************************************************************************)
(* Core 0's loop.                                                          *)
(***************************************************************************)

\* wifi_profile_service.
TakeProfileOp ==
  /\ pc0 = "profile"
  /\ profileOp' = NoOp
  /\ IF profileOp # NoOp
       THEN pc0' = "lock" /\ job' = [profileOp EXCEPT !.op = "profile"]
       ELSE pc0' = "settings" /\ UNCHANGED job
  /\ UNCHANGED <<sector, profile, save, load, kept>>

\* (mutant) A record that is already there is left in the queue.
TakeSaveKeepsQueue ==
  /\ pc0 = "settings"
  /\ IF save = NoSave \/ NewRecord(sector, save) = sector
       THEN pc0' = "profile" /\ UNCHANGED <<save, job, kept>>
       ELSE /\ pc0' = "lock" /\ save' = NoSave
            /\ job' = [op |-> "settings", record |-> NewRecord(sector, save)]
            /\ kept' = Settings(NewRecord(sector, save))
  /\ UNCHANGED <<sector, profile, profileOp, load>>

\* custom_url_store_service; a record that is already there is not written.
TakeSave ==
  /\ pc0 = "settings"
  /\ save' = NoSave
  /\ IF save = NoSave \/ NewRecord(sector, save) = sector
       THEN pc0' = "profile" /\ UNCHANGED job
       ELSE /\ pc0' = "lock"
            /\ job' = [op |-> "settings", record |-> NewRecord(sector, save)]
  /\ kept' = CASE save.kind = "url"  -> [kept EXCEPT !.url = save.url]
               [] save.kind = "auto" -> [kept EXCEPT !.auto = save.auto]
               [] OTHER -> kept
  /\ UNCHANGED <<sector, profile, profileOp, load>>

After == IF job.op = "profile" THEN "settings" ELSE "profile"

\* flash_safe_execute cannot stop core 1: the save is lost, and nobody is told
\* but the profile's error byte.
LockFails ==
  /\ pc0 = "lock"
  /\ pc0' = After
  /\ job' = NoOp
  /\ kept' = Settings(sector)
  /\ UNCHANGED <<sector, profile, save, profileOp, load>>

Lock ==
  /\ pc0 = "lock"
  /\ pc0' = "erase"
  /\ UNCHANGED <<sector, profile, save, profileOp, job, load, kept>>

Erase ==
  /\ pc0 = "erase"
  /\ IF job.op = "profile"
       THEN profile' = NoNetwork /\ UNCHANGED sector
       ELSE sector' = Erased /\ UNCHANGED profile
  /\ pc0' = "program"
  /\ UNCHANGED <<save, profileOp, job, load, kept>>

\* A deletion programs nothing.
Program ==
  /\ pc0 = "program"
  /\ IF job.op = "profile"
       THEN profile' = job.network /\ UNCHANGED sector
       ELSE sector' = job.record /\ UNCHANGED profile
  /\ pc0' = After
  /\ job' = NoOp
  /\ UNCHANGED <<save, profileOp, load, kept>>

\* What the sectors may hold when the power fails now.
SectorLeft ==
  IF job.op # "settings" THEN {sector}
  ELSE CASE pc0 = "erase"   -> Between(sector, Erased)
         [] pc0 = "program" -> Between(Erased, job.record)
         [] OTHER -> {sector}

ProfileLeft ==
  IF job.op = "profile" /\ Locked
    THEN {profile, NoNetwork, Broken, job.network}
    ELSE {profile}

\* The queues are gone.
PowerLoss ==
  /\ sector' \in SectorLeft
  /\ profile' \in ProfileLeft
  /\ save' = NoSave /\ profileOp' = NoOp
  /\ pc0' = "profile" /\ job' = NoOp
  /\ load' = NoLoad
  /\ kept' = Settings(sector')

-----------------------------------------------------------------------------
\* The sectors as an older firmware may have left them, whose records had
\* version 1 and no auto-start.
Init ==
  /\ sector \in {Erased} \cup {Record(1, Disabled, u) : u \in Urls}
  /\ profile \in {NoNetwork, Broken}
  /\ save = NoSave /\ profileOp = NoOp
  /\ pc0 = "profile" /\ job = NoOp
  /\ load = NoLoad
  /\ kept = Settings(sector)

Core1 ==
  \/ \E s \in Saves : QueueSave(s)
  \/ \E n \in Networks : QueueProfile("SAVE", n)
  \/ QueueProfile("DELETE", NoNetwork)
  \/ LoadBegin \/ LoadEnd

Core0 == TakeProfileOp \/ TakeSave \/ LockFails \/ Lock \/ Erase \/ Program

Next == Core1 \/ Core0 \/ PowerLoss

Spec == Init /\ [][Next]_vars

\* Core 0 keeps looping.
FairSpec == Spec /\ WF_vars(Core0)

(***************************************************************************)
(* Properties.                                                             *)
(***************************************************************************)

\* Whenever core 0 has no update under way, the loads tell exactly what the
\* saves it took add up to: saving the URL keeps the auto-start source and the
\* other way round, from every kind of record that may be found in flash.
SavesAddUp == Idle => Settings(sector) = kept

\* docs/protocol.md:463 "The record includes a format marker, explicit length,
\* and checksum so incomplete or corrupt data is returned as an empty result":
\* no load tells a URL that nobody saved, whether a power failure cut the record
\* short or an update went on in the middle of the load.
LoadsAreWhole ==
  load # NoLoad /\ ~Locked => \A told \in Answers : told.url # Garbled

\* A power failure leaves the settings of before, those being saved, or none:
\* never the URL of one with the source of the other, whichever fields reached
\* flash.
PowerLossLeavesOne ==
  [][ Settings(sector)' \in
        {Settings(sector), Nothing}
          \cup (IF job.op = "settings" THEN {Settings(job.record)} ELSE {}) ]_vars

\* A queued save does not stay queued, so the next one is not refused for ever.
SaveIsTaken == save # NoSave ~> save = NoSave
=============================================================================
