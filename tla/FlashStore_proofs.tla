--------------------------- MODULE FlashStore_proofs ---------------------------
(***************************************************************************)
(* Proofs about FlashStore: what saves add up to, for any URLs and sources *)
(* and from whatever an interrupted update left in the sector.             *)
(***************************************************************************)
EXTENDS FlashStore, TLAPS

(***************************************************************************)
(* What custom_url_new_record makes of any record.                         *)
(***************************************************************************)
\* The source kept for a save of the URL is one that may be stored.
LEMMA AutoOfSane == ASSUME NEW record PROVE AutoOf(record) \in Sources \cup {Disabled}
  BY DEF AutoOf, ReadRecord

\* The URL kept for a save of the source is not that of erased flash.
LEMMA UrlOfSane == ASSUME NEW record PROVE UrlOf(record) # Blank
  BY ConstantsAssumption DEF UrlOf, ReadRecord, TextOf, Blank, Garbled

\* A record of version 2 as it is written reads back as what it was made of.
LEMMA RecordReads ==
  ASSUME NEW auto \in Sources \cup {Disabled}, NEW url, url # Blank
  PROVE  Settings(Record(2, auto, url)) = [url |-> url, auto |-> auto]
<1> DEFINE r == Record(2, auto, url)
<1>1. /\ r.magic = TRUE /\ r.version = 2 /\ r.length = url /\ r.auto = auto
      /\ r.text = url /\ r.checksum = Contents(2, auto, url)
  BY DEF Record
<1>2. TextOf(r) = url
  BY <1>1 DEF TextOf
<1> HIDE DEF r
<1>3. ReadRecord(r) = "OK"
  BY <1>1, <1>2 DEF ReadRecord
<1>4. Settings(r) = [url |-> url, auto |-> auto]
  BY <1>1, <1>2, <1>3 DEF Settings, UrlOf, AutoOf
<1> QED
  BY <1>4 DEF r

\* custom_url_new_record changes the field to save and keeps the other,
\* whatever the record it found.
THEOREM NewRecordAdds ==
  ASSUME NEW record, NEW s \in Saves
  PROVE  Settings(NewRecord(record, s)) =
           IF s.kind = "url" THEN [Settings(record) EXCEPT !.url = s.url]
                             ELSE [Settings(record) EXCEPT !.auto = s.auto]
<1>1. CASE s \in [kind : {"url"}, url : Urls]
  <2>1. s.kind = "url" /\ s.url # Blank
    BY <1>1, ConstantsAssumption
  <2>2. Settings(Record(2, AutoOf(record), s.url)) =
          [url |-> s.url, auto |-> AutoOf(record)]
    BY <2>1, AutoOfSane, RecordReads
  <2> QED
    BY <2>1, <2>2 DEF NewRecord, Settings
<1>2. CASE s \in [kind : {"auto"}, auto : Sources \cup {Disabled}]
  <2>1. s.kind = "auto" /\ s.auto \in Sources \cup {Disabled}
    BY <1>2
  <2>2. Settings(Record(2, s.auto, UrlOf(record))) =
          [url |-> UrlOf(record), auto |-> s.auto]
    BY <2>1, UrlOfSane, RecordReads
  <2> QED
    BY <2>1, <2>2 DEF NewRecord, Settings
<1> QED
  BY <1>1, <1>2 DEF Saves

-----------------------------------------------------------------------------
(***************************************************************************)
(* The queues, the places and the jobs.                                    *)
(***************************************************************************)
ProfileOps  == {"SAVE", "DELETE"}
Core0Places == {"profile", "settings", "lock", "erase", "program"}

Updating == pc0 \in {"lock", "erase", "program"}

Queues ==
  /\ save \in Saves \cup {NoSave}
  /\ profileOp \in [op : ProfileOps \cup {"NONE"},
                     network : Networks \cup {NoNetwork}]
  /\ pc0 \in Core0Places
  /\ Updating => job.op \in {"profile", "settings"}

\* The saves that core 0 has taken are in the sector or in the record that it
\* is about to write there.
Promise ==
  kept = IF Updating /\ job.op = "settings" THEN Settings(job.record)
                                            ELSE Settings(sector)

AddUpInv == Queues /\ Promise

LEMMA AddUpStep == AddUpInv /\ [Next]_vars => AddUpInv'
<1> SUFFICES ASSUME AddUpInv, [Next]_vars PROVE AddUpInv'
  OBVIOUS
<1> USE DEF AddUpInv, Queues, Promise, Updating, Core0Places, vars
<1>1. ASSUME NEW s \in Saves, QueueSave(s) PROVE AddUpInv'
  BY <1>1 DEF QueueSave
<1>2. ASSUME NEW op \in ProfileOps, NEW n \in Networks \cup {NoNetwork},
             QueueProfile(op, n)
      PROVE  AddUpInv'
  BY <1>2 DEF QueueProfile
<1>3. CASE LoadBegin
  BY <1>3 DEF LoadBegin
<1>4. CASE LoadEnd
  BY <1>4 DEF LoadEnd
<1>5. CASE TakeProfileOp
  <2>1. pc0' = "lock" => job'.op = "profile"
    BY <1>5 DEF TakeProfileOp
  <2> QED
    BY <1>5, <2>1 DEF TakeProfileOp, NoOp, ProfileOps
<1>6. CASE TakeSave
  <2> USE DEF TakeSave
  <2>1. Queues'
    BY <1>6
  <2>2. CASE save = NoSave
    <3>1. kept' = kept
      BY <1>6, <2>2 DEF NoSave
    <3> QED
      BY <1>6, <2>1, <2>2, <3>1
  <2>3. CASE save \in Saves
    <3>1. save # NoSave
      BY <2>3 DEF Saves, NoSave
    <3>2. save.kind \in {"url", "auto"}
      BY <2>3 DEF Saves
    <3>3. kept = Settings(sector)
      BY <1>6
    <3>4. CASE save.kind = "url"
      <4>1. kept' = [kept EXCEPT !.url = save.url]
        BY <1>6, <3>4
      <4>2. kept' = Settings(NewRecord(sector, save))
        BY <2>3, <3>3, <3>4, <4>1, NewRecordAdds
      <4> QED
        BY <1>6, <2>1, <3>1, <4>2
    <3>5. CASE save.kind = "auto"
      <4>1. kept' = [kept EXCEPT !.auto = save.auto]
        BY <1>6, <3>5
      <4>2. kept' = Settings(NewRecord(sector, save))
        BY <2>3, <3>3, <3>5, <4>1, NewRecordAdds
      <4> QED
        BY <1>6, <2>1, <3>1, <4>2
    <3> QED
      BY <3>2, <3>4, <3>5
  <2> QED
    BY <2>2, <2>3
<1>7. CASE LockFails
  BY <1>7 DEF LockFails, After
<1>8. CASE Lock
  BY <1>8 DEF Lock
<1>9. CASE Erase
  BY <1>9 DEF Erase
<1>10. CASE Program
  BY <1>10 DEF Program, After
<1>11. CASE PowerLoss
  BY <1>11 DEF PowerLoss, NoOp
<1>12. CASE UNCHANGED vars
  BY <1>12
<1> QED
  BY <1>1, <1>2, <1>3, <1>4, <1>5, <1>6, <1>7, <1>8, <1>9, <1>10, <1>11, <1>12
     DEF Next, Core1, Core0, ProfileOps

\* custom_url_store_save and _settings_save, carried out by core 0 in any order
\* and over power failures: whenever no update is under way, the loads tell
\* what the saves add up to.
THEOREM SavesAddUpHolds == Spec => []SavesAddUp
<1>1. Init => AddUpInv
  BY DEF Init, AddUpInv, Queues, Promise, Updating, Core0Places, NoOp
<1>2. AddUpInv => SavesAddUp
  BY DEF AddUpInv, Promise, Updating, SavesAddUp, Idle
<1> QED
  BY <1>1, <1>2, AddUpStep, PTL DEF Spec

-----------------------------------------------------------------------------
(***************************************************************************)
(* Interrupted updates.                                                    *)
(***************************************************************************)

Names == {"magic", "version", "length", "auto", "checksum", "text"}

\* Each field of x is one of a or one of b.
Mix(x, a, b) ==
  /\ x.magic \in {a.magic, b.magic} /\ x.version \in {a.version, b.version}
  /\ x.length \in {a.length, b.length} /\ x.auto \in {a.auto, b.auto}
  /\ x.checksum \in {a.checksum, b.checksum} /\ x.text \in {a.text, b.text}

\* The record is part of one that was written and erased for the rest.
PartOf(r, v, a, u) ==
  /\ v # 255 /\ u \notin {Blank, Garbled}
  /\ Mix(r, Erased, Record(v, a, u))

Partial(r) == \E v, a, u : PartOf(r, v, a, u)

\* Such a record can be read only if all that matters of it is there.
LEMMA PartialReads ==
  ASSUME NEW r, NEW v, NEW a, NEW u, PartOf(r, v, a, u), ReadRecord(r) = "OK"
  PROVE  /\ r.magic /\ r.version = v /\ r.auto = a /\ r.length = u
         /\ TextOf(r) = u /\ r.checksum = Contents(v, a, u)
<1>1. /\ r.magic /\ r.version \in {1, 2}
      /\ r.checksum = Contents(r.version, r.auto, TextOf(r))
  BY DEF ReadRecord
<1>2. r.version = v
  BY <1>1 DEF PartOf, Mix, Erased, Record
<1>3. r.checksum \in {Contents(255, Disabled, Blank), Contents(v, a, u)}
  BY DEF PartOf, Mix, Erased, Record
<1>4. r.checksum = Contents(v, a, u)
  BY <1>1, <1>2, <1>3 DEF PartOf, Contents
<1>5. r.auto = a /\ TextOf(r) = u
  BY <1>1, <1>2, <1>4 DEF Contents
<1>6. r.length = u
  BY <1>5 DEF TextOf, PartOf
<1> QED
  BY <1>1, <1>2, <1>4, <1>5, <1>6

\* What is erased of it makes it no other record.
LEMMA ErasingReads ==
  ASSUME NEW r, NEW e, Partial(r), Mix(e, r, Erased)
  PROVE  Partial(e) /\ Settings(e) \in {Settings(r), Nothing}
<1>1. PICK v, a, u : PartOf(r, v, a, u)
  BY DEF Partial
<1>2. PartOf(e, v, a, u)
  BY <1>1 DEF PartOf, Mix
<1>3. CASE ReadRecord(e) = "OK"
  <2>1. /\ e.magic /\ e.version = v /\ e.auto = a /\ e.length = u
        /\ TextOf(e) = u /\ e.checksum = Contents(v, a, u)
    BY <1>2, <1>3, PartialReads
  <2>2. u # Blank /\ u # Garbled /\ v # 255
    BY <1>1 DEF PartOf
  <2>3. r.magic /\ r.version = v /\ r.length = u
    BY <2>1, <2>2 DEF Mix, Erased
  <2>4. r.auto = a
    BY <1>1, <2>1 DEF PartOf, Mix, Erased, Record
  <2>5. r.checksum = Contents(v, a, u)
    BY <2>1, <2>2 DEF Mix, Erased, Contents
  <2>6. TextOf(r) = u
    BY <2>1, <2>2, <2>3 DEF Mix, Erased, TextOf
  <2>7. ReadRecord(r) = "OK"
    BY <1>3, <2>1, <2>3, <2>4, <2>5, <2>6 DEF ReadRecord
  <2>8. Settings(e) = Settings(r)
    BY <1>3, <2>1, <2>3, <2>4, <2>6, <2>7 DEF Settings, UrlOf, AutoOf
  <2> QED
    BY <1>2, <2>8 DEF Partial
<1>4. CASE ReadRecord(e) # "OK"
  BY <1>2, <1>4 DEF Partial, Settings, UrlOf, AutoOf, Nothing
<1> QED
  BY <1>3, <1>4

\* Nor is what is programmed of a new one.
LEMMA ProgrammingReads ==
  ASSUME NEW a \in Sources \cup {Disabled}, NEW u, u \notin {Blank, Garbled},
         NEW e, Mix(e, Erased, Record(2, a, u))
  PROVE  Partial(e) /\ Settings(e) \in {Settings(Record(2, a, u)), Nothing}
<1>1. PartOf(e, 2, a, u)
  BY DEF PartOf
<1>2. CASE ReadRecord(e) = "OK"
  <2>1. e.version = 2 /\ e.auto = a /\ TextOf(e) = u
    BY <1>1, <1>2, PartialReads
  <2> QED
    BY <1>1, <1>2, <2>1, RecordReads DEF Partial, Settings, UrlOf, AutoOf
<1>3. CASE ReadRecord(e) # "OK"
  BY <1>1, <1>3 DEF Partial, Settings, UrlOf, AutoOf, Nothing
<1> QED
  BY <1>2, <1>3

\* Between makes such mixtures.
LEMMA BetweenMixes ==
  ASSUME NEW from, NEW to, NEW x \in Between(from, to),
         DOMAIN from = Names
  PROVE  /\ Mix(x, from, to)
         /\ DOMAIN x = Names
<1>1. PICK done : x = [f \in DOMAIN from |-> IF f \in done THEN to[f] ELSE from[f]]
  BY DEF Between
<1> QED
  BY <1>1 DEF Mix, Names

-----------------------------------------------------------------------------
Saving == \E a \in Sources \cup {Disabled} : \E u :
            u \notin {Blank, Garbled} /\ job.record = Record(2, a, u)

\* The sector holds part of one record, and a job is one worth writing.
SectorInv ==
  /\ Partial(sector) /\ DOMAIN sector = Names
  /\ job.op = "settings" => Saving

\* The URL of part of a record is one that was saved.
LEMMA PartialUrl == ASSUME NEW r, Partial(r) PROVE UrlOf(r) \notin {Blank, Garbled}
<1>1. PICK v, a, u : PartOf(r, v, a, u)
  BY DEF Partial
<1>2. CASE ReadRecord(r) = "OK"
  BY <1>1, <1>2, PartialReads DEF UrlOf, PartOf
<1>3. CASE ReadRecord(r) # "OK"
  BY <1>3, ConstantsAssumption DEF UrlOf
<1> QED
  BY <1>2, <1>3

\* What custom_url_new_record makes of such a sector is worth writing.
LEMMA NewRecordSaves ==
  ASSUME NEW r, Partial(r), NEW s \in Saves
  PROVE  \E a \in Sources \cup {Disabled} : \E u :
           u \notin {Blank, Garbled} /\ NewRecord(r, s) = Record(2, a, u)
<1>1. CASE s \in [kind : {"url"}, url : Urls]
  <2>1. s.kind = "url" /\ s.url \notin {Blank, Garbled}
    BY <1>1, ConstantsAssumption
  <2> QED
    BY <2>1, AutoOfSane DEF NewRecord
<1>2. CASE s \in [kind : {"auto"}, auto : Sources \cup {Disabled}]
  <2>1. s.kind = "auto" /\ s.auto \in Sources \cup {Disabled}
    BY <1>2
  <2> QED
    BY <2>1, PartialUrl DEF NewRecord
<1> QED
  BY <1>1, <1>2 DEF Saves

\* Records have the fields of custom_url_record_t.
LEMMA RecordNames ==
  /\ DOMAIN Erased = Names
  /\ \A v, a, u : DOMAIN Record(v, a, u) = Names
  BY DEF Erased, Record, Names

\* What the power may leave of the sector: part of a record, and the settings of
\* before, those being saved, or none.
LEMMA PowerLossLeaves ==
  ASSUME SectorInv, NEW left \in SectorLeft
  PROVE  /\ Partial(left) /\ DOMAIN left = Names
         /\ Settings(left) \in
              {Settings(sector), Nothing}
                \cup (IF job.op = "settings" THEN {Settings(job.record)} ELSE {})
<1> USE DEF SectorInv
<1>1. CASE left = sector
  BY <1>1
<1>2. CASE job.op = "settings" /\ pc0 = "erase"
  <2>1. left \in Between(sector, Erased)
    BY <1>2 DEF SectorLeft
  <2>2. Mix(left, sector, Erased) /\ DOMAIN left = Names
    BY <2>1, BetweenMixes
  <2> QED
    BY <2>2, ErasingReads
<1>3. CASE job.op = "settings" /\ pc0 = "program"
  <2>1. left \in Between(Erased, job.record)
    BY <1>3 DEF SectorLeft
  <2>2. Mix(left, Erased, job.record) /\ DOMAIN left = Names
    BY <2>1, BetweenMixes, RecordNames
  <2>3. PICK a \in Sources \cup {Disabled} :
          \E u : u \notin {Blank, Garbled} /\ job.record = Record(2, a, u)
    BY <1>3 DEF Saving
  <2>4. PICK u : u \notin {Blank, Garbled} /\ job.record = Record(2, a, u)
    BY <2>3
  <2> QED
    BY <1>3, <2>2, <2>4, ProgrammingReads
<1> QED
  BY <1>1, <1>2, <1>3 DEF SectorLeft

\* Erased flash, and what is written, are part of one record.
LEMMA WholeIsPartial ==
  /\ Partial(Erased)
  /\ \A v, a, u : v # 255 /\ u \notin {Blank, Garbled} => Partial(Record(v, a, u))
<1>1. ASSUME NEW v, NEW a, NEW u, v # 255, u \notin {Blank, Garbled}
      PROVE  Partial(Record(v, a, u)) /\ Partial(Erased)
  BY <1>1 DEF Partial, PartOf, Mix
<1>2. 1 # 255 /\ NoUrl \notin {Blank, Garbled}
  BY ConstantsAssumption
<1> QED
  BY <1>1, <1>2

\* Each step leaves part of one record.
LEMMA SectorStep == AddUpInv /\ SectorInv /\ [Next]_vars => SectorInv'
<1> SUFFICES ASSUME AddUpInv, SectorInv, [Next]_vars PROVE SectorInv'
  OBVIOUS
<1> USE DEF SectorInv, Saving, vars
<1>1. ASSUME NEW s \in Saves, QueueSave(s) PROVE SectorInv'
  BY <1>1 DEF QueueSave
<1>2. ASSUME NEW op \in ProfileOps, NEW n \in Networks \cup {NoNetwork},
             QueueProfile(op, n)
      PROVE  SectorInv'
  BY <1>2 DEF QueueProfile
<1>3. CASE LoadBegin
  BY <1>3 DEF LoadBegin
<1>4. CASE LoadEnd
  BY <1>4 DEF LoadEnd
<1>5. CASE TakeProfileOp
  <2>1. job' = job \/ job'.op = "profile"
    BY <1>5 DEF TakeProfileOp, AddUpInv, Queues
  <2> QED
    BY <1>5, <2>1 DEF TakeProfileOp
<1>6. CASE TakeSave
  <2>1. CASE job' = job
    BY <1>6, <2>1 DEF TakeSave
  <2>2. CASE job' = [op |-> "settings", record |-> NewRecord(sector, save)]
                /\ save \in Saves
    BY <1>6, <2>2, NewRecordSaves DEF TakeSave
  <2> QED
    BY <1>6, <2>1, <2>2 DEF TakeSave, AddUpInv, Queues
<1>7. CASE LockFails
  BY <1>7 DEF LockFails, NoOp
<1>8. CASE Lock
  BY <1>8 DEF Lock
<1>9. CASE Erase
  BY <1>9, RecordNames, WholeIsPartial DEF Erase
<1>10. CASE Program
  <2>1. job' = NoOp
    BY <1>10 DEF Program
  <2>2. Partial(sector') /\ DOMAIN sector' = Names
    BY <1>10, RecordNames, WholeIsPartial
       DEF Program, AddUpInv, Queues, Updating
  <2> QED
    BY <2>1, <2>2 DEF NoOp
<1>11. CASE PowerLoss
  BY <1>11, PowerLossLeaves DEF PowerLoss, NoOp
<1>12. CASE UNCHANGED vars
  BY <1>12
<1> QED
  BY <1>1, <1>2, <1>3, <1>4, <1>5, <1>6, <1>7, <1>8, <1>9, <1>10, <1>11, <1>12
     DEF Next, Core1, Core0, ProfileOps

\* custom_url_flash_update cut short: the settings of before, those being
\* saved, or none, never a mixture.
THEOREM PowerLossLeavesOneHolds == Spec => PowerLossLeavesOne
<1> DEFINE One == Settings(sector)' \in
                    {Settings(sector), Nothing}
                      \cup (IF job.op = "settings" THEN {Settings(job.record)} ELSE {})
<1>1. Init => AddUpInv /\ SectorInv
  <2> SUFFICES ASSUME Init PROVE AddUpInv /\ SectorInv
    OBVIOUS
  <2>1. AddUpInv
    BY DEF Init, AddUpInv, Queues, Promise, Updating, Core0Places, NoOp
  <2>2. Partial(sector) /\ DOMAIN sector = Names
    BY ConstantsAssumption, WholeIsPartial, RecordNames DEF Init
  <2> QED
    BY <2>1, <2>2 DEF Init, SectorInv, NoOp
<1>2. AddUpInv /\ SectorInv /\ [Next]_vars => [One]_vars
  <2> SUFFICES ASSUME AddUpInv, SectorInv, [Next]_vars PROVE One
    OBVIOUS
  <2>1. CASE sector' = sector
    BY <2>1 DEF Settings, UrlOf, AutoOf, ReadRecord, TextOf
  <2>2. CASE Erase
    <3>1. ReadRecord(Erased) = "NOT_FOUND"
      BY DEF ReadRecord, Erased
    <3>2. Settings(Erased) = Nothing
      BY <3>1 DEF Settings, UrlOf, AutoOf, Nothing
    <3> QED
      BY <2>1, <2>2, <3>2 DEF Erase
  <2>3. CASE Program
    BY <2>1, <2>3 DEF Program, AddUpInv, Queues, Updating
  <2>4. CASE PowerLoss
    BY <2>4, PowerLossLeaves DEF PowerLoss
  <2>5. sector' = sector \/ Erase \/ Program \/ PowerLoss
    BY DEF Next, vars, Core1, Core0, QueueSave, QueueProfile, LoadBegin, LoadEnd,
           TakeProfileOp, TakeSave, LockFails, Lock
  <2> QED
    BY <2>1, <2>2, <2>3, <2>4, <2>5
<1> QED
  BY <1>1, <1>2, AddUpStep, SectorStep, PTL DEF Spec, PowerLossLeavesOne

-----------------------------------------------------------------------------
\* Core 1 copies a sector that holds part of one record.
LoadInv == load # NoLoad => Partial(load) /\ DOMAIN load = Names

\* The checksum of part of a record is over no mixture of URLs.
LEMMA PartialChecksum ==
  ASSUME NEW r, Partial(r), NEW v, NEW a
  PROVE  r.checksum # Contents(v, a, Garbled)
<1>1. PICK w, b, u : PartOf(r, w, b, u)
  BY DEF Partial
<1>2. r.checksum \in {Contents(255, Disabled, Blank), Contents(w, b, u)}
  BY <1>1 DEF PartOf, Mix, Erased, Record
<1>3. u # Garbled /\ Blank # Garbled
  BY <1>1 DEF PartOf, Blank, Garbled
<1> QED
  BY <1>2, <1>3 DEF Contents

\* custom_url_store_load tells no URL put together from two, even if the record
\* is replaced while it is copied.
THEOREM LoadsAreWholeHolds == Spec => []LoadsAreWhole
<1> DEFINE Inv == AddUpInv /\ SectorInv /\ LoadInv
<1>1. Init => Inv
  <2> SUFFICES ASSUME Init PROVE Inv
    OBVIOUS
  <2>1. AddUpInv
    BY DEF Init, AddUpInv, Queues, Promise, Updating, Core0Places, NoOp
  <2>2. Partial(sector) /\ DOMAIN sector = Names
    BY ConstantsAssumption, WholeIsPartial, RecordNames DEF Init
  <2> QED
    BY <2>1, <2>2 DEF Init, SectorInv, LoadInv, NoOp
<1>2. Inv /\ [Next]_vars => Inv'
  <2>1. LoadInv /\ SectorInv /\ [Next]_vars => LoadInv'
    BY DEF LoadInv, SectorInv, Next, vars, Core1, Core0, QueueSave, QueueProfile,
           LoadBegin, LoadEnd, TakeProfileOp, TakeSave, LockFails, Lock, Erase,
           Program, PowerLoss
  <2> QED
    BY <2>1, AddUpStep, SectorStep
<1>3. Inv => LoadsAreWhole
  <2> SUFFICES ASSUME Inv, load # NoLoad, NEW told \in Answers
               PROVE  told.url # Garbled
    BY DEF LoadsAreWhole
  <2>1. PICK cut \in 0..Len(Fields) : told = Settings(Torn(load, sector, cut))
    BY DEF Answers
  <2> DEFINE r == Torn(load, sector, cut)
  <2>2. r.checksum \in {load.checksum, sector.checksum}
    BY DEF LoadInv, Torn, Names
  <2> HIDE DEF r
  <2>3. r.checksum # Contents(r.version, r.auto, Garbled)
    BY <2>2, PartialChecksum DEF LoadInv, SectorInv
  <2>4. UrlOf(r) # Garbled
    BY <2>3, ConstantsAssumption DEF UrlOf, ReadRecord
  <2>5. told.url = UrlOf(r)
    BY <2>1 DEF r, Settings
  <2> QED
    BY <2>4, <2>5
<1> QED
  BY <1>1, <1>2, <1>3, PTL DEF Spec
=============================================================================
