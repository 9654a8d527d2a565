--------------------------- MODULE DataLogProofs ---------------------------
(***************************************************************************)
(* Theorems about the report log, for every number of pages and slots.     *)
(*                                                                         *)
(* The invariants of the runs are not inductive by themselves: they say    *)
(* nothing of a store in progress.  RingInv adds what holds between its    *)
(* steps: how the counters relate to the number of stores, what the page,  *)
(* slot and header being written already hold, and where in the ring a     *)
(* record counter below its maximum has got to.                            *)
(***************************************************************************)
EXTENDS DataLog, SequenceTheorems, TLAPS

\* A store accepted and not yet counted.
Storing == pc \notin {"off", "idle"}

\* The counters of the control structure against the number of stores.
CountInv ==
  /\ stored <= total
  /\ Storing => stored < total
  /\ pc = "off" => stored = 0
  /\ reg.nextTime = IF stored < TimeSlots THEN stored ELSE TimeSlots
  /\ stored > 0 => reg.nextReg = NextPage(reg.lastReg)

\* Until the record counter stops, firstReg stays at page 0 and the counter
\* says how many times the ring has been filled; afterwards firstReg is the
\* page after nextReg.
LapInv ==
  /\ reg.num < EEPROM_REG_MAX_IDS =>
       /\ stored = reg.num
       /\ reg.firstReg = 0
       /\ \E lap \in 0 .. 3 : reg.num = lap * LogPages + reg.nextReg
  /\ reg.num = EEPROM_REG_MAX_IDS =>
       /\ stored >= EEPROM_REG_MAX_IDS
       /\ reg.firstReg = NextPage(reg.nextReg)

\* The page being stored.
PageInv == \A p \in Page : InStore(p) /\ ~Overwritten(p) => page[p] = total

\* The time being stored, and the time of the last store when there is none.
TimeInv ==
  /\ pc \in {"word0", "word1", "word2", "update"} =>
       (IF reg.nextTime < TimeSlots THEN slot[reg.nextTime] ELSE head) = total
  /\ LoadedTimeIsNewest

\* The words of the header already written.
HeaderInv ==
  /\ pc \in {"word1", "word2", "update"} =>
       hdr.num = reg.num /\ hdr.lastTime = reg.lastTime
  /\ pc \in {"word2", "update"} =>
       hdr.nextTime = reg.nextTime /\ hdr.firstReg = reg.firstReg
  /\ pc = "update" => hdr = reg
  /\ HeaderOneBehind

RingInv ==
  /\ TypeOK
  /\ CountInv
  /\ LapInv
  /\ PageInv
  /\ TimeInv
  /\ HeaderInv
  /\ RecentReportsKept
-----------------------------------------------------------------------------
\* The successor of a page is a page (NextPage).
LEMMA NextPageType == \A p \in Page : NextPage(p) \in Page
  BY DataLogAssumption DEF NextPage, Page

\* One dataLog_Status_Update leaves every field in its range (Advanced).
LEMMA AdvancedType == \A r \in Ctrl : Advanced(r) \in Ctrl
  BY DataLogAssumption, NextPageType
     DEF Advanced, Ctrl, NextSlot, EEPROM_REG_MAX_IDS

\* What reading does to the progress of the reading keeps its type.
LEMMA MonitorType ==
  ASSUME NEW m \in [on : BOOLEAN, id : Nat, number : Nat]
  PROVE  /\ [m EXCEPT !.id = m.id + 1] \in [on : BOOLEAN, id : Nat, number : Nat]
         /\ [m EXCEPT !.on = FALSE] \in [on : BOOLEAN, id : Nat, number : Nat]
         /\ \A i, n \in Nat : [on |-> TRUE, id |-> i, number |-> n]
                             \in [on : BOOLEAN, id : Nat, number : Nat]
<1>1. m.on \in BOOLEAN /\ m.id \in Nat /\ m.number \in Nat
  BY Zenon
<1>2. m.id + 1 \in Nat
  BY <1>1
<1>3. [m EXCEPT !.id = m.id + 1] \in [on : BOOLEAN, id : Nat, number : Nat]
  BY <1>2, Zenon
<1>4. [m EXCEPT !.on = FALSE] \in [on : BOOLEAN, id : Nat, number : Nat]
  BY Zenon
<1>5. QED
  BY <1>3, <1>4

LEMMA InitRing == Init => RingInv
<1> SUFFICES ASSUME Init PROVE RingInv
  OBVIOUS
<1> USE DataLogAssumption
<1>1. TypeOK
  BY DEF Init, TypeOK, Ctrl, FreshCtrl, Off, Nothing, Page, Slot,
         EEPROM_REG_MAX_IDS
<1>2. CountInv /\ LapInv
  <2>1. 0 \in 0 .. 3 /\ reg.num = 0 * LogPages + reg.nextReg
    BY DEF Init, FreshCtrl
  <2>2. QED
    BY <2>1 DEF Init, CountInv, LapInv, FreshCtrl, Storing, EEPROM_REG_MAX_IDS
<1>3. PageInv /\ TimeInv /\ HeaderInv
  BY DEF Init, PageInv, InStore, TimeInv, LoadedTimeIsNewest, HeaderInv,
         HeaderOneBehind
<1>4. RecentReportsKept
  BY DEF Init, RecentReportsKept, Age, Page, FreshCtrl
<1> QED
  BY <1>1, <1>2, <1>3, <1>4 DEF RingInv

\* Storing a page, its time or a word of the header leaves the control
\* structure and the number of stores alone (StorePage, StoreTime, StoreWord).
LEMMA StepPage == ASSUME RingInv, StorePage PROVE RingInv'
<1> USE DataLogAssumption DEF RingInv
<1>a. reg.nextReg \in Page
  BY DEF TypeOK, Ctrl
<1>b. reg.nextReg < LogPages
  BY <1>a DEF Page
<1>0. /\ pc = "page" /\ pc' = "time"
      /\ UNCHANGED <<reg, slot, hdr, total, stored, monitor, printed, reads>>
  BY <1>b DEF StorePage
<1>1. /\ page' = [page EXCEPT ![reg.nextReg] = total]
      /\ head' = IF reg.nextReg = 0 THEN 0 ELSE head
  BY <1>b DEF StorePage
<1>2. TypeOK'
  BY <1>a, <1>0, <1>1 DEF TypeOK
<1>3. CountInv' /\ LapInv'
  BY <1>0 DEF CountInv, LapInv, Storing
<1>4. PageInv'
  BY <1>a, <1>0, <1>1 DEF PageInv, InStore, Overwritten, TypeOK
<1>5. TimeInv' /\ HeaderInv'
  BY <1>0 DEF TimeInv, LoadedTimeIsNewest, HeaderInv, HeaderOneBehind
<1>6. RecentReportsKept'
  <2> SUFFICES ASSUME NEW p \in Page, Age(p) < stored
               PROVE  ~InStore(p)' /\ ~Overwritten(p) => page'[p] = Newest' - Age(p)
    BY <1>0 DEF RecentReportsKept, Age, Overwritten
  <2>1. Newest' = Newest
    BY <1>0 DEF Newest
  <2>2. ~InStore(p)' => page'[p] = page[p] /\ ~InStore(p)
    BY <1>0, <1>1 DEF InStore, TypeOK
  <2>3. QED
    BY <2>1, <2>2 DEF RecentReportsKept
<1> QED
  BY <1>2, <1>3, <1>4, <1>5, <1>6

LEMMA StepTime == ASSUME RingInv, StoreTime PROVE RingInv'
<1> USE DataLogAssumption DEF RingInv
<1>1. /\ pc = "time" /\ pc' = "word0"
      /\ UNCHANGED <<reg, hdr, total, stored, monitor, printed, reads>>
  BY DEF StoreTime
<1>2. CASE reg.nextTime < TimeSlots
  <2>1. /\ slot' = [slot EXCEPT ![reg.nextTime] = total]
        /\ page' = page /\ head' = head
    BY <1>2 DEF StoreTime
  <2>a. reg.nextTime \in Slot
    BY <1>2 DEF TypeOK, Ctrl, Slot
  <2>2. slot'[reg.nextTime] = total
    BY <2>1, <2>a DEF TypeOK
  <2>3. TypeOK'
    BY <1>1, <2>1, <2>a DEF TypeOK
  <2>4. CountInv' /\ LapInv'
    BY <1>1 DEF CountInv, LapInv, Storing
  <2>5. PageInv' /\ RecentReportsKept'
    BY <1>1, <2>1
       DEF PageInv, InStore, RecentReportsKept, Age, Newest, Overwritten
  <2>6. TimeInv'
    BY <1>1, <1>2, <2>2 DEF TimeInv, LoadedTimeIsNewest
  <2>7. HeaderInv'
    BY <1>1 DEF HeaderInv, HeaderOneBehind
  <2>8. QED
    BY <2>3, <2>4, <2>5, <2>6, <2>7
<1>3. CASE ~(reg.nextTime < TimeSlots)
  <2>1. /\ page' = [page EXCEPT ![0] = 0] /\ head' = total /\ slot' = slot
        /\ stored >= TimeSlots
    BY <1>3 DEF StoreTime, CountInv, TypeOK
  <2>a. \A p \in Page : ~Overwritten(p) => page'[p] = page[p]
    BY <2>1 DEF Overwritten, TypeOK
  <2>2. TypeOK'
    BY <1>1, <2>1 DEF TypeOK, Page
  <2>3. CountInv' /\ LapInv'
    BY <1>1 DEF CountInv, LapInv, Storing
  <2>4. PageInv' /\ RecentReportsKept'
    BY <1>1, <2>a
       DEF PageInv, InStore, RecentReportsKept, Age, Newest, Overwritten
  <2>5. TimeInv' /\ HeaderInv'
    BY <1>1, <1>3, <2>1
       DEF TimeInv, LoadedTimeIsNewest, HeaderInv, HeaderOneBehind
  <2>6. QED
    BY <2>2, <2>3, <2>4, <2>5
<1> QED
  BY <1>2, <1>3

LEMMA StepWord == ASSUME RingInv, StoreWord PROVE RingInv'
<1> USE DataLogAssumption DEF RingInv, StoreWord
<1>1. TypeOK'
  BY DEF TypeOK, Ctrl
<1>2. CountInv' /\ LapInv'
  BY DEF CountInv, LapInv, Storing
<1>3. PageInv' /\ RecentReportsKept'
  BY DEF PageInv, InStore, RecentReportsKept, Age, Newest, Overwritten
<1>4. TimeInv'
  BY DEF TimeInv, LoadedTimeIsNewest
<1>5. HeaderInv'
  BY DEF HeaderInv, HeaderOneBehind, TypeOK, Ctrl
<1> QED
  BY <1>1, <1>2, <1>3, <1>4, <1>5

\* Counting a store: the only step that moves the ring (UpdateStatus).
LEMMA StepUpdate == ASSUME RingInv, UpdateStatus PROVE RingInv'
<1> USE DataLogAssumption DEF RingInv
<1>1. /\ pc = "update" /\ pc' = "idle"
      /\ reg' = Advanced(reg) /\ stored' = stored + 1
      /\ UNCHANGED <<page, slot, head, hdr, total, monitor, printed, reads>>
  BY DEF UpdateStatus, eeprom
<1>2. reg \in Ctrl /\ reg' \in Ctrl
  BY <1>1, AdvancedType DEF TypeOK
<1>3. /\ reg'.lastReg = reg.nextReg /\ reg'.nextReg = NextPage(reg.nextReg)
      /\ reg'.lastTime = reg.nextTime /\ reg'.nextTime = NextSlot(reg.nextTime)
  BY <1>1 DEF Advanced
<1>4. stored < total /\ stored \in Nat /\ total \in Nat
  BY <1>1 DEF CountInv, Storing, TypeOK
<1>5. TypeOK'
  BY <1>1, <1>2, <1>4 DEF TypeOK
<1>6. CountInv'
  BY <1>1, <1>3, <1>4 DEF CountInv, Storing, NextSlot
<1>7. LapInv'
  <2>1. CASE reg.num + 1 < EEPROM_REG_MAX_IDS
    <3>1. reg'.num = reg.num + 1 /\ reg'.firstReg = reg.firstReg
      BY <1>1, <1>2, <2>1 DEF Advanced, Ctrl, EEPROM_REG_MAX_IDS
    <3>2. /\ stored = reg.num /\ reg.firstReg = 0
          /\ \E lap \in 0 .. 3 : reg.num = lap * LogPages + reg.nextReg
      BY <1>2, <2>1 DEF LapInv, Ctrl, EEPROM_REG_MAX_IDS
    <3>3. PICK lap \in 0 .. 3 : reg.num = lap * LogPages + reg.nextReg
      BY <3>2
    <3>4. CASE reg.nextReg + 1 < LogPages
      <4>1. reg'.num = lap * LogPages + reg'.nextReg
        BY <1>2, <1>3, <3>1, <3>3, <3>4 DEF NextPage, Ctrl, Page
      <4>2. QED
        BY <1>1, <2>1, <3>1, <3>2, <4>1 DEF LapInv
    <3>5. CASE LogPages <= reg.nextReg + 1
      <4>1. reg.nextReg = LogPages - 1 /\ reg'.nextReg = 0
        BY <1>2, <1>3, <3>5 DEF NextPage, Ctrl, Page
      <4>2. reg'.num = (lap + 1) * LogPages + reg'.nextReg
        BY <3>1, <3>3, <4>1
      <4>3. lap + 1 \in 0 .. 3
        BY <2>1, <3>1, <4>1, <4>2 DEF EEPROM_REG_MAX_IDS
      <4>4. QED
        BY <1>1, <2>1, <3>1, <3>2, <4>2, <4>3 DEF LapInv
    <3>6. QED
      BY <1>2, <3>4, <3>5 DEF Ctrl, Page
  <2>2. CASE reg.num + 1 = EEPROM_REG_MAX_IDS
    <3>1. /\ reg'.num = EEPROM_REG_MAX_IDS
          /\ reg'.firstReg = NextPage(reg.firstReg)
      BY <1>1, <2>2 DEF Advanced, EEPROM_REG_MAX_IDS
    <3>2. /\ stored = reg.num /\ reg.firstReg = 0
          /\ \E lap \in 0 .. 3 : reg.num = lap * LogPages + reg.nextReg
      BY <1>2, <2>2 DEF LapInv, Ctrl, EEPROM_REG_MAX_IDS
    <3>3. PICK lap \in 0 .. 3 : reg.num = lap * LogPages + reg.nextReg
      BY <3>2
    <3>4. reg.nextReg = LogPages - 1
      BY <1>2, <2>2, <3>3 DEF EEPROM_REG_MAX_IDS, Ctrl, Page
    <3>5. reg'.firstReg = NextPage(reg'.nextReg)
      BY <1>3, <3>1, <3>2, <3>4 DEF NextPage
    <3>6. QED
      BY <1>1, <1>4, <2>2, <3>1, <3>2, <3>5 DEF LapInv
  <2>3. CASE reg.num = EEPROM_REG_MAX_IDS
    <3>1. /\ reg'.num = EEPROM_REG_MAX_IDS
          /\ reg'.firstReg = NextPage(reg.firstReg)
      BY <1>1, <2>3 DEF Advanced, EEPROM_REG_MAX_IDS
    <3>2. QED
      BY <1>1, <1>3, <1>4, <2>3, <3>1 DEF LapInv, EEPROM_REG_MAX_IDS
  <2>4. QED
    BY <1>2, <2>1, <2>2, <2>3 DEF Ctrl, EEPROM_REG_MAX_IDS
<1>8. PageInv'
  BY <1>1 DEF PageInv, InStore
<1>9. TimeInv'
  BY <1>1, <1>3 DEF TimeInv, LoadedTimeIsNewest, LoadedTime
<1>10. HeaderInv'
  <2>1. reg' = Advanced(hdr')
    BY <1>1 DEF HeaderInv
  <2>2. HeaderOneBehind'
    BY <2>1 DEF HeaderOneBehind
  <2>3. QED
    BY <1>1, <2>2 DEF HeaderInv
<1>11. RecentReportsKept'
  <2> SUFFICES ASSUME NEW p \in Page, Age(p)' < stored', ~Overwritten(p)'
               PROVE  page'[p] = Newest' - Age(p)'
    BY <1>1 DEF RecentReportsKept
  <2>0. ~Overwritten(p)
    BY <1>1, <1>4 DEF Overwritten
  <2>1. Newest' = total /\ Newest = total - 1
    BY <1>1 DEF Newest
  <2>2. CASE p = reg.nextReg
    <3>1. Age(p)' = 0
      BY <1>2, <1>3, <2>2 DEF Age, NextPage, Ctrl, Page
    <3>2. InStore(p)
      BY <1>1, <2>2 DEF InStore
    <3>3. QED
      BY <1>1, <1>4, <2>0, <2>1, <3>1, <3>2 DEF PageInv
  <2>3. CASE p # reg.nextReg
    <3>1. Age(p)' = Age(p) + 1 /\ Age(p) \in Int
      BY <1>2, <1>3, <2>3 DEF Age, NextPage, Ctrl, Page
    <3>2. Age(p) < stored /\ ~InStore(p)
      BY <1>1, <1>4, <2>3, <3>1 DEF InStore
    <3>3. QED
      BY <1>1, <1>4, <2>0, <2>1, <3>1, <3>2 DEF RecentReportsKept
  <2>4. QED
    BY <2>2, <2>3
<1> QED
  BY <1>5, <1>6, <1>7, <1>8, <1>9, <1>10, <1>11

\* Accepting a report, or reading: the log itself does not change.
LEMMA StepAccept == ASSUME RingInv, AcceptReport PROVE RingInv'
<1> USE DataLogAssumption DEF RingInv
<1>1. /\ pc = "idle" /\ pc' = "page" /\ total < MaxReports /\ total' = total + 1
      /\ UNCHANGED <<reg, page, slot, head, hdr, stored, monitor, printed, reads>>
  BY DEF AcceptReport, eeprom
<1>2. stored \in Nat /\ total \in Nat
  BY DEF TypeOK
<1>3. TypeOK'
  BY <1>1 DEF TypeOK
<1>4. CountInv' /\ LapInv'
  BY <1>1, <1>2 DEF CountInv, LapInv, Storing
<1>5. PageInv' /\ TimeInv' /\ HeaderInv'
  BY <1>1 DEF PageInv, InStore, TimeInv, LoadedTimeIsNewest, HeaderInv,
              HeaderOneBehind
<1>6. RecentReportsKept'
  BY <1>1, <1>2 DEF RecentReportsKept, Age, Newest, InStore, Overwritten
<1> QED
  BY <1>3, <1>4, <1>5, <1>6

LEMMA StepRead ==
  ASSUME RingInv,
         \/ ReadTimeout
         \/ \E id \in 0 .. 1, number \in {0, EEPROM_REG_MAX_IDS + 1} :
              ReadRequest(id, number)
  PROVE  RingInv'
<1> USE DataLogAssumption DEF RingInv
<1>1. UNCHANGED <<pc, reg, page, slot, head, hdr, total, stored>>
  BY DEF ReadTimeout, ReadRequest, eeprom
<1>2. TypeOK'
  <2>1. CASE ReadTimeout
    <3>0. reg.firstReg \in Page
      BY DEF TypeOK, Ctrl
    <3>1. \A id \in Nat : Loadable(id) => PageOf(id) \in Page
      BY <3>0 DEF Loadable, PageOf, Page
    <3>2. LoadedTime \in 0 .. MaxReports
      BY DEF LoadedTime, TypeOK, Ctrl, Slot
    <3>3. monitor' \in [on : BOOLEAN, id : Nat, number : Nat]
      <4>1. \/ monitor' = [monitor EXCEPT !.id = monitor.id + 1]
            \/ monitor' = [monitor EXCEPT !.on = FALSE]
        BY <2>1 DEF ReadTimeout
      <4>2. monitor \in [on : BOOLEAN, id : Nat, number : Nat]
        BY DEF TypeOK
      <4>3. QED
        BY <4>1, <4>2, MonitorType
    <3>4. printed' \in [id : Nat, report : 0 .. MaxReports, time : 0 .. MaxReports]
      BY <2>1, <3>1, <3>2 DEF ReadTimeout, TypeOK, Nothing
    <3>5. reads' = reads
      BY <2>1 DEF ReadTimeout
    <3>6. QED
      BY <1>1, <3>3, <3>4, <3>5 DEF TypeOK
  <2>2. CASE \E id \in 0 .. 1, number \in {0, EEPROM_REG_MAX_IDS + 1} :
               ReadRequest(id, number)
    <3>0. EEPROM_REG_MAX_IDS + 1 \in Nat
      BY DEF EEPROM_REG_MAX_IDS
    <3>1. monitor' \in [on : BOOLEAN, id : Nat, number : Nat]
      <4>1. PICK id \in 0 .. 1, number \in {0, EEPROM_REG_MAX_IDS + 1} :
              ReadRequest(id, number)
        BY <2>2
      <4>2. \/ monitor' = [on |-> TRUE, id |-> id, number |-> number]
            \/ monitor' = [monitor EXCEPT !.on = FALSE]
        BY <4>1 DEF ReadRequest
      <4>3. id \in Nat /\ number \in Nat
        BY <3>0
      <4>4. monitor \in [on : BOOLEAN, id : Nat, number : Nat]
        BY DEF TypeOK
      <4>5. QED
        BY <4>2, <4>3, <4>4, MonitorType
    <3>2. printed' = Nothing /\ reads' \in 0 .. MaxReads
      BY <2>2 DEF ReadRequest, TypeOK
    <3>3. QED
      BY <1>1, <3>1, <3>2 DEF TypeOK, Nothing
  <2>3. QED
    BY <2>1, <2>2
<1>3. CountInv' /\ LapInv' /\ PageInv' /\ HeaderInv'
  BY <1>1 DEF CountInv, LapInv, Storing, PageInv, InStore, Overwritten, HeaderInv,
              HeaderOneBehind
<1>4. TimeInv' /\ RecentReportsKept'
  BY <1>1 DEF TimeInv, LoadedTimeIsNewest, LoadedTime, RecentReportsKept, Age,
              Newest, InStore, Overwritten
<1> QED
  BY <1>2, <1>3, <1>4

\* A power loss forgets the control structure, and with it every store.
LEMMA StepPower == ASSUME RingInv, Boot \/ PowerLoss PROVE RingInv'
<1> USE DataLogAssumption DEF RingInv
<1>1. /\ reg' = FreshCtrl /\ stored' = 0 /\ pc' \in {"off", "idle"}
      /\ UNCHANGED <<total, reads>>
  BY DEF Boot, PowerLoss, CountInv
<1>2. TypeOK'
  <2>1. reg' \in Ctrl
    BY <1>1 DEF FreshCtrl, Ctrl, Page, EEPROM_REG_MAX_IDS
  <2>2. /\ page' \in [Page -> 0 .. MaxReports] /\ slot' \in [Slot -> 0 .. MaxReports]
        /\ head' \in 0 .. MaxReports /\ hdr' \in Ctrl
    <3>1. CASE Torn
      <4>1. FreshCtrl \in Ctrl
        BY <1>1, <2>1
      <4>2. /\ page' = page \/ page' = [page EXCEPT ![reg.nextReg] = 0]
                             \/ page' = [page EXCEPT ![0] = 0]
            /\ head' = head \/ head' = 0
            /\ hdr' = hdr \/ hdr' = FreshCtrl
        BY <3>1 DEF Torn
      <4>3. slot' \in [Slot -> 0 .. MaxReports]
        BY <3>1 DEF Torn, TypeOK
      <4> QED
        BY <4>1, <4>2, <4>3 DEF TypeOK
    <3>2. CASE UNCHANGED eeprom
      BY <3>2 DEF eeprom, TypeOK
    <3> QED
      BY <3>1, <3>2 DEF Boot, PowerLoss
  <2>3. /\ monitor' \in [on : BOOLEAN, id : Nat, number : Nat]
        /\ printed' \in [id : Nat, report : 0 .. MaxReports, time : 0 .. MaxReports]
    <3>1. CASE Boot
      BY <3>1 DEF Boot, TypeOK
    <3>2. CASE PowerLoss
      <4>1. monitor' = Off /\ printed' = Nothing
        BY <3>2 DEF PowerLoss
      <4>2. QED
        BY <4>1 DEF Off, Nothing
    <3>3. QED
      BY <3>1, <3>2
  <2>4. QED
    BY <1>1, <2>1, <2>2, <2>3 DEF TypeOK
<1>3. CountInv'
  BY <1>1 DEF CountInv, Storing, TypeOK, FreshCtrl
<1>4. LapInv'
  <2>1. reg'.num = 0 /\ reg'.nextReg = 0 /\ reg'.firstReg = 0
    BY <1>1 DEF FreshCtrl
  <2>2. 0 \in 0 .. 3 /\ reg'.num = 0 * LogPages + reg'.nextReg
    BY <2>1
  <2>3. QED
    BY <1>1, <2>1, <2>2 DEF LapInv, EEPROM_REG_MAX_IDS
<1>5. PageInv' /\ HeaderInv'
  BY <1>1 DEF PageInv, InStore, HeaderInv, HeaderOneBehind
<1>6. TimeInv'
  BY <1>1 DEF TimeInv, LoadedTimeIsNewest
<1>7. RecentReportsKept'
  <2>1. \A p \in Page : Age(p)' >= 0
    BY <1>1 DEF Age, FreshCtrl, Page
  <2>2. QED
    BY <1>1, <2>1 DEF RecentReportsKept, Age, Page, FreshCtrl
<1> QED
  BY <1>2, <1>3, <1>4, <1>5, <1>6, <1>7

LEMMA NextRing == RingInv /\ [Next]_vars => RingInv'
<1> SUFFICES ASSUME RingInv, [Next]_vars PROVE RingInv'
  OBVIOUS
<1>1. CASE UNCHANGED vars
  BY <1>1 DEF vars, eeprom, RingInv, TypeOK, CountInv, LapInv, Storing, PageInv,
              InStore, TimeInv, LoadedTimeIsNewest, LoadedTime, HeaderInv,
              HeaderOneBehind, RecentReportsKept, Age, Newest, Overwritten
<1>2. CASE Boot \/ PowerLoss
  BY <1>2, StepPower
<1>3. CASE AcceptReport
  BY <1>3, StepAccept
<1>4. CASE StoreStep
  BY <1>4, StepPage, StepTime, StepWord, StepUpdate DEF StoreStep
<1>5. CASE \/ ReadTimeout
           \/ \E id \in 0 .. 1, number \in {0, EEPROM_REG_MAX_IDS + 1} :
                ReadRequest(id, number)
  BY <1>5, StepRead
<1> QED
  BY <1>1, <1>2, <1>3, <1>4, <1>5 DEF Next

\* The log keeps its ring for every size of the EEPROM areas.
THEOREM RingInvariant == Spec => []RingInv
<1>1. Init => RingInv
  BY InitRing
<1>2. RingInv /\ [Next]_vars => RingInv'
  BY NextRing
<1>3. QED
  BY <1>1, <1>2, PTL DEF Spec
-----------------------------------------------------------------------------
\* Where each report is shown follows from which page it is on: the record
\* counter tells how far the ring has turned (ID_GET_ADD, dataLog_Page_Load).
LEMMA ShownFromRing == RingInv => ShownInOrder
<1> SUFFICES ASSUME RingInv, pc = "idle" PROVE ShownInOrder
  BY DEF ShownInOrder
<1> USE DataLogAssumption DEF RingInv
<1>1. /\ reg.num \in 0 .. EEPROM_REG_MAX_IDS /\ reg.nextReg \in Page
      /\ stored \in Nat /\ total \in Nat /\ EEPROM_REG_MAX_IDS = 4 * LogPages
  BY DEF TypeOK, Ctrl, EEPROM_REG_MAX_IDS
<1>2. \A p \in Page :
        Age(p) < stored /\ ~Overwritten(p) => page[p] = total - Age(p)
  BY DEF RecentReportsKept, InStore, Newest
<1>3. ASSUME reg.num <= LogPages, NEW id \in 0 .. LogPages - 1, id < reg.num
      PROVE  /\ Loadable(id)
             /\ page[PageOf(id)] = total - reg.num + 1 + id
  <2>1. /\ stored = reg.num /\ reg.firstReg = 0
        /\ \E lap \in 0 .. 3 : reg.num = lap * LogPages + reg.nextReg
    BY <1>1, <1>3 DEF LapInv
  <2>2. PICK lap \in 0 .. 3 : reg.num = lap * LogPages + reg.nextReg
    BY <2>1
  <2>3. reg.num = reg.nextReg \/ (reg.num = LogPages /\ reg.nextReg = 0)
    BY <1>1, <1>3, <2>2 DEF Page
  <2>4. id \in Page /\ PageOf(id) = id /\ Loadable(id)
    BY <1>1, <2>1 DEF PageOf, Loadable, Page
  <2>5. Age(id) = reg.num - 1 - id
    BY <1>1, <1>3, <2>3, <2>4 DEF Age, Page
  <2>6. page[id] = total - Age(id)
    BY <1>1, <1>2, <1>3, <2>1, <2>4, <2>5 DEF Overwritten
  <2>7. QED
    BY <1>1, <2>4, <2>5, <2>6
<1>4. ASSUME reg.num = EEPROM_REG_MAX_IDS, NEW id \in 0 .. LogPages - 2
      PROVE  /\ Loadable(id)
             /\ ~Overwritten(PageOf(id)) =>
                  page[PageOf(id)] = total - (LogPages - 2) + id
  <2>1. reg.firstReg = NextPage(reg.nextReg) /\ stored >= 4 * LogPages
    BY <1>1, <1>4 DEF LapInv
  <2>2. PageOf(id) \in Page /\ Loadable(id)
    BY <1>1, <2>1 DEF PageOf, Loadable, Page, NextPage
  <2>3. Age(PageOf(id)) = LogPages - 2 - id
    BY <1>1, <2>1 DEF Age, PageOf, Page, NextPage
  <2>4. Age(PageOf(id)) < stored
    BY <1>1, <2>1, <2>3
  <2>5. ~Overwritten(PageOf(id)) => page[PageOf(id)] = total - Age(PageOf(id))
    BY <1>2, <2>2, <2>4
  <2>6. QED
    BY <1>1, <2>2, <2>3, <2>5
<1> QED
  BY <1>3, <1>4 DEF ShownInOrder

\* A step writes at most the page after the newest one (StorePage), and page 0
\* with a time only when as many stores as there are slots came before (StoreTime).
LEMMA OnlyOldestStep ==
  ASSUME RingInv, [Next]_vars
  PROVE  [\A p \in Page : page'[p] # page[p] =>
            \/ Overwritten(p)
            \/ /\ p = reg.nextReg
               /\ stored > 0 => p # reg.lastReg]_vars
<1> USE DataLogAssumption DEF RingInv
<1>1. \/ page' = page
      \/ \E x : page' = [page EXCEPT ![reg.nextReg] = x]
      \/ page' = [page EXCEPT ![0] = 0] /\ reg.nextTime >= TimeSlots
  <2>1. CASE PowerLoss
    BY <2>1 DEF PowerLoss, Torn, eeprom
  <2>2. CASE StoreTime
    BY <2>2 DEF StoreTime, TypeOK, Ctrl
  <2> QED
    BY <2>1, <2>2
    DEF Next, vars, eeprom, Boot, AcceptReport, StoreStep, StorePage,
        StoreWord, UpdateStatus, ReadRequest, ReadTimeout
<1>a. reg.nextTime >= TimeSlots => stored >= TimeSlots
  BY DEF CountInv, TypeOK
<1>2. stored > 0 => reg.nextReg # reg.lastReg
  <2>1. reg.lastReg \in Page /\ (stored > 0 => reg.nextReg = NextPage(reg.lastReg))
    BY DEF CountInv, TypeOK, Ctrl
  <2>2. QED
    BY <2>1 DEF Page, NextPage
<1>3. QED
  BY <1>1, <1>2, <1>a DEF Overwritten, TypeOK
-----------------------------------------------------------------------------
\* Every report is handed to the EEPROM driver with the address of a page of
\* the report area, and every field of the control structure is one of Ctrl.
THEOREM TypeCorrect == Spec => []TypeOK
<1>1. RingInv => TypeOK
  BY DEF RingInv
<1>2. QED
  BY <1>1, RingInvariant, PTL

\* No store costs more than the oldest report, and from the end of the time area
\* on that of page 0.
THEOREM RecentKept == Spec => []RecentReportsKept
<1>1. RingInv => RecentReportsKept
  BY DEF RingInv
<1>2. QED
  BY <1>1, RingInvariant, PTL

\* "hist" shows the records in order on the first lap and after the counter
\* has stopped, page 0 excepted once the times go over it.
THEOREM ShownOrder == Spec => []ShownInOrder
<1>1. QED
  BY ShownFromRing, RingInvariant, PTL

\* The time shown with a record is the time of the newest one.
THEOREM NewestTime == Spec => []LoadedTimeIsNewest
<1>1. RingInv => LoadedTimeIsNewest
  BY DEF RingInv, TimeInv
<1>2. QED
  BY <1>1, RingInvariant, PTL

\* The header in the EEPROM is one dataLog_Status_Update behind.
THEOREM HeaderBehind == Spec => []HeaderOneBehind
<1>1. RingInv => HeaderOneBehind
  BY DEF RingInv, HeaderInv
<1>2. QED
  BY <1>1, RingInvariant, PTL

\* A report changes only when it is the next one to be replaced, or when it is on
\* page 0 and the time area is used up.
THEOREM OldestReplaced == Spec => OnlyOldestReplaced
<1>1. RingInv /\ [Next]_vars =>
        [\A p \in Page : page'[p] # page[p] =>
           \/ Overwritten(p)
           \/ /\ p = reg.nextReg
              /\ stored > 0 => p # reg.lastReg]_vars
  BY OnlyOldestStep
<1>2. QED
  BY <1>1, RingInvariant, PTL DEF Spec, OnlyOldestReplaced
-----------------------------------------------------------------------------
(* The abstract log.  While the time area lasts, what the ring keeps is     *)
(* a run of consecutive reports: Run(size, newest).                         *)

Run(size, newest) == [i \in 1 .. size |-> newest - size + i]

\* Reports in the ring, the one being stored from the moment its page is.
Added == IF pc \in {"off", "idle", "page"} THEN stored ELSE stored + 1
KeptSize == IF stored >= TimeSlots THEN 0
            ELSE IF Added < LogPages THEN Added ELSE LogPages
KeptNewest == IF pc = "page" THEN total - 1 ELSE total

LEMMA RunIsSeq ==
  ASSUME NEW size \in Nat, NEW newest \in Int
  PROVE  /\ Run(size, newest) \in Seq(Int) /\ Len(Run(size, newest)) = size
         /\ \A i \in 1 .. size : Run(size, newest)[i] = newest - size + i
<1> DEFINE q == Run(size, newest)
<1>1. q \in [1 .. size -> Int] /\ DOMAIN q = 1 .. size
  BY DEF Run
<1>2. \A i \in 1 .. size : q[i] = newest - size + i
  BY DEF Run
<1> HIDE DEF q
<1>3. q \in Seq(Int)
  BY <1>1, SeqDef
<1>4. Len(q) \in Nat /\ DOMAIN q = 1 .. Len(q)
  BY <1>3, LenProperties
<1>5. Len(q) = size
  BY <1>1, <1>4
<1> QED
  BY <1>2, <1>3, <1>5 DEF q

\* A newer report joins a run, or takes the place of its oldest one.
LEMMA RunGrows ==
  ASSUME NEW size \in Nat, NEW newest \in Int
  PROVE  Append(Run(size, newest), newest + 1) = Run(size + 1, newest + 1)
<1> DEFINE q == Run(size, newest)
           n == Run(size + 1, newest + 1)
           a == Append(q, newest + 1)
<1>1. /\ q \in Seq(Int) /\ Len(q) = size
      /\ \A i \in 1 .. size : q[i] = newest - size + i
  BY RunIsSeq
<1>2. /\ n \in Seq(Int) /\ Len(n) = size + 1
      /\ \A i \in 1 .. size + 1 : n[i] = newest + 1 - (size + 1) + i
  BY RunIsSeq
<1> HIDE DEF q, n
<1>3. /\ a \in Seq(Int) /\ Len(a) = size + 1
      /\ a[size + 1] = newest + 1 /\ \A i \in 1 .. size : a[i] = q[i]
  BY <1>1
<1> HIDE DEF a
<1>4. \A i \in 1 .. size + 1 : a[i] = n[i]
  BY <1>1, <1>2, <1>3
<1>5. a = n
  BY <1>2, <1>3, <1>4, SeqEqual
<1> QED
  BY <1>5 DEF a, q, n

LEMMA RunMoves ==
  ASSUME NEW size \in Nat \ {0}, NEW newest \in Int
  PROVE  Append(Tail(Run(size, newest)), newest + 1) = Run(size, newest + 1)
<1> DEFINE q == Run(size, newest)
           n == Run(size, newest + 1)
           t == Tail(q)
           a == Append(t, newest + 1)
<1>1. /\ q \in Seq(Int) /\ Len(q) = size
      /\ \A i \in 1 .. size : q[i] = newest - size + i
  BY RunIsSeq
<1>2. /\ n \in Seq(Int) /\ Len(n) = size
      /\ \A i \in 1 .. size : n[i] = newest + 1 - size + i
  BY RunIsSeq
<1> HIDE DEF q, n
<1>3. /\ t \in Seq(Int) /\ Len(t) = size - 1
      /\ \A i \in 1 .. size - 1 : t[i] = q[i + 1]
  <2>1. q # <<>>
    BY <1>1
  <2> QED
    BY <1>1, <2>1
<1> HIDE DEF t
<1>4. /\ a \in Seq(Int) /\ Len(a) = size
      /\ a[size] = newest + 1 /\ \A i \in 1 .. size - 1 : a[i] = t[i]
  BY <1>3
<1> HIDE DEF a
<1>5. \A i \in 1 .. size - 1 : a[i] = newest - size + (i + 1)
  BY <1>1, <1>3, <1>4
<1>6. \A i \in 1 .. size : a[i] = n[i]
  BY <1>2, <1>4, <1>5
<1>7. a = n
  BY <1>2, <1>4, <1>6, SeqEqual
<1> QED
  BY <1>7 DEF a, t, q, n

\* What the ring keeps (Kept), read off RingInv.
LEMMA KeptIsRun == RingInv => Kept = Run(KeptSize, KeptNewest)
<1> SUFFICES ASSUME RingInv
             PROVE  Kept = Run(KeptSize, KeptNewest)
  OBVIOUS
<1> USE DataLogAssumption DEF RingInv
<1> DEFINE last == IF Added = stored THEN reg.lastReg ELSE reg.nextReg
           at(i) == IF last - (KeptSize - i) >= 0 THEN last - (KeptSize - i)
                    ELSE last - (KeptSize - i) + LogPages
<1>1. Kept = [i \in 1 .. KeptSize |-> page[at(i)]]
  BY DEF Kept, KeptSize, Added
<1>2. /\ reg.lastReg \in Page /\ reg.nextReg \in Page
      /\ stored \in Nat /\ total \in Nat /\ Added \in Nat
      /\ KeptSize \in Nat /\ KeptSize <= Added /\ KeptSize <= LogPages
  BY DEF TypeOK, Ctrl, Added, KeptSize
<1>3. ASSUME NEW i \in 1 .. KeptSize
      PROVE  page[at(i)] = KeptNewest - KeptSize + i
  <2> DEFINE d == KeptSize - i
  <2>1. d \in Nat /\ d < Added /\ d < LogPages
    BY <1>2
  <2>a. \A p \in Page : ~Overwritten(p)
    BY <1>2 DEF Overwritten, KeptSize
  <2>2. CASE pc \in {"off", "idle", "page"}
    <3>1. Added = stored /\ last = reg.lastReg
      BY <2>2 DEF Added
    <3>2. reg.nextReg = NextPage(reg.lastReg)
      BY <1>2, <2>1, <3>1 DEF CountInv
    <3>3. at(i) \in Page /\ Age(at(i)) = d
      BY <1>2, <2>1, <3>1, <3>2 DEF Page, Age, NextPage
    <3>4. page[at(i)] = Newest - d
      BY <2>1, <2>2, <2>a, <3>1, <3>3 DEF RecentReportsKept, InStore
    <3>5. Newest = KeptNewest
      BY <2>2 DEF Newest, KeptNewest
    <3> QED
      BY <1>2, <3>4, <3>5 DEF KeptNewest
  <2>3. CASE pc \notin {"off", "idle", "page"}
    <3>1. Added = stored + 1 /\ last = reg.nextReg /\ KeptNewest = total
      BY <1>2, <2>3 DEF Added, KeptNewest
    <3>2. CASE d = 0
      <4>1. at(i) = reg.nextReg
        BY <1>2, <3>1, <3>2 DEF Page
      <4>2. page[at(i)] = total
        BY <1>2, <2>3, <2>a, <4>1 DEF PageInv, InStore
      <4> QED
        BY <1>2, <3>1, <3>2, <4>2
    <3>3. CASE d > 0
      <4>1. at(i) \in Page /\ at(i) # reg.nextReg /\ Age(at(i)) = d - 1
        BY <1>2, <2>1, <3>1, <3>3 DEF Page, Age
      <4>2. d - 1 < stored
        BY <1>2, <2>1, <3>1
      <4>3. page[at(i)] = Newest - (d - 1)
        BY <2>a, <4>1, <4>2 DEF RecentReportsKept, InStore
      <4>4. Newest = total - 1
        BY <2>3 DEF Newest
      <4> QED
        BY <1>2, <3>1, <4>3, <4>4
    <3> QED
      BY <2>1, <3>2, <3>3
  <2> QED
    BY <2>2, <2>3
<1> HIDE DEF at
<1> QED
  BY <1>1, <1>3 DEF Run

LEMMA NothingKept == \A n \in Int : Run(0, n) = <<>>
<1> TAKE n \in Int
<1>1. Run(0, n) \in Seq(Int) /\ Len(Run(0, n)) = 0
  BY RunIsSeq
<1> QED
  BY <1>1, EmptySeq

\* Every step of the log is a step of the abstract one, or none.
LEMMA LogStep == RingInv /\ [Next]_vars => [Log!Next]_Kept
<1> SUFFICES ASSUME RingInv, [Next]_vars
             PROVE  Log!Next \/ Kept' = Kept
  OBVIOUS
<1> USE DataLogAssumption
<1>1. /\ Kept = Run(KeptSize, KeptNewest)
      /\ Kept' = Run(KeptSize', KeptNewest')
  <2>1. RingInv'
    BY NextRing
  <2>2. (Kept = Run(KeptSize, KeptNewest))'
    BY <2>1, KeptIsRun, PTL
  <2> QED
    BY <2>2, KeptIsRun DEF Run
<1>2. /\ stored \in Nat /\ total \in Nat /\ reg.nextReg < LogPages
      /\ pc \notin {"off", "idle"} => stored < total
      /\ total \in 0 .. MaxReports
  BY DEF RingInv, TypeOK, CountInv, Storing, Ctrl, Page
<1>3. ASSUME KeptSize' = KeptSize, KeptNewest' = KeptNewest
      PROVE  Kept' = Kept
  BY <1>1, <1>3
<1>4. ASSUME KeptSize' = 0, KeptNewest' \in Int
      PROVE  Log!Next
  <2>1. Kept' = <<>>
    BY <1>1, <1>4, NothingKept
  <2> QED
    BY <2>1 DEF Log!Next, Log!Lose
<1>5. CASE PowerLoss
  <2>1. stored' = 0 /\ pc' = "off" /\ total' = total
    BY <1>5 DEF PowerLoss
  <2>2. KeptSize' = 0 /\ KeptNewest' \in Int
    BY <1>2, <2>1 DEF KeptSize, Added, KeptNewest
  <2> QED
    BY <1>4, <2>2
<1>6. CASE StorePage
  <2>1. /\ pc = "page" /\ pc' = "time" /\ stored' = stored /\ total' = total
    BY <1>2, <1>6 DEF StorePage
  <2>2. KeptNewest = total - 1 /\ KeptNewest' = total
    BY <2>1 DEF KeptNewest
  <2>3. CASE stored >= TimeSlots
    BY <1>2, <1>4, <2>1, <2>2, <2>3 DEF KeptSize
  <2>4. CASE stored < TimeSlots
    <3>1. /\ KeptSize = IF stored < LogPages THEN stored ELSE LogPages
          /\ KeptSize' = IF stored + 1 < LogPages THEN stored + 1 ELSE LogPages
      BY <1>2, <2>1, <2>4 DEF KeptSize, Added
    <3>2. total \in Report /\ KeptSize \in Nat /\ KeptNewest \in Int
      BY <1>2, <2>1, <2>2, <3>1 DEF Report
    <3>3. /\ Kept \in Seq(Int) /\ Len(Kept) = KeptSize
          /\ \A i \in 1 .. KeptSize : Kept[i] = KeptNewest - KeptSize + i
      BY <1>1, <3>2, RunIsSeq
    <3>4. \A i \in 1 .. Len(Kept) : Kept[i] < total
      BY <1>2, <2>2, <3>2, <3>3
    <3>5. CASE stored < LogPages
      <4>1. Append(Kept, total) = Kept'
        <5>1. KeptSize' = KeptSize + 1 /\ total = KeptNewest + 1
          BY <1>2, <2>2, <3>1, <3>5
        <5>2. Append(Run(KeptSize, KeptNewest), KeptNewest + 1)
                = Run(KeptSize + 1, KeptNewest + 1)
          BY <3>2, RunGrows
        <5> QED
          BY <1>1, <2>2, <5>1, <5>2
      <4>2. Len(Kept) < LogPages
        BY <1>2, <3>1, <3>3, <3>5
      <4> QED
        BY <3>2, <3>4, <4>1, <4>2 DEF Log!Next, Log!Add
    <3>6. CASE stored >= LogPages
      <4>1. Append(Tail(Kept), total) = Kept'
        <5>1. /\ KeptSize' = KeptSize /\ total = KeptNewest + 1
              /\ KeptSize \in Nat \ {0}
          BY <1>2, <2>2, <3>1, <3>6
        <5>2. Append(Tail(Run(KeptSize, KeptNewest)), KeptNewest + 1)
                = Run(KeptSize, KeptNewest + 1)
          BY <3>2, <5>1, RunMoves
        <5> QED
          BY <1>1, <2>2, <5>1, <5>2
      <4>2. ~(Len(Kept) < LogPages)
        BY <1>2, <3>1, <3>3, <3>6
      <4> QED
        BY <3>2, <3>4, <4>1, <4>2 DEF Log!Next, Log!Add
    <3> QED
      BY <1>2, <3>5, <3>6
  <2> QED
    BY <1>2, <2>3, <2>4
<1>7. CASE UpdateStatus
  <2>1. /\ pc = "update" /\ pc' = "idle" /\ stored' = stored + 1 /\ total' = total
    BY <1>7 DEF UpdateStatus
  <2>2. KeptNewest' = KeptNewest /\ KeptNewest' \in Int
    BY <1>2, <2>1 DEF KeptNewest
  <2>3. CASE stored + 1 >= TimeSlots
    BY <1>4, <2>1, <2>2, <2>3 DEF KeptSize
  <2>4. CASE stored + 1 < TimeSlots
    BY <1>2, <1>3, <2>1, <2>2, <2>4 DEF KeptSize, Added
  <2> QED
    BY <1>2, <2>3, <2>4
<1>8. CASE Boot \/ AcceptReport \/ StoreTime \/ StoreWord
  <2>1. KeptSize' = KeptSize /\ KeptNewest' = KeptNewest
    BY <1>2, <1>8
    DEF Boot, AcceptReport, StoreTime, StoreWord, KeptSize, Added, KeptNewest
  <2> QED
    BY <1>3, <2>1
<1>9. CASE \/ ReadTimeout \/ UNCHANGED vars
           \/ \E id \in 0 .. 1, number \in {0, EEPROM_REG_MAX_IDS + 1} :
                ReadRequest(id, number)
  <2>1. UNCHANGED <<pc, stored, total>>
    BY <1>9 DEF ReadTimeout, ReadRequest, vars
  <2> QED
    BY <1>3, <2>1 DEF KeptSize, Added, KeptNewest
<1> QED
  BY <1>5, <1>6, <1>7, <1>8, <1>9 DEF Next, StoreStep

\* For every number of pages and slots, the log with its ring, its counters and
\* its power losses is the sequence of the newest reports, as long as the time
\* area lasts (dataLog_Page_Store).
THEOREM LogImplemented == Spec => LogSpec
<1>1. Init => Log!Init
  <2> SUFFICES ASSUME Init
               PROVE  Kept = <<>>
    BY DEF Log!Init
  <2>1. KeptSize = 0 /\ KeptNewest = 0
    BY DataLogAssumption DEF Init, KeptSize, Added, KeptNewest
  <2> QED
    BY <2>1, InitRing, KeptIsRun, NothingKept
<1>2. RingInv /\ [Next]_vars => [Log!Next]_Kept
  BY LogStep
<1> QED
  BY <1>1, <1>2, RingInvariant, PTL DEF Spec, LogSpec, Log!Spec
=============================================================================
