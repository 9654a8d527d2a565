------------------------------ MODULE DataLog ------------------------------
(***************************************************************************)
(* The report log kept in the internal EEPROM (memDrive/binaryFiles.c over *)
(* api_support/api_EEPROM.c) and the task that serves it                   *)
(* (taskServices/filesManager.c, dataLog_Service).                         *)
(*                                                                         *)
(* Units.  The code keeps byte addresses; the model keeps the index each   *)
(* address stands for:                                                     *)
(*   report page p    is address EEPROM_ADD_INIT_REG + 128 * p,            *)
(*   time slot s      is address EEPROM_ADD_INIT_TIME + 4 * s.             *)
(* EEPROM_ADD_TIME_MAX = EEPROM_ADD_INIT_REG, so slot TimeSlots is the     *)
(* first word of page 0, and EEPROM_ADD_REG_MAX is page LogPages, the      *)
(* first address the EEPROM driver refuses.                                *)
(*                                                                         *)
(* A report is a number, in the order the service accepts them; 0 is the   *)
(* content of a page or slot that holds no whole report of this device:    *)
(* one torn by a power loss, or one whose first word a time has replaced.  *)
(* dataLog_Page_Store runs inside taskENTER_CRITICAL, so no other task     *)
(* sees its steps: only a power loss separates them.                       *)
(***************************************************************************)
EXTENDS Integers

CONSTANTS
  LogPages,     (* pages of the report area, 112 in the code              *)
  TimeSlots,    (* words of the time area, 7 * 32 = 224 in the code       *)
  SlotsPerPage, (* words of a page of the EEPROM, 32 in the code          *)
  StackFill,    (* what the uninitialised regAux.add_lastReg may hold     *)
  MaxReports,   (* bound: reports offered to the service in a behaviour   *)
  MaxReads      (* bound: "hist" requests in a behaviour                  *)

\* binaryFiles.h:14-17, in bytes: used only for the address test of
\* dataLog_Init, whose operand is not a page index.
EEPROM_ADD_INIT_TIME == 8 * 128
EEPROM_ADD_TIME_MAX  == EEPROM_ADD_INIT_TIME + 4 * TimeSlots

\* The test dataLog_Init applies to the last report address.  The ranges of
\* REG_CHECK_ADD and TIME_CHECK_ADD are exchanged in the code: this is the
\* range of the time area.
REG_CHECK_ADD(x) == EEPROM_ADD_INIT_TIME <= x /\ EEPROM_ADD_TIME_MAX >= x

\* dataLog_Status_Load writes through &ptrRet, so regAux keeps what the stack
\* held: tskSTACK_FILL_BYTE, 0xA5A5 = 42405, on the first call of the task.
ASSUME DataLogAssumption ==
  /\ LogPages \in Nat /\ LogPages > 1
  /\ TimeSlots \in Nat /\ TimeSlots > LogPages
  /\ SlotsPerPage \in Nat \ {0}
  /\ StackFill \subseteq Nat /\ StackFill # {}
  /\ \A x \in StackFill : ~REG_CHECK_ADD(x)
  /\ MaxReports \in Nat /\ MaxReads \in Nat

\* (REG_MAX - INIT_REG) bytes / 32: four identifiers for every page, where the
\* comment of add_num_register speaks of 112, one for every page.
EEPROM_REG_MAX_IDS == 4 * LogPages

Page   == 0 .. LogPages - 1
Slot   == 0 .. TimeSlots - 1
Report == 1 .. MaxReports

\* CtrlE2P_t.  Of nextTime and lastTime, TimeSlots is EEPROM_ADD_TIME_MAX: no
\* slot of the time area but the first word of report page 0.
Ctrl == [num : 0 .. EEPROM_REG_MAX_IDS,
         lastTime : 0 .. TimeSlots, nextTime : 0 .. TimeSlots,
         firstReg : Page, lastReg : Page, nextReg : Page]

FreshCtrl == [num |-> 0, lastTime |-> 0, nextTime |-> 0,
              firstReg |-> 0, lastReg |-> 0, nextReg |-> 0]

VARIABLES
  pc,       (* where the service is, "off" while there is no power        *)
  reg,      (* regEeprom, the control structure in RAM                    *)
  page,     (* EEPROM: the report each page holds whole                   *)
  slot,     (* EEPROM: the report whose time each slot holds              *)
  head,     (* EEPROM: 0, or the report whose time is in the first word   *)
            (* of page 0, which then holds no whole report                *)
  hdr,      (* EEPROM: the copy of the control structure, FreshCtrl if it *)
            (* was never written whole                                    *)
  total,    (* reports the service has accepted; the newest one           *)
  stored,   (* reports stored since power on                              *)
  monitor,  (* modeMonitor, idReg, numberReg of dataLog_Service           *)
  printed,  (* the last record the reading in progress has sent           *)
  reads     (* "hist" requests so far                                     *)

eeprom == <<page, slot, head, hdr>>
vars == <<pc, reg, eeprom, total, stored, monitor, printed, reads>>

Off == [on |-> FALSE, id |-> 0, number |-> 0]
Nothing == [id |-> 0, report |-> 0, time |-> 0]

Init ==
  /\ pc = "off"
  /\ reg = FreshCtrl
  /\ page = [p \in Page |-> 0]
  /\ slot = [s \in Slot |-> 0]
  /\ head = 0
  /\ hdr = FreshCtrl
  /\ total = 0 /\ stored = 0 /\ reads = 0
  /\ monitor = Off
  /\ printed = Nothing
-----------------------------------------------------------------------------
(* Power *)

\* dataLog_Init.  Both ways of failing the test lead to a fresh log.
Boot ==
  /\ pc = "off"
  /\ \E x \in StackFill : ~REG_CHECK_ADD(x)
  /\ reg' = FreshCtrl
  /\ pc' = "idle"
  /\ UNCHANGED <<eeprom, total, stored, monitor, printed, reads>>

\* What the page of the EEPROM that was being programmed is left with: each
\* write, also of one word, erases and programs a page of the device.
Torn ==
  \/ /\ pc = "page"
     /\ page' = [page EXCEPT ![reg.nextReg] = 0]
     /\ head' = IF reg.nextReg = 0 THEN 0 ELSE head
     /\ UNCHANGED <<slot, hdr>>
  \/ /\ pc = "time" /\ reg.nextTime < TimeSlots
     /\ slot' = [s \in Slot |->
                   IF s \div SlotsPerPage = reg.nextTime \div SlotsPerPage
                   THEN 0 ELSE slot[s]]
     /\ UNCHANGED <<page, head, hdr>>
  \/ /\ pc = "time" /\ reg.nextTime >= TimeSlots
     /\ page' = [page EXCEPT ![0] = 0]
     /\ head' = 0
     /\ UNCHANGED <<slot, hdr>>
  \/ /\ pc \in {"word0", "word1", "word2"}
     /\ hdr' = FreshCtrl
     /\ UNCHANGED <<page, slot, head>>

\* A power loss, at any step.
PowerLoss ==
  /\ pc # "off"
  /\ pc' = "off"
  /\ Torn \/ UNCHANGED eeprom
  /\ reg' = FreshCtrl
  /\ stored' = 0
  /\ monitor' = Off
  /\ printed' = Nothing
  /\ UNCHANGED <<total, reads>>
-----------------------------------------------------------------------------
(* dataLog_Page_Store, step by step *)

\* dataLog_Service takes a writePage command and gets MGR_INPUT_MUTEX.
AcceptReport ==
  /\ pc = "idle"
  /\ total < MaxReports
  /\ total' = total + 1
  /\ pc' = "page"
  /\ UNCHANGED <<reg, eeprom, stored, monitor, printed, reads>>

\* EEPROM_writePage; rejected (and the report lost) outside the EEPROM.
StorePage ==
  /\ pc = "page"
  /\ IF reg.nextReg < LogPages
     THEN /\ page' = [page EXCEPT ![reg.nextReg] = total]
          /\ head' = IF reg.nextReg = 0 THEN 0 ELSE head
          /\ pc' = "time"
     ELSE /\ pc' = "idle"
          /\ UNCHANGED <<page, head>>
  /\ UNCHANGED <<reg, slot, hdr, total, stored, monitor, printed, reads>>

\* dataLog_Time_Store: the time goes to nextTime.  When that has reached
\* EEPROM_ADD_TIME_MAX it is the first word of page 0, and the report of that
\* page is damaged.
StoreTime ==
  /\ pc = "time"
  /\ IF reg.nextTime < TimeSlots
     THEN /\ slot' = [slot EXCEPT ![reg.nextTime] = total]
          /\ UNCHANGED <<page, head>>
     ELSE /\ page' = [page EXCEPT ![0] = 0]
          /\ head' = total
          /\ UNCHANGED slot
  /\ pc' = "word0"
  /\ UNCHANGED <<reg, hdr, total, stored, monitor, printed, reads>>

\* Fault: the loop over the words of the header ends one word too soon.
StoreWordShort ==
  /\ \/ /\ pc = "word0" /\ pc' = "word1"
        /\ hdr' = [hdr EXCEPT !.num = reg.num, !.lastTime = reg.lastTime]
     \/ /\ pc = "word1" /\ pc' = "update"
        /\ hdr' = [hdr EXCEPT !.nextTime = reg.nextTime,
                              !.firstReg = reg.firstReg]
  /\ UNCHANGED <<reg, page, slot, head, total, stored, monitor, printed, reads>>

\* dataLog_Status_Store: the control structure as it is BEFORE this store is
\* counted, one 32-bit word (two fields) at a time.
StoreWord ==
  /\ \/ /\ pc = "word0" /\ pc' = "word1"
        /\ hdr' = [hdr EXCEPT !.num = reg.num, !.lastTime = reg.lastTime]
     \/ /\ pc = "word1" /\ pc' = "word2"
        /\ hdr' = [hdr EXCEPT !.nextTime = reg.nextTime,
                              !.firstReg = reg.firstReg]
     \/ /\ pc = "word2" /\ pc' = "update"
        /\ hdr' = [hdr EXCEPT !.lastReg = reg.lastReg,
                              !.nextReg = reg.nextReg]
  /\ UNCHANGED <<reg, page, slot, head, total, stored, monitor, printed, reads>>

\* Faults: the limit is tested one page too late, one page too soon, or the
\* address is held at the end as that of the time is.
NextPageLate(p) == IF LogPages < p + 1 THEN 0 ELSE p + 1
NextPageSoon(p) == IF LogPages <= p + 2 THEN 0 ELSE p + 1
NextPageHeld(p) == IF LogPages <= p + 1 THEN LogPages - 1 ELSE p + 1

\* An address one page further, starting again at EEPROM_ADD_INIT_REG.
NextPage(p) == IF LogPages <= p + 1 THEN 0 ELSE p + 1

\* Fault: the time area counts as used up one slot too soon.
NextSlotSoon(s) == IF TimeSlots <= s + 2 THEN TimeSlots ELSE s + 1

\* nextTime is held at the end of the time area, not returned to its start.
NextSlot(s) == IF TimeSlots <= s + 1 THEN TimeSlots ELSE s + 1

\* The control structure after one more store.
Advanced(r) ==
  LET full == EEPROM_REG_MAX_IDS <= r.num + 1
  IN [num      |-> IF full THEN EEPROM_REG_MAX_IDS ELSE r.num + 1,
      lastTime |-> r.nextTime,
      nextTime |-> NextSlot(r.nextTime),
      firstReg |-> IF full THEN NextPage(r.firstReg) ELSE r.firstReg,
      lastReg  |-> r.nextReg,
      nextReg  |-> NextPage(r.nextReg)]

\* dataLog_Status_Update, and the return of dataLog_Page_Store.
UpdateStatus ==
  /\ pc = "update"
  /\ reg' = Advanced(reg)
  /\ stored' = stored + 1
  /\ pc' = "idle"
  /\ UNCHANGED <<eeprom, total, monitor, printed, reads>>
-----------------------------------------------------------------------------
(* Reading back *)

\* Fault: an identifier is not wrapped round the end of the area.
PageOfStraight(id) == reg.firstReg + id

\* ID_GET_ADD and the single wrap of dataLog_Page_Load.
PageOf(id) == IF LogPages <= reg.firstReg + id
              THEN reg.firstReg + id - LogPages ELSE reg.firstReg + id

\* Page_Load succeeds: ID_CHECK_VALID and the address test of the driver.
Loadable(id) == EEPROM_REG_MAX_IDS >= id /\ PageOf(id) < LogPages

\* Fault: the time is read where the next one will be written.
LoadedTimeOfNext == IF reg.nextTime < TimeSlots THEN slot[reg.nextTime] ELSE head

\* dataLog_Time_Load: the time of slot lastTime, whatever the record asked for.
LoadedTime == IF reg.lastTime < TimeSlots THEN slot[reg.lastTime] ELSE head

\* The readPage command: from record id on, up to number records; 0 stops.
ReadRequest(id, number) ==
  /\ pc = "idle"
  /\ reads < MaxReads
  /\ reads' = reads + 1
  /\ monitor' = IF number # 0
                THEN [on |-> TRUE, id |-> id, number |-> number]
                ELSE [monitor EXCEPT !.on = FALSE]
  /\ printed' = Nothing
  /\ UNCHANGED <<pc, reg, eeprom, total, stored>>

\* Fault: nothing is done when the log is empty or the record cannot be loaded.
ReadTimeoutStuck ==
  /\ pc = "idle"
  /\ monitor.on
  /\ reg.num # 0 /\ Loadable(monitor.id)
  /\ monitor' = IF monitor.id < reg.num THEN [monitor EXCEPT !.id = @ + 1]
                ELSE [monitor EXCEPT !.on = FALSE]
  /\ UNCHANGED <<pc, reg, eeprom, total, stored, printed, reads>>

\* MGR_DATALOG_QUEUE stayed empty for TIMEOUT_QUEUE_LOG_INP and a reading is
\* in progress: dataLog_readRegisters prints one record or ends the reading.
\* A record that cannot be loaded is skipped without a message.
ReadTimeout ==
  /\ pc = "idle"
  /\ monitor.on
  /\ LET numReg == IF reg.num # 0 /\ reg.num >= monitor.number
                   THEN monitor.number ELSE reg.num
         id == monitor.id
     IN IF id < numReg
        THEN /\ monitor' = [monitor EXCEPT !.id = id + 1]
             /\ printed' = IF Loadable(id)
                           THEN [id |-> id, report |-> page[PageOf(id)],
                                 time |-> LoadedTime]
                           ELSE printed
        ELSE /\ monitor' = [monitor EXCEPT !.on = FALSE]
             /\ printed' = Nothing
  /\ UNCHANGED <<pc, reg, eeprom, total, stored, reads>>
-----------------------------------------------------------------------------
\* Requests: the shell sends 0xFFFF (more than any count) or 0 as number.
StoreStep == StorePage \/ StoreTime \/ StoreWord \/ UpdateStatus

Next ==
  \/ Boot
  \/ PowerLoss
  \/ AcceptReport
  \/ StoreStep
  \/ \E id \in 0 .. 1, number \in {0, EEPROM_REG_MAX_IDS + 1} :
       ReadRequest(id, number)
  \/ ReadTimeout

Spec == Init /\ [][Next]_vars

\* The service keeps running while there is power, and the queue is found
\* empty again and again: a page takes at least REG_OPR_LOG / 3 seconds to
\* fill and the wait is 0.8 s.
Fairness == WF_vars(Boot) /\ WF_vars(StoreStep) /\ SF_vars(ReadTimeout)

FairSpec == Spec /\ Fairness
-----------------------------------------------------------------------------
(* Properties *)

\* Every report address is a page of the report area, so that no page is ever
\* refused, and every field is one of Ctrl (dataLog_Status_Update).  That is not
\* to say that a time is in its area: nextTime may be TimeSlots, a word of
\* page 0 (TimesInTimeArea), and num goes beyond the pages there are.
TypeOK ==
  /\ pc \in {"off", "idle", "page", "time", "word0", "word1", "word2", "update"}
  /\ reg \in Ctrl /\ hdr \in Ctrl
  /\ page \in [Page -> 0 .. MaxReports]
  /\ slot \in [Slot -> 0 .. MaxReports]
  /\ head \in 0 .. MaxReports
  /\ total \in 0 .. MaxReports
  /\ stored \in 0 .. MaxReports
  /\ monitor \in [on : BOOLEAN, id : Nat, number : Nat]
  /\ printed \in [id : Nat, report : 0 .. MaxReports, time : 0 .. MaxReports]
  /\ reads \in 0 .. MaxReads

\* The report accepted last among those whose store is complete.
Newest == IF pc \in {"off", "idle"} THEN total ELSE total - 1

\* How many stores ago page p was written: 0 for the page before nextReg,
\* LogPages - 1 for nextReg itself, which is the next one to be overwritten.
Age(p) == IF p < reg.nextReg THEN reg.nextReg - 1 - p
          ELSE reg.nextReg - 1 - p + LogPages

\* The page dataLog_Page_Store is replacing and has not yet counted.
InStore(p) == p = reg.nextReg /\ pc \notin {"off", "idle", "page"}

\* From store TimeSlots + 1 on each time goes over page 0.
Overwritten(p) == p = 0 /\ stored >= TimeSlots

\* The last LogPages reports stored since power on are all in the EEPROM, each
\* whole and on its page of the ring, at every step of a store in progress:
\* dataLog_Page_Store replaces nothing but the oldest one.  Page 0 is excepted
\* once the time area is used up (StoreTime).
RecentReportsKept ==
  \A p \in Page :
    Age(p) < stored /\ ~InStore(p) /\ ~Overwritten(p) => page[p] = Newest - Age(p)

\* "hist" shows the reports in the order they were stored, one record per
\* report, as long as the ring has not wrapped, and again once the record
\* counter has stopped at EEPROM_REG_MAX_IDS, except for the last identifiers
\* (which repeat) and for page 0 once the times go over it.
ShownInOrder ==
  pc = "idle" =>
    /\ reg.num <= LogPages =>
         \A id \in 0 .. LogPages - 1 :
           id < reg.num => /\ Loadable(id)
                           /\ page[PageOf(id)] = total - reg.num + 1 + id
    /\ reg.num = EEPROM_REG_MAX_IDS =>
         \A id \in 0 .. LogPages - 2 :
           /\ Loadable(id)
           /\ ~Overwritten(PageOf(id)) =>
                page[PageOf(id)] = total - (LogPages - 2) + id

\* The time dataLog_Page_Load returns is always the one stored with the newest
\* report, also when the time area is used up (dataLog_Time_Load).
LoadedTimeIsNewest == pc = "idle" /\ stored > 0 => LoadedTime = total

\* After a store the copy of the control structure in the EEPROM is exactly
\* one dataLog_Status_Update behind the one in RAM: nothing else is needed to
\* recover it.
HeaderOneBehind == pc = "idle" /\ stored > 0 => reg = Advanced(hdr)

\* The log as its user sees it: the last reports, oldest first, read off the
\* ring.  A report enters it when its page is written (StorePage).  Once the
\* time area is used up it promises nothing: times go over page 0.
Kept ==
  LET added == IF pc \in {"off", "idle", "page"} THEN stored ELSE stored + 1
      last  == IF added = stored THEN reg.lastReg ELSE reg.nextReg
      size  == IF stored >= TimeSlots THEN 0
               ELSE IF added < LogPages THEN added ELSE LogPages
      at(i) == IF last - (size - i) >= 0 THEN last - (size - i)
               ELSE last - (size - i) + LogPages
  IN [i \in 1 .. size |-> page[at(i)]]

\* Up to the exhaustion of the time area the log is the ring of its newest
\* LogPages reports, with power losses at any step of a store.
Log == INSTANCE ReportLog WITH Capacity <- LogPages, Reports <- Report,
                               kept <- Kept
LogSpec == Log!Spec

\* A store, or a power loss in the middle of one, never changes a report other
\* than the one about to be replaced, and never the newest complete one, until
\* the time area is used up.  From then on the report on page 0 may be changed
\* at any store, whichever it is, and still no other (StoreTime, Torn).
OnlyOldestReplaced ==
  [][\A p \in Page : page'[p] # page[p] =>
       \/ Overwritten(p)
       \/ /\ p = reg.nextReg
          /\ stored > 0 => p # reg.lastReg]_vars

\* A "hist" reading started from the shell ends by itself, with records that
\* cannot be loaded and reports arriving meanwhile (ReadTimeout).
ReadingEnds == monitor.on ~> ~monitor.on

\* What the header of the file says (binaryFiles.h:15): the time area is 0x0400
\* to 0x077F, so no time is ever written over the first report page.
TimesInTimeArea == head = 0
=============================================================================
