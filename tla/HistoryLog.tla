----------------------------- MODULE HistoryLog -----------------------------
(***************************************************************************)
(* How registers reach the report log: sup_historyRegister of the input    *)
(* task and historyRegister of the output task each fill a buffer of       *)
(* REG_OPR_LOG registers, and a full buffer is announced to                *)
(* dataLog_Service on MGR_DATALOG_QUEUE.  The message carries the ADDRESS  *)
(* of the buffer: its producer goes on filling it while the message waits, *)
(* and the service, which prints a record of "hist" every second or so,    *)
(* may be late.                                                            *)
(*                                                                         *)
(* A register is its number, in the order its producer made it.  Filling   *)
(* and copying a buffer hold MGR_INPUT_MUTEX and wait for nothing, so each *)
(* is one step.                                                            *)
(***************************************************************************)
EXTENDS Integers, Sequences

CONSTANTS
  REG_OPR_LOG,   (* registers of a buffer, 32 in the code                 *)
  Channels,      (* how many analog channels may be enabled, {2, 3}       *)
  LogQueue,      (* MGR_DATALOG_QUEUE_LENGT, 4 in the code                *)
  MaxRegisters   (* bound: registers of one producer in a behaviour       *)

ASSUME HistoryLogAssumption ==
  /\ REG_OPR_LOG \in Nat \ {0}
  /\ Channels \subseteq Nat \ {0}
  /\ LogQueue \in Nat \ {0}
  /\ MaxRegisters \in Nat

Producer == {"input", "output"}
Position == 0 .. REG_OPR_LOG - 1
Count    == 0 .. MaxRegisters

VARIABLES
  regToLog,  (* the buffer of each producer                               *)
  idReg,     (* the position each will fill next                          *)
  made,      (* registers each has made                                   *)
  hour,      (* dataToLog.auxVal_1, auxVal_2: the register whose time it  *)
             (* is                                                        *)
  left,      (* channels of an analog message not yet registered          *)
  sending,   (* the producer is at its xQueueSend                         *)
  logq,      (* MGR_DATALOG_QUEUE                                         *)
  page,      (* the last page stored, and what was known when it was      *)
  announced  (* full buffers each has sent, or lost to a timeout          *)

vars == <<regToLog, idReg, made, hour, left, sending, logq, page, announced>>

\* dlogPack_t, with the count of registers at its sending; and a stored page,
\* with the count of registers when it was copied.
Pack == [from : Producer, hour : Count, sent : Count]
Page == [from : Producer, hour : Count, at : Count, regs : [Position -> Count]]

Init ==
  /\ regToLog = [p \in Producer |-> [k \in Position |-> 0]]
  /\ idReg = [p \in Producer |-> 0]
  /\ made = [p \in Producer |-> 0]
  /\ hour = [p \in Producer |-> 0]
  /\ left = 0
  /\ sending = [p \in Producer |-> FALSE]
  /\ logq = <<>>
  /\ page = {}
  /\ announced = [p \in Producer |-> 0]

\* Faults: the end of the buffer is tested one register too late or too soon.
NextIdLate(k) == IF REG_OPR_LOG < k + 1 THEN 0 ELSE k + 1
NextIdSoon(k) == IF REG_OPR_LOG <= k + 2 THEN 0 ELSE k + 1

\* The position after k; the buffer is full when it is back at its start.
NextId(k) == IF REG_OPR_LOG <= k + 1 THEN 0 ELSE k + 1

\* sup_historyRegister and historyRegister, the same code in two files.
Register(p) ==
  /\ made[p] < MaxRegisters
  /\ made' = [made EXCEPT ![p] = @ + 1]
  /\ hour' = [hour EXCEPT ![p] = IF idReg[p] = 0 THEN made[p] + 1 ELSE @]
  /\ regToLog' = [regToLog EXCEPT ![p][idReg[p]] = made[p] + 1]
  /\ idReg' = [idReg EXCEPT ![p] = NextId(@)]
  /\ UNCHANGED <<logq, page, announced>>

\* Faults: the buffer counts as full one register too soon, twice, or never.
BuffFullSoon(p) == idReg[p] = REG_OPR_LOG - 2
BuffFullTwice(p) == idReg[p] >= REG_OPR_LOG - 2
BuffFullNever(p) == idReg[p] = REG_OPR_LOG

\* RET_VAL_BUFF_FULL in what Register(p) returns.
BuffFull(p) == NextId(idReg[p]) = 0

\* portInputAnalog arrives: sup_historyAInput will register n channels.
AnalogMessage(n) ==
  /\ left = 0 /\ ~sending["input"]
  /\ made["input"] + n <= MaxRegisters
  /\ left' = n
  /\ UNCHANGED <<regToLog, idReg, made, hour, sending, logq, page, announced>>

\* The next channel.  retval is what the LAST channel returned.
AnalogChannel ==
  /\ left > 0
  /\ Register("input")
  /\ left' = left - 1
  /\ sending' = [sending EXCEPT !["input"] = left = 1 /\ BuffFull("input")]

\* portInputDigital: sup_historyDInput.
DigitalMessage ==
  /\ left = 0 /\ ~sending["input"]
  /\ Register("input")
  /\ sending' = [sending EXCEPT !["input"] = BuffFull("input")]
  /\ UNCHANGED left

\* portOutputDigital, in taskControlOutputs.
OutputMessage ==
  /\ ~sending["output"]
  /\ Register("output")
  /\ sending' = [sending EXCEPT !["output"] = BuffFull("output")]
  /\ UNCHANGED left

\* xQueueSend, which copies the dlogPack_t, or its timeout.
Announce(p) ==
  /\ sending[p]
  /\ \/ /\ Len(logq) < LogQueue
        /\ logq' = Append(logq, [from |-> p, hour |-> hour[p], sent |-> made[p]])
     \/ /\ Len(logq) >= LogQueue
        /\ UNCHANGED logq
  /\ sending' = [sending EXCEPT ![p] = FALSE]
  /\ announced' = [announced EXCEPT ![p] = @ + 1]
  /\ UNCHANGED <<regToLog, idReg, made, hour, left, page>>

\* dataLog_writeRegister: the page is what the buffer holds NOW.
WriteRegister ==
  /\ logq # <<>>
  /\ LET m == Head(logq)
     IN page' = {[from |-> m.from, hour |-> m.hour, at |-> made[m.from],
                  regs |-> regToLog[m.from]]}
  /\ logq' = Tail(logq)
  /\ UNCHANGED <<regToLog, idReg, made, hour, left, sending, announced>>

Next ==
  \/ \E n \in Channels : AnalogMessage(n)
  \/ AnalogChannel
  \/ DigitalMessage
  \/ OutputMessage
  \/ \E p \in Producer : Announce(p)
  \/ WriteRegister

Spec == Init /\ [][Next]_vars
-----------------------------------------------------------------------------
(* Properties *)

\* Every position stays inside its buffer and the queue inside its length
\* (sup_historyRegister, historyRegister).
TypeOK ==
  /\ regToLog \in [Producer -> [Position -> Count]]
  /\ idReg \in [Producer -> Position]
  /\ made \in [Producer -> Count]
  /\ hour \in [Producer -> Count]
  /\ left \in Nat
  /\ sending \in [Producer -> BOOLEAN]
  /\ logq \in Seq(Pack) /\ Len(logq) <= LogQueue
  /\ page \subseteq Page
  /\ announced \in [Producer -> Count]

\* The registers of the fill that ended with register n, in order.
Fill(n) == [k \in Position |-> n - REG_OPR_LOG + 1 + k]

\* A full buffer stays as it was filled, with the time of its first register,
\* while its producer is stopped at a full queue and after that for as long as
\* the producer makes no other register: a service that is in time stores
\* exactly the fill it was told of (xQueueSend of dataToLog).
FillIntact ==
  /\ \A p \in Producer : sending[p] =>
       regToLog[p] = Fill(made[p]) /\ hour[p] = made[p] - REG_OPR_LOG + 1
  /\ \A k \in 1 .. Len(logq) : logq[k].sent = made[logq[k].from] =>
       /\ regToLog[logq[k].from] = Fill(logq[k].sent)
       /\ logq[k].hour = logq[k].sent - REG_OPR_LOG + 1

\* A page stored late is torn between two fills, but it still holds the newest
\* registers of its producer without a gap, and its time is never later than
\* that of any of them (dataLog_writeRegister).
LatePageHasNewest ==
  \A g \in page :
    /\ {g.regs[k] : k \in Position} = g.at - REG_OPR_LOG + 1 .. g.at
    /\ g.hour <= g.at - REG_OPR_LOG + 1

\* The output task announces every buffer it fills (or loses the message to a
\* timeout): none is forgotten.
OutputFillsAnnounced ==
  ~sending["output"] => announced["output"] = made["output"] \div REG_OPR_LOG

\* The pages of a producer are stored in the order of its fills and never under
\* the same time twice.  Announcements of one buffer that wait together are all
\* stored with the registers it has then: only their times, taken when the fills
\* began and sent by value, still tell them apart (xQueueSend of dataToLog).
PagesInOrder ==
  \A k \in 1 .. Len(logq) :
    /\ \A j \in 1 .. k - 1 : logq[j].from = logq[k].from =>
         logq[j].hour + REG_OPR_LOG <= logq[k].hour
    /\ \A g \in page : g.from = logq[k].from =>
         g.hour + REG_OPR_LOG <= logq[k].hour

\* What inputManager.c:858 says of the input task: when the RAM registers are
\* complete they are sent to the EEPROM.
InputFillsAnnounced ==
  left = 0 /\ ~sending["input"] =>
    announced["input"] = made["input"] \div REG_OPR_LOG
=============================================================================
