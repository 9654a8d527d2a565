------------------------------ MODULE Terminal ------------------------------
(***************************************************************************)
(* The terminal task with its shell (terminalManager.c, usrcmd.c) and the  *)
(* two processes a user starts and stops from it: the reading of the log   *)
(* ("hist", served by dataLog_Service) and the monitor of the inputs       *)
(* ("mon": taskControlInputs starts TIMER_REPORTS, whose callback in the   *)
(* timer daemon asks the input task for one text a second).                *)
(*                                                                         *)
(* Three tasks send texts to the terminal.  A message carries the address  *)
(* of a static buffer of its sender, never the text: what is printed is    *)
(* what the buffer holds when the terminal gets to it.  `unseen' has the   *)
(* senders whose newest text has still to be read.                         *)
(*                                                                         *)
(* The tasks send to each other in a circle - terminal to input task,      *)
(* input task to terminal - and every wait for room ends by its timeout    *)
(* with the message lost; no caller looks at the result.                   *)
(***************************************************************************)
EXTENDS LastCommand

CONSTANTS
  Sender,         (* the tasks that send texts: "input", "output",        *)
                  (* "service"                                            *)
  InputsTotal,    (* EXT_INPUTS_TOTAL, 8 in the code                      *)
  Enabled,        (* the inputs of the table that are enabled             *)
  TerminalQueue,  (* MGR_TERMINAL_QUEUE_LEN, 4 in the code                *)
  InputQueue,     (* MGR_INPUT_QUEUE_LENGT, 10 in the code                *)
  LogQueue,       (* MGR_DATALOG_QUEUE_LENGT, 4 in the code               *)
  TimerQueue      (* configTIMER_QUEUE_LENGTH, 8 in the code              *)

ASSUME TerminalAssumption ==
  /\ {"input", "service"} \subseteq Sender
  /\ InputsTotal \in Nat /\ Enabled \subseteq 0 .. InputsTotal - 1
  /\ {TerminalQueue, InputQueue, LogQueue, TimerQueue} \subseteq Nat \ {0}

\* The processes a command is for (data_arguments.destino): the log, the inputs.
CMD_TASK_N1 == 0
CMD_TASK_N2 == 1
Process == {CMD_TASK_N1, CMD_TASK_N2}

\* What a task with a static text buffer sends: the text, or MP_BLOCK and
\* MP_RELEASE, which change nothing that is ever read.
Message == [from : Sender, text : BOOLEAN]
Text(s) == [from |-> s, text |-> TRUE]

\* Requests to the input task and to the log service.  A status or a page asks
\* for one thing only.
InputRequest == [id : {"config", "status"}, set : BOOLEAN]
LogRequest   == [id : {"read", "write"}, set : BOOLEAN]
Status == [id |-> "status", set |-> TRUE]
Write  == [id |-> "write", set |-> TRUE]

NONE == -1

VARIABLES
  data_arguments,  (* destino, arg1 of usrcmd.c; arg1 is start (all) or 0 *)
  flag,            (* flag_data_proccess: taskTerminal is at the send of  *)
                   (* a command; else it takes messages and characters    *)
  termq,           (* MGR_TERMINAL_QUEUE                                  *)
  inq,             (* MGR_INPUT_QUEUE: portReportConfig, portReportStatus *)
  logq,            (* MGR_DATALOG_QUEUE: readPage, writePage              *)
  sending,         (* the message each sender is at its send with         *)
  timerq,          (* commands for TIMER_REPORTS: start or stop           *)
  running,         (* TIMER_REPORTS is running                            *)
  next,            (* the static i of timerCB_Report                      *)
  daemon,          (* the input timerCB_Report is at its send for, or NONE*)
  modeMonitor      (* dataLog_Service is reading                          *)

\* History variables, for the properties only.
VARIABLES
  unseen,          (* senders whose newest text was not read by a print,  *)
                   (* and whose message for it was not lost at its send   *)
  asked,           (* the last arg1 a command gave for each process       *)
  lost             (* processes for which some command was lost           *)

shell == <<data_arguments, flag>>
timers == <<timerq, running, next, daemon>>
vars == <<shell, termq, inq, logq, sending, timers, modeMonitor, unseen, asked, lost>>

Init ==
  /\ data_arguments = [destino |-> CMD_TASK_N1, arg1 |-> FALSE]
  /\ flag = FALSE
  /\ termq = <<>> /\ inq = <<>> /\ logq = <<>> /\ timerq = <<>>
  /\ sending = [s \in Sender |-> <<>>]
  /\ running = FALSE /\ next = 0 /\ daemon = NONE
  /\ modeMonitor = FALSE
  /\ unseen = {} /\ lost = {}
  /\ asked = [p \in Process |-> FALSE]
-----------------------------------------------------------------------------
(* taskTerminal *)

\* xQueueReceive: a text is read from its buffer and printed, the rest is noted.
TakeMessage ==
  /\ ~flag /\ termq # <<>>
  /\ termq' = Tail(termq)
  /\ unseen' = IF Head(termq).text THEN unseen \ {Head(termq).from} ELSE unseen
  /\ UNCHANGED <<shell, inq, logq, sending, timers, modeMonitor, asked, lost>>

\* Fault: the command is taken for complete whatever its argument is.
StartUnchecked(p, all) ==
  /\ ~flag
  /\ data_arguments' = [destino |-> p, arg1 |-> all \/ data_arguments.arg1]
  /\ flag' = TRUE
  /\ asked' = [asked EXCEPT ![p] = @ \/ all]
  /\ UNCHANGED <<termq, inq, logq, sending, timers, modeMonitor, unseen, lost>>

\* cmd_readLogs and cmd_monInputs: destino changes before the argument "all" is
\* looked for.  ntshell_execute reads one character, so one loop of the task
\* runs one command at most and sends it before the next.
Start(p, all) ==
  /\ ~flag
  /\ data_arguments' = [destino |-> p, arg1 |-> all \/ data_arguments.arg1]
  /\ flag' = all
  /\ asked' = [asked EXCEPT ![p] = @ \/ all]
  /\ UNCHANGED <<termq, inq, logq, sending, timers, modeMonitor, unseen, lost>>

\* cmd_stopProcess: destino keeps its last value.
Stop ==
  /\ ~flag
  /\ data_arguments' = [data_arguments EXCEPT !.arg1 = FALSE]
  /\ flag' = TRUE
  /\ asked' = [asked EXCEPT ![data_arguments.destino] = FALSE]
  /\ UNCHANGED <<termq, inq, logq, sending, timers, modeMonitor, unseen, lost>>

Config == [id |-> "config", set |-> data_arguments.arg1]
Read   == [id |-> "read", set |-> data_arguments.arg1]

\* Fault: the timeouts are portMAX_DELAY.
TimedOutNever(q, length) == FALSE

\* The wait of a send or of a start ended: the queue stayed full.
TimedOut(q, length) == Len(q) >= length

\* The command goes to its process and usrcmd_setStatus forgets it ...
SendCommand ==
  /\ flag
  /\ \/ /\ data_arguments.destino = CMD_TASK_N1 /\ Len(logq) < LogQueue
        /\ logq' = Append(logq, Read)
        /\ UNCHANGED inq
     \/ /\ data_arguments.destino = CMD_TASK_N2 /\ Len(inq) < InputQueue
        /\ inq' = Append(inq, Config)
        /\ UNCHANGED logq
  /\ flag' = FALSE
  /\ UNCHANGED <<data_arguments, termq, sending, timers, modeMonitor, unseen,
                 asked, lost>>

\* ... or is lost after TIMEOUT_QUEUE_OUTPUT, and forgotten all the same.
SendCommandTimeout ==
  /\ flag
  /\ \/ data_arguments.destino = CMD_TASK_N1 /\ TimedOut(logq, LogQueue)
     \/ data_arguments.destino = CMD_TASK_N2 /\ TimedOut(inq, InputQueue)
  /\ lost' = lost \cup {data_arguments.destino}
  /\ flag' = FALSE
  /\ UNCHANGED <<data_arguments, termq, inq, logq, sending, timers, modeMonitor,
                 unseen, asked>>
-----------------------------------------------------------------------------
(* The senders of texts *)

\* Fault: the message is sent without the mode of a text.
WriteTextUnmarked(s) ==
  /\ sending' = [sending EXCEPT ![s] = <<[from |-> s, text |-> FALSE]>>]
  /\ unseen' = unseen \cup {s}

\* A new text in the static buffer of s, and s at its send.
WriteText(s) ==
  /\ sending' = [sending EXCEPT ![s] = <<Text(s)>>]
  /\ unseen' = unseen \cup {s}

\* Fault: the queue has no limit.
PutUnlimited(s) ==
  /\ sending[s] # <<>>
  /\ termq' = termq \o sending[s]
  /\ sending' = [sending EXCEPT ![s] = <<>>]
  /\ UNCHANGED <<shell, inq, logq, timers, modeMonitor, unseen, asked, lost>>

\* xQueueSend( MGR_TERMINAL_QUEUE ), with room ...
Put(s) ==
  /\ sending[s] # <<>> /\ Len(termq) < TerminalQueue
  /\ termq' = termq \o sending[s]
  /\ sending' = [sending EXCEPT ![s] = <<>>]
  /\ UNCHANGED <<shell, inq, logq, timers, modeMonitor, unseen, asked, lost>>

\* ... and when it ends after TIMEOUT_QUEUE_MSG_OUT.
PutTimeout(s) ==
  /\ sending[s] # <<>> /\ TimedOut(termq, TerminalQueue)
  /\ sending' = [sending EXCEPT ![s] = <<>>]
  /\ unseen' = IF Head(sending[s]).text THEN unseen \ {s} ELSE unseen
  /\ UNCHANGED <<shell, termq, inq, logq, timers, modeMonitor, asked, lost>>
-----------------------------------------------------------------------------
(* taskControlInputs *)

\* portReportStatus: sup_convertReg writes the text of one input.
ReportStatus ==
  /\ sending["input"] = <<>>
  /\ inq # <<>> /\ Head(inq).id = "status"
  /\ inq' = Tail(inq)
  /\ WriteText("input")
  /\ UNCHANGED <<shell, termq, logq, timers, modeMonitor, asked, lost>>

\* portReportConfig: start or stop the timer, then tell the terminal.  After a
\* start that fails the terminal is not told, after a stop that fails it is.
ReportConfig ==
  /\ sending["input"] = <<>>
  /\ inq # <<>> /\ Head(inq).id = "config"
  /\ inq' = Tail(inq)
  /\ LET on == Head(inq).set
         told == <<[from |-> "input", text |-> FALSE]>>
     IN \/ /\ Len(timerq) < TimerQueue
           /\ timerq' = Append(timerq, on)
           /\ sending' = [sending EXCEPT !["input"] = told]
           /\ UNCHANGED lost
        \/ /\ TimedOut(timerq, TimerQueue)
           /\ lost' = lost \cup {CMD_TASK_N2}
           /\ sending' = [sending EXCEPT !["input"] = IF on THEN <<>> ELSE told]
           /\ UNCHANGED timerq
  /\ UNCHANGED <<shell, termq, logq, running, next, daemon, modeMonitor, unseen, asked>>
-----------------------------------------------------------------------------
(* The timer daemon *)

\* A start or a stop reaches the timer.
TimerCommand ==
  /\ daemon = NONE /\ timerq # <<>>
  /\ running' = Head(timerq)
  /\ timerq' = Tail(timerq)
  /\ UNCHANGED <<shell, termq, inq, logq, sending, next, daemon, modeMonitor,
                 unseen, asked, lost>>

\* Fault: the index stays at the input that was reported.
ReportAgain ==
  /\ daemon = NONE /\ running
  /\ LET from == IF InputsTotal <= next THEN 0 ELSE next
         found == {i \in Enabled : i >= from}
     IN \/ \E i \in found : /\ \A j \in found : i <= j
                            /\ daemon' = i /\ next' = i
        \/ found = {} /\ daemon' = NONE /\ next' = InputsTotal
  /\ UNCHANGED <<shell, termq, inq, logq, sending, timerq, running, modeMonitor,
                 unseen, asked, lost>>

\* timerCB_Report up to its send: the next enabled input, from `next' on;
\* behind the last one a call that sends nothing.
Report ==
  /\ daemon = NONE /\ running
  /\ LET from == IF InputsTotal <= next THEN 0 ELSE next
         found == {i \in Enabled : i >= from}
     IN \/ \E i \in found : /\ \A j \in found : i <= j
                            /\ daemon' = i /\ next' = i + 1
        \/ found = {} /\ daemon' = NONE /\ next' = InputsTotal
  /\ UNCHANGED <<shell, termq, inq, logq, sending, timerq, running, modeMonitor,
                 unseen, asked, lost>>

\* ... its send, which may end after TIMEOUT_QUEUE_MSG_OUT.
ReportSend ==
  /\ daemon # NONE
  /\ \/ /\ Len(inq) < InputQueue
        /\ inq' = Append(inq, Status)
     \/ TimedOut(inq, InputQueue) /\ UNCHANGED inq
  /\ daemon' = NONE
  /\ UNCHANGED <<shell, termq, logq, sending, timerq, running, next, modeMonitor,
                 unseen, asked, lost>>
-----------------------------------------------------------------------------
(* dataLog_Service, as far as the terminal sees it, and the output task *)

\* Fault: a page that is written starts the reading.
ServiceTakeAny ==
  /\ sending["service"] = <<>> /\ logq # <<>>
  /\ logq' = Tail(logq)
  /\ modeMonitor' = Head(logq).set
  /\ UNCHANGED <<shell, termq, inq, sending, timers, unseen, asked, lost>>

\* readPage starts or stops the reading; writePage leaves it alone.
ServiceTake ==
  /\ sending["service"] = <<>> /\ logq # <<>>
  /\ logq' = Tail(logq)
  /\ modeMonitor' = IF Head(logq).id = "read" THEN Head(logq).set ELSE modeMonitor
  /\ UNCHANGED <<shell, termq, inq, sending, timers, unseen, asked, lost>>

\* The wait for a message ended: one record is printed, or skipped, or the
\* reading has come to its end (DataLog says which).
ServiceTimeout ==
  /\ sending["service"] = <<>> /\ logq = <<>> /\ modeMonitor
  /\ \/ WriteText("service") /\ UNCHANGED modeMonitor
     \/ modeMonitor' = FALSE /\ UNCHANGED <<sending, unseen>>
  /\ UNCHANGED <<shell, termq, inq, logq, timers, asked, lost>>

\* The input or the output task announces a full buffer (HistoryLog).
WritePage ==
  /\ Len(logq) < LogQueue
  /\ logq' = Append(logq, Write)
  /\ UNCHANGED <<shell, termq, inq, sending, timers, modeMonitor, unseen, asked, lost>>

\* taskControlOutputs has set an output (ControlLoop) and says so.
OutputText ==
  /\ "output" \in Sender /\ sending["output"] = <<>>
  /\ WriteText("output")
  /\ UNCHANGED <<shell, termq, inq, logq, timers, modeMonitor, asked, lost>>
-----------------------------------------------------------------------------
Command == Stop \/ \E p \in Process, all \in BOOLEAN : Start(p, all)

Next ==
  \/ Command
  \/ TakeMessage \/ SendCommand \/ SendCommandTimeout
  \/ \E s \in Sender : Put(s) \/ PutTimeout(s)
  \/ ReportStatus \/ ReportConfig
  \/ TimerCommand \/ Report \/ ReportSend
  \/ ServiceTake \/ ServiceTimeout \/ WritePage
  \/ OutputText

Spec == Init /\ [][Next]_vars

\* Each task runs on, since every wait ends.  The daemon handles the commands
\* that wait after every callback.
Fairness ==
  /\ WF_vars(TakeMessage) /\ WF_vars(SendCommand \/ SendCommandTimeout)
  /\ \A s \in Sender : WF_vars(Put(s) \/ PutTimeout(s))
  /\ WF_vars(ReportStatus \/ ReportConfig)
  /\ SF_vars(TimerCommand) /\ WF_vars(Report) /\ WF_vars(ReportSend)
  /\ WF_vars(ServiceTake)

FairSpec == Spec /\ Fairness
-----------------------------------------------------------------------------
(* Properties *)

\* Every queue keeps to its length and the index of the monitor to the table
\* (timerCB_Report, taskTerminal).
TypeOK ==
  /\ data_arguments \in [destino : Process, arg1 : BOOLEAN]
  /\ flag \in BOOLEAN /\ running \in BOOLEAN /\ modeMonitor \in BOOLEAN
  /\ termq \in Seq(Message) /\ Len(termq) <= TerminalQueue
  /\ inq \in Seq(InputRequest) /\ Len(inq) <= InputQueue
  /\ logq \in Seq(LogRequest) /\ Len(logq) <= LogQueue
  /\ timerq \in Seq(BOOLEAN) /\ Len(timerq) <= TimerQueue
  /\ sending \in [Sender -> Seq(Message)]
  /\ \A s \in Sender : Len(sending[s]) <= 1
  /\ next \in 0 .. InputsTotal /\ daemon \in Enabled \cup {NONE}
  /\ unseen \subseteq Sender
  /\ asked \in [Process -> BOOLEAN] /\ lost \subseteq Process

\* What process p will be when the commands on their way have arrived.
Pending(p, d) ==
  IF flag /\ data_arguments.destino = p THEN data_arguments.arg1 ELSE d
TimerSettled == IF timerq = <<>> THEN running ELSE timerq[Len(timerq)]
MonitorSettled == Pending(CMD_TASK_N2, LastFor("config", inq, TimerSettled))
ReadingSettled == Pending(CMD_TASK_N1, LastFor("read", logq, modeMonitor))

\* The monitor obeys the last command that was for it, through three queues,
\* unless one was lost on the way (usrcmd.c, terminalManager.c:155,
\* inputManager.c:878).
MonitorObeys == CMD_TASK_N2 \notin lost => (MonitorSettled <=> asked[CMD_TASK_N2])

\* A reading of the log goes on only if the last command for it was "hist all".
ReadingObeys ==
  CMD_TASK_N1 \notin lost /\ ~asked[CMD_TASK_N1] => ~ReadingSettled

\* The monitor and the reading are operated through channels of commands: from
\* the shell through MGR_INPUT_QUEUE and the queue of the timers to TIMER_REPORTS,
\* and from the shell through MGR_DATALOG_QUEUE to the log service, where a
\* reading also comes to its end.  Neither is started by anything else, overtaken,
\* or left running by a command that vanished and is not counted as lost.
Given(p) == IF flag /\ data_arguments.destino = p
            THEN <<data_arguments.arg1>> ELSE <<>>
MonitorChannel == INSTANCE CommandChannel WITH
  way <- timerq \o CommandsFor("config", inq) \o Given(CMD_TASK_N2),
  on <- running, lost <- CMD_TASK_N2 \in lost, SingleShot <- FALSE
ReadingChannel == INSTANCE CommandChannel WITH
  way <- CommandsFor("read", logq) \o Given(CMD_TASK_N1),
  on <- modeMonitor, lost <- CMD_TASK_N1 \in lost, SingleShot <- TRUE
ProcessesOperated == MonitorChannel!Spec /\ ReadingChannel!Spec

\* The newest text of a buffer is still to be printed by a message on its way,
\* unless that message was lost: messages that share a buffer never hide it.
NewestShown ==
  \A s \in unseen :
    \/ sending[s] = <<Text(s)>>
    \/ \E k \in 1 .. Len(termq) : termq[k] = Text(s)

\* A process whose last command was to stop does stop, although terminal, input
\* task, daemon and service send to each other through full queues.
Active(p) == IF p = CMD_TASK_N1 THEN modeMonitor ELSE running
StopTakesEffect ==
  \A p \in Process :
    <>[](~asked[p] /\ p \notin lost) => <>[]~Active(p)

\* A monitor that is left on comes to every enabled input again and again
\* (timerCB_Report).
MonitorVisitsAll ==
  <>[]running => \A i \in Enabled : []<>(daemon = i)

\* What usrcmd.c:85 says of stop: it ends any process that blocks the
\* terminal.  The last command was a stop and has arrived.
StopStops ==
  /\ ~data_arguments.arg1 /\ ~flag
  /\ inq = <<>> /\ logq = <<>> /\ timerq = <<>> /\ lost = {}
  => \A p \in Process : ~Active(p)
=============================================================================
