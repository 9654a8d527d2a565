---------------------------- MODULE ControlLoop ----------------------------
(***************************************************************************)
(* The control loop: taskControlInputs (priority 2) runs a pass over the   *)
(* table of inputs after every message, the FreeRTOS timer daemon          *)
(* (priority 1) runs timerCB_Proccess when the timer of an input expires,  *)
(* and taskControlOutputs (priority 2) sets the outputs.  They share the   *)
(* table (the daemon writes the status of an alarm into it), the output    *)
(* queue and the command queue of the daemon.                              *)
(*                                                                         *)
(* A send to a full queue waits and, after its timeout, loses the message: *)
(* no caller looks at the result.  `lost' remembers which.                 *)
(*                                                                         *)
(* The output task may be blocked anywhere (its delay, the log queue, the  *)
(* terminal queue), so it never keeps the daemon from running; the input   *)
(* task does, except while it waits (InputBlocked).                        *)
(***************************************************************************)
EXTENDS InputProcess, LastCommand

CONSTANTS
  Configurations,(* sets of inputs: those that are not left disabled      *)
  Temperatures,  (* what the thermocouple may read, in Celsius            *)
  OutputQueue,   (* MGR_OUTPUT_QUEUE_LENGT, 10 in the code                *)
  TimerQueue     (* configTIMER_QUEUE_LENGTH, 8 in the code               *)

ASSUME ControlLoopAssumption ==
  /\ Configurations \subseteq SUBSET Input /\ Configurations # {}
  /\ Temperatures \subseteq Int
  /\ OutputQueue \in Nat \ {0}
  /\ TimerQueue \in Nat \ {0}

-----------------------------------------------------------------------------
(* The pins of the outputs *)

\* perif_t, as far as it is used here.
LED_R == 0    LED_G == 1    LED_1 == 3     LED_2 == 4    LED_3 == 5
LCD_EN == 19  LCD_RS == 20  LCD_2 == 22    LCD_3 == 23   LCD_4 == 24
SPI_MOSI == 27
Pin == {LED_R, LED_G, LED_1, LED_2, LED_3, LCD_EN, LCD_RS, LCD_2, LCD_3, LCD_4,
        SPI_MOSI}

\* The table of outputs, whose order is not that of externId_t at the end.
stateOutputs ==
  <<[name |-> RELAY_VALVE,   id_gpio |-> SPI_MOSI],
    [name |-> RELAY_HEATER,  id_gpio |-> LCD_RS],
    [name |-> ALARM_TEMPER,  id_gpio |-> LCD_4],
    [name |-> ALARM_LEVEL,   id_gpio |-> LCD_3],
    [name |-> ALARM_CONDUCT, id_gpio |-> LCD_EN],
    [name |-> ALARM_INTERRUPT, id_gpio |-> LED_2],
    [name |-> ALARM_TIME,    id_gpio |-> LED_1],
    [name |-> SIGNAL_START,  id_gpio |-> LED_G],
    [name |-> SIGNAL_STOP,   id_gpio |-> LED_R],
    [name |-> SIGNAL_COMPLETE, id_gpio |-> LED_3],
    [name |-> SIGNAL_MODE,   id_gpio |-> LCD_2]>>
OUTPUT_GET_INDEX(o) == o - RELAY_VALVE + 1

\* updateDigOutput: the pin a command for o drives.  Where the table holds
\* another name it takes name and gpio of the message, and no sender sets the
\* gpio of a message: it is 0, LED_R, then and in every later command.
GpioOf(o) == LET entry == stateOutputs[OUTPUT_GET_INDEX(o)]
             IN IF entry.name = o THEN entry.id_gpio ELSE LED_R

\* Fault: setting one LED clears all of them.
SetLevelAlone(p, v, level) ==
  [q \in Pin |-> IF q = p THEN v
                 ELSE level[q] /\ ~({p, q} \subseteq LED_R .. LED_3)]

\* ciaaGPIO_SetLevel: setting one colour of the RGB LED clears red and green.
SetLevel(p, v, level) ==
  [q \in Pin |-> IF q = p THEN v
                 ELSE level[q] /\ ~({p, q} \subseteq {LED_R, LED_G})]
-----------------------------------------------------------------------------
VARIABLES
  present,  (* the configuration                                          *)
  row,      (* stateInputs and actionsInputs                              *)
  at,       (* the input the pass is at; EXT_INPUTS_TOTAL between passes  *)
  todo,     (* commands the pass has still to send for that input         *)
  outq,     (* MGR_OUTPUT_QUEUE                                           *)
  hand,     (* the command taskControlOutputs has put in its table and    *)
            (* not yet on its pin, as a queue                             *)
  outvalue, (* stateOutputs[.].value: the value each output was given     *)
  pin,      (* the level of each pin                                      *)
  timerq,   (* the command queue of the timer daemon                      *)
  running,  (* the inputs whose timer is running                          *)
  daemon,   (* the input whose callback is at its send, or NONE           *)
  lost      (* outputs and timers for which some command was lost         *)

input == <<at, todo>>
output == <<hand, outvalue, pin>>
timers == <<timerq, running, daemon>>
vars == <<present, row, input, outq, output, timers, lost>>

Between == EXT_INPUTS_TOTAL

Init ==
  /\ present \in Configurations
  /\ row = [i \in Input |->
              [FirstEntry(i) EXCEPT !.enable = @ /\ i \in present]]
  /\ at = Between
  /\ todo = <<>> /\ outq = <<>> /\ hand = <<>> /\ timerq = <<>>
  /\ outvalue = [o \in Output |-> FALSE]
  /\ pin = [p \in Pin |-> FALSE]
  /\ running = {}
  /\ daemon = NONE
  /\ lost = {}
-----------------------------------------------------------------------------
(* taskControlInputs *)

\* Fault: an input that is done is not left.
NextRowAgain(i, r) ==
  LET later == {k \in Input : k >= i /\ r[k].enable}
  IN IF later = {} THEN Between ELSE CHOOSE k \in later : \A m \in later : k <= m

\* The next input a pass over table r stops at, after input i.
NextRow(i, r) ==
  LET later == {k \in Input : k > i /\ r[k].enable}
  IN IF later = {} THEN Between ELSE CHOOSE k \in later : \A m \in later : k <= m

\* Start a pass over table r.
Pass(r) ==
  /\ row' = r
  /\ at' = NextRow(-1, r)
  /\ UNCHANGED <<present, todo, outq, output, timers, lost>>

\* xQueueReceive times out, or brings a message that is not an input.
ReceiveOther ==
  /\ at = Between
  /\ Pass(row)

\* portInputAnalog.  Of the other channels the thermistor has no action and
\* the ammeter is summed (Sums); no channel reads the conductimeter.
ReceiveAnalog(t) ==
  /\ at = Between
  /\ row[TERMOCUPLE].enable
  /\ Pass([row EXCEPT ![TERMOCUPLE].value = t])

\* portInputDigital and portInputTecl: sup_updateDInput.
ReceiveDigital(i, level) ==
  /\ at = Between
  /\ row[i].enable
  /\ Pass([row EXCEPT ![i].status = level, ![i].value = level])

\* Entry `at' of table r becomes f; what must be sent for it is left to do.
Control(r, f) ==
  LET s == Commands(at, r[at], f)
      table == [r EXCEPT ![at] = f]
  IN /\ row' = table
     /\ todo' = s
     /\ at' = IF s = <<>> THEN NextRow(at, table) ELSE at
     /\ UNCHANGED <<present, outq, output, timers, lost>>

\* sup_integerCompare: the sum of any number of readings while the object is
\* in place (LOW), which every pass adds to, and zero otherwise.
Sums == IF row[SL_OBJECT_DETECT].status = GPIO_LOW_LEVEL
        THEN {0, smt_max(AMPERIMETER)} ELSE {0}

\* sup_statusProccess: the value the detector is taken to have.
Detected == IF /\ row[SW_START_STOP].status = GPIO_HIGH_LEVEL
               /\ row[SL_OBJECT_DETECT].value = GPIO_LOW_LEVEL
            THEN GPIO_LOW_LEVEL ELSE GPIO_HIGH_LEVEL

\* sup_changeMode: which of the two meters is in use.
ModeChanged ==
  LET high == row[SL_MODE_FUNCTION].value = GPIO_HIGH_LEVEL
  IN [row EXCEPT ![AMPERIMETER].enable = ~high /\ AMPERIMETER \in present,
                 ![CONDUCTIMETER].enable = high /\ CONDUCTIMETER \in present]

\* taskControl_Actions, for one input.
ControlStep ==
  /\ todo = <<>>
  /\ \/ at = TERMOCUPLE /\ Control(row, control_Termocuple(row[at]))
     \/ at = THERMISTOR /\ Control(row, row[at])
     \/ /\ at = AMPERIMETER
        /\ \E v \in Sums :
             Control(row, control_Limit(at, [row[at] EXCEPT !.value = v]))
     \/ at = CONDUCTIMETER /\ Control(row, control_Conductimeter(row[at]))
     \/ at = WATER_LEVEL /\ Control(row, control_Limit(at, row[at]))
     \/ at = SW_START_STOP /\ Control(row, control_ProcessTimer(row[at]))
     \/ /\ at = SL_OBJECT_DETECT
        /\ Control(row, control_ObjectDetect([row[at] EXCEPT !.value = Detected]))
     \/ /\ at = SL_MODE_FUNCTION
        /\ Control(ModeChanged, control_ModeFunction(row[at]))

ToOutput == todo # <<>> /\ Head(todo).id \in Output
ToTimer  == todo # <<>> /\ Head(todo).id \in Input

\* Fault: only the first command of an input is sent.
SentFirst == todo' = <<>> /\ at' = NextRow(at, row)

Sent == /\ todo' = Tail(todo)
        /\ at' = IF Tail(todo) = <<>> THEN NextRow(at, row) ELSE at

\* Fault: the queue of the daemon has no limit.
SendTimerUnlimited ==
  /\ ToTimer
  /\ timerq' = Append(timerq, Head(todo))
  /\ Sent
  /\ UNCHANGED <<present, row, outq, output, running, daemon, lost>>

\* xQueueSend, xTimerStart and xTimerStop.
SendOutput ==
  /\ ToOutput /\ Len(outq) < OutputQueue
  /\ outq' = Append(outq, Head(todo))
  /\ Sent
  /\ UNCHANGED <<present, row, output, timers, lost>>

SendTimer ==
  /\ ToTimer /\ Len(timerq) < TimerQueue
  /\ timerq' = Append(timerq, Head(todo))
  /\ Sent
  /\ UNCHANGED <<present, row, outq, output, running, daemon, lost>>

\* Fault: a send to the output queue waits for ever (portMAX_DELAY).
SendTimeoutNever ==
  /\ ToTimer /\ Len(timerq) >= TimerQueue
  /\ lost' = lost \cup {Head(todo).id}
  /\ Sent
  /\ UNCHANGED <<present, row, outq, output, timers>>

\* The wait for room ended without it.
SendTimeout ==
  /\ \/ ToOutput /\ Len(outq) >= OutputQueue
     \/ ToTimer /\ Len(timerq) >= TimerQueue
  /\ lost' = lost \cup {Head(todo).id}
  /\ Sent
  /\ UNCHANGED <<present, row, outq, output, timers>>

\* Fault: the timer daemon has the priority of the input task.
InputBlockedOrNot == TRUE

InputBlocked ==
  \/ at = Between
  \/ ToOutput /\ Len(outq) >= OutputQueue
  \/ ToTimer /\ Len(timerq) >= TimerQueue
-----------------------------------------------------------------------------
(* The timer daemon, which runs only while the input task is blocked *)

\* A start or stop command reaches its timer.
TimerCommand ==
  /\ InputBlocked
  /\ daemon = NONE
  /\ timerq # <<>>
  /\ running' = IF Head(timerq).set THEN running \cup {Head(timerq).id}
                ELSE running \ {Head(timerq).id}
  /\ timerq' = Tail(timerq)
  /\ UNCHANGED <<present, row, input, outq, output, daemon, lost>>

\* timerCB_Proccess up to its send: the alarm counts as raised.
Expire(i) ==
  /\ InputBlocked
  /\ daemon = NONE
  /\ i \in running
  /\ running' = running \ {i}
  /\ row' = [row EXCEPT ![i].alarm = TRUE]
  /\ daemon' = i
  /\ UNCHANGED <<present, input, outq, output, timerq, lost>>

\* ... its send, and its send when the output queue stayed full.
Raise ==
  /\ InputBlocked
  /\ daemon # NONE
  /\ Len(outq) < OutputQueue
  /\ outq' = Append(outq, [id |-> Alarm(daemon), set |-> TRUE])
  /\ daemon' = NONE
  /\ UNCHANGED <<present, row, input, output, timerq, running, lost>>

RaiseTimeout ==
  /\ InputBlocked
  /\ daemon # NONE
  /\ Len(outq) >= OutputQueue
  /\ lost' = lost \cup {Alarm(daemon)}
  /\ daemon' = NONE
  /\ UNCHANGED <<present, row, input, outq, output, timerq, running>>
-----------------------------------------------------------------------------
(* taskControlOutputs *)

\* Fault: the index of an output in its table is one too small.
OutputTakeBeside ==
  /\ hand = <<>> /\ outq # <<>>
  /\ hand' = <<Head(outq)>>
  /\ outq' = Tail(outq)
  /\ outvalue' = [outvalue EXCEPT ![Head(outq).id - 1] = Head(outq).set]
  /\ UNCHANGED <<present, row, input, pin, timers, lost>>

\* xQueueReceive and updateDigOutput: the table, which no other task reads.
OutputTake ==
  /\ hand = <<>> /\ outq # <<>>
  /\ hand' = <<Head(outq)>>
  /\ outq' = Tail(outq)
  /\ outvalue' = [outvalue EXCEPT ![Head(outq).id] = Head(outq).set]
  /\ UNCHANGED <<present, row, input, pin, timers, lost>>

\* ciaaGPIO_SetLevel, once the register is in its buffer (a mutex) and a full
\* buffer in the log queue (a send that waits).
OutputSet ==
  /\ hand # <<>>
  /\ pin' = SetLevel(GpioOf(Head(hand).id), Head(hand).set, pin)
  /\ hand' = <<>>
  /\ UNCHANGED <<present, row, input, outq, outvalue, timers, lost>>
-----------------------------------------------------------------------------
Receive ==
  \/ ReceiveOther
  \/ \E t \in Temperatures : ReceiveAnalog(t)
  \/ \E i \in Digital, level \in {GPIO_LOW_LEVEL, GPIO_HIGH_LEVEL} :
       ReceiveDigital(i, level)

InputStep == ControlStep \/ SendOutput \/ SendTimer \/ SendTimeout

Next ==
  \/ Receive
  \/ InputStep
  \/ TimerCommand
  \/ \E i \in Timed : Expire(i)
  \/ Raise
  \/ RaiseTimeout
  \/ OutputTake
  \/ OutputSet

Spec == Init /\ [][Next]_vars

\* The input task keeps running: its waits end by their timeout.  The daemon runs
\* while the input task waits, which it does for 50 ticks in every pass.  Only an
\* input some configuration enables ever has its timer started.  Nothing is
\* assumed of the output task.
Fairness ==
  /\ WF_vars(Receive) /\ WF_vars(InputStep)
  /\ SF_vars(TimerCommand) /\ SF_vars(Raise \/ RaiseTimeout)
  /\ \A i \in Timed \cap UNION Configurations : SF_vars(Expire(i))

FairSpec == Spec /\ Fairness

\* The output task keeps running too.
OutputRuns == WF_vars(OutputTake) /\ WF_vars(OutputSet)
-----------------------------------------------------------------------------
(* Properties *)

\* No queue outgrows its length, the output task holds one command at most, and
\* the pass sends only for an input of the table (taskControlInputs).
TypeOK ==
  /\ present \in Configurations
  /\ row \in [Input -> Entry]
  /\ at \in Input \cup {Between}
  /\ todo \in Seq(Command) /\ (todo # <<>> => at \in Input)
  /\ outq \in Seq(OutputCommand) /\ Len(outq) <= OutputQueue
  /\ hand \in Seq(OutputCommand) /\ Len(hand) <= 1
  /\ outvalue \in [Output -> BOOLEAN] /\ pin \in [Pin -> BOOLEAN]
  /\ timerq \in Seq(TimerMessage) /\ Len(timerq) <= TimerQueue
  /\ running \subseteq Timed
  /\ daemon \in Timed \cup {NONE}
  /\ lost \subseteq Timed \cup Output

\* What output o, and the timer of input i, will be once every command on its
\* way has arrived.
Settled(o) == LastFor(o, outq \o todo, outvalue[o])
TimerSettled(i) == LastFor(i, timerq \o todo, i \in running)

\* An output follows the status the pass keeps for it, through the queue, as long
\* as no command for it is lost.  RELAY_VALVE has two owners, of which only the
\* level ever gives a command: switching the conductimeter on and off in the
\* middle of it changes nothing (taskControl_Actions, sup_changeMode).
OutputFollowsStatus ==
  \A o \in Output \ lost :
    LET owners == {i \in present : Out(i) = o}
    IN owners # {} => (Settled(o) <=> \E i \in owners : row[i].output)

\* The table holds the command for o, its pin not yet.
Underway(o) == hand # <<>> /\ Head(hand).id = o

\* The relays, the alarms and the mode have a pin of their own, and except while
\* a command for it is underway it shows the value the table of outputs gives it,
\* although the LEDs among them are set by the function that clears the RGB LED
\* (ciaaGPIO_SetLevel).  The two colours exclude each other: green is lit only for
\* a started process, red only for one that was stopped or is complete, which
\* share it; at most the command underway can make that untrue.
PinsShowOutputs ==
  /\ \A o \in Output \ {SIGNAL_START, SIGNAL_STOP, SIGNAL_COMPLETE} :
       pin[GpioOf(o)] = outvalue[o] \/ Underway(o)
  /\ ~(pin[LED_R] /\ pin[LED_G])
  /\ pin[LED_G] => outvalue[SIGNAL_START] \/ Underway(SIGNAL_START)
  /\ pin[LED_R] => \E o \in {SIGNAL_STOP, SIGNAL_COMPLETE} :
                     outvalue[o] \/ Underway(o)

\* An alarm raised in the table is on, or will be: the reset a pass sends can
\* never overtake the set of a later callback, because the pass has the higher
\* priority (taskControl_Actions, timerCB_Proccess).
RaisedAlarmShows ==
  \A i \in Timed :
    row[i].alarm /\ daemon # i /\ Alarm(i) \notin lost => Settled(Alarm(i))

\* A timer the table takes for stopped is stopped once its commands arrive:
\* no alarm is pending for an input that is back to normal.
NoStrayTimer ==
  \A i \in Timed : ~row[i].timer /\ i \notin lost => ~TimerSettled(i)

\* Each output and each timer is operated through a channel of commands: the
\* pass and the daemon, which send from two priorities, put the commands for an
\* output in one order, in which the output task obeys them; those for a timer
\* reach the daemon in the order of the passes.
OutputChannel(o) == INSTANCE CommandChannel WITH
  way <- CommandsFor(o, outq \o todo), on <- outvalue[o],
  lost <- o \in lost, SingleShot <- FALSE
TimerChannel(i) == INSTANCE CommandChannel WITH
  way <- CommandsFor(i, timerq \o todo), on <- i \in running,
  lost <- i \in lost, SingleShot <- TRUE
OutputsOperated ==
  /\ \A o \in Output : OutputChannel(o)!Init
  /\ [][\A o \in Output : [OutputChannel(o)!Next]_(OutputChannel(o)!vars)
        ]_<<todo, outq, outvalue, lost>>
TimersOperated ==
  /\ \A i \in Timed : TimerChannel(i)!Init
  /\ [][\A i \in Timed : [TimerChannel(i)!Next]_(TimerChannel(i)!vars)
        ]_<<todo, timerq, running, lost>>

\* What is left of a pass: for each input a step that decides and at most three
\* that send.
PassLeft == IF at = Between THEN 0
            ELSE 5 * (Between - at) + IF todo = <<>> THEN 4 ELSE Len(todo)

\* Every step of the input task in a pass brings its end nearer, and no step of
\* the daemon or the output task puts it off: the pass takes no input twice,
\* although its own functions enable and disable inputs and the daemon writes
\* into the table meanwhile (taskControl_Actions, sup_changeMode).
PassAdvances ==
  [][IF InputStep THEN PassLeft' < PassLeft
     ELSE at # Between => PassLeft' = PassLeft]_vars

\* A pass ends, whatever queue is full and even if the output task stops emptying
\* its own: the input task and the daemon, each with a queue the other empties,
\* never wait for each other for ever (the timeouts of taskControl_Actions).
PassEnds == []<>(at = Between)

\* A temperature out of its band for ever is reported: when the output task runs
\* and no command about it is lost, the pin of ALARM_TEMPER is high for ever after
\* some time, and that of the heater is high when it is too cold and off when it
\* is too hot (control_Termocuple).
Cold == INP_INF_COTA(TERMOCUPLE, row[TERMOCUPLE])
Hot  == INP_SUP_COTA(TERMOCUPLE, row[TERMOCUPLE])
Intact == lost \cap {TERMOCUPLE, RELAY_HEATER, ALARM_TEMPER} = {}
TemperatureReported ==
  OutputRuns =>
    /\ <>[](Cold /\ Intact) => <>[](pin[LCD_4] /\ pin[LCD_RS])
    /\ <>[](Hot /\ Intact)  => <>[](pin[LCD_4] /\ ~pin[LCD_RS])

\* What inputManager.c:911 says of the pass: it decides what the outputs, the
\* ALARMS and the timers must do.  So an alarm that the pass takes for reset is
\* off once nothing is on its way.
ResetAlarmIsOff ==
  \A i \in Timed :
    ~row[i].alarm /\ daemon = NONE /\ Alarm(i) \notin lost => ~Settled(Alarm(i))
=============================================================================
