# Firm_Analogic_Sense in TLA+

A verification project for the firmware `projects/consola_analog_input`
(LPC4337, FreeRTOS): it reads analog and digital inputs, switches outputs and
alarms after them, keeps a log of what happened in the internal EEPROM, and
serves a shell on a UART. Paths below are under `src/`; `IM`, `IP`, `OM`, `FM`
are `inputManager.c`, `inputProccess.c`, `outputManager.c`, `filesManager.c` of
`modules/support/taskServices/src`, and `BF` is
`modules/support/memDrive/src/binaryFiles.c`.

## 1. Inventory

| Part | State | Operations | Talks to |
|---|---|---|---|
| Input task (`IM` `taskControlInputs`, priority 2) | `stateInputs`/`actionsInputs`: enable, level, last value, status of alarm, output and timer of each input; `regToLog`/`dataToLog` | receive a message or time out, then **always** a pass over the table (`taskControl_Actions`) | output queue, timer commands, log queue (address of its buffer), terminal queue |
| Control functions (`IP`) | none of their own | one per input: entry before → entry after | input task |
| Timer callbacks (daemon, priority 1) | `timerCB_Proccess` writes the status of an alarm in the table; debounce counters | expire, report, debounce | table of inputs (no lock), input and output queues |
| Output task (`OM`, priority 2) | `stateOutputs`, its own register buffer | one command at a time: table, register, pin, message | log queue, terminal queue |
| Log service (`FM`, priority 1) | `modeMonitor`, `idReg`, `numberReg` | store a page, start/stop a reading, print one record per timeout | log (`BF`), terminal queue |
| Log (`BF` over `api_EEPROM.c`) | `regEeprom` in RAM; pages, times and header in EEPROM | `dataLog_Init`, `_Page_Store`, `_Page_Load` | EEPROM, inside a critical section |
| Terminal task and shell (`terminalManager.c`, `usrcmd.c`, priority 1) | line being typed, `data_arguments`, `flag_data_proccess` | take a message and print it, run a command and send it | log queue, input queue |
| Debounce (`ciaaTEC.c`, callbacks in `IM`) | the last four samples of each pin | 500 ms / 400 ms timers | input queue |
| Analog acquisition (`ciaaAIN.c`, `api_ADC.c`) | last values, ranges, report state | `ciaaAIN_Update` each second | input task |
| Temperature tables (`temperaturaMath.c`) | two constant tables | voltage to temperature and back | analog acquisition |
| UART (`api_UART.c`) | rings of the chip library | put, get | terminal |
| RTC, GPIO, I2C, LED, start-up, newlib stubs | registers | — | — |

What is hard here: two tasks of equal priority, a timer daemon of lower
priority that writes the input task's table without a lock, queues that fill
up with callers that ignore the result, messages that carry the address of a
buffer still in use, and a log written in five separate EEPROM programs that
power can interrupt. The file `PROJECT.json` lists each hazard at its line.

What makes each part correct: *log* – no report but the oldest is lost,
records are readable in order, the header is good for recovery; *control
loop* – outputs and timers follow the table through the queues, a raised alarm
shows, no task waits for ever; *history* – a page holds the registers it was
announced with, every full buffer is announced; *terminal* – a stopped process
stops, the newest text of a buffer is printed, no circle of waits is for ever;
*debounce* – one report for each stable change, one toggle for each press;
*thermocouple* – a temperature right to the degree or none.

## 2. Modules

| Module | Models |
|---|---|
| `DataLog` | the log and its service task, with power losses |
| `ReportLog` | abstract: the sequence of the newest reports; `DataLog` implements it |
| `DataLogProofs` | theorems about `DataLog` |
| `InputProcess` | the table of inputs and the seven control functions, as operators |
| `ControlLoop` | input task, timer daemon, output task and pins around that table |
| `ControlLoopProofs` | theorems about `ControlLoop` |
| `LastCommand` | what the commands for something, and the last of them, are in a queue |
| `CommandChannel` | abstract: commands for one thing come late, in order or not at all; `ControlLoop` implements it for each output and each timer, `Terminal` for the monitor and the reading |
| `LastCommandProofs` | lemmas about it, for any set of commands |
| `HistoryLog` | the two register buffers and the log queue |
| `HistoryLogProofs` | theorems about `HistoryLog` |
| `Terminal` | terminal task and shell, monitor and reading, texts in static buffers |
| `TerminalProofs` | theorems about `Terminal` |
| `Debounce` | from the pins of switches and key to their status in the table |
| `DebounceProofs` | theorems about `Debounce` |
| `Thermocouple` | from a count of the converter to a temperature, with the search in the table |
| `ThermocoupleProofs` | theorems about `Thermocouple` |
| `Times` | the seconds of a register, with three theorems; no run uses it |
| `MC*` | values for the constants, one `.cfg` per run |

### DataLog

An address is replaced by the index of the page or time slot it stands for;
`EEPROM_ADD_TIME_MAX` equals the address of page 0, so slot `TimeSlots` is the
first word of page 0: a time stored there (`head`) damages the report of that page,
`page[0]`. A report is its number. `dataLog_Page_Store` is
cut into the steps `StorePage`, `StoreTime`, three `StoreWord`s and
`UpdateStatus`; it runs inside `taskENTER_CRITICAL`, so nothing but a
`PowerLoss` comes between them. `EEPROM_writeWord` erases and programs a whole page of the
EEPROM as `EEPROM_writePage` does, so a power loss during a time or a word of the header
may tear a page of times (`SlotsPerPage`), page 0 or the header (`Torn`).

`Boot`: `dataLog_Status_Load` reads the header over its own parameter
(`BF:126`), so what is tested afterwards is what the stack held, and the test
(`REG_CHECK_ADD`) has the range of the time area (`BF:13-14` are exchanged).
`StackFill` is that stack content: FreeRTOS fills a new stack with `0xA5`
bytes, 42405 as an address, outside the range; both failures lead to a fresh
log. Overwriting the stack may do worse than that on some builds; the model
takes the build where the words overwritten are not otherwise used.

`TypeOK` says that no store is ever refused by the EEPROM driver. It does not say that a
time is in its area: from the store after the last slot on it is not
(`TimesInTimeArea`), and `RecentReportsKept`, `ShownInOrder` and `OnlyOldestReplaced`
except page 0 from there on (`Overwritten`). After a power loss the log begins empty, so
what the loss has left is spoken of only until then.

### InputProcess and ControlLoop

The control functions set an `action` flag exactly where they change the
status beside it, and clear all flags first, so a pass is "new entry; send the
differences". `ControlStep` applies the function of the next enabled input and
`SendOutput`, `SendTimer`, `SendTimeout` send its commands one at a time: each
send is a point where the task may wait.

The daemon has priority 1 and the input task 2, so a daemon step needs
`InputBlocked`: the input task between passes, or waiting at a full queue. The
output task has the same priority but may itself be blocked at any place (its
delay, the log queue, the terminal queue), so it never keeps the daemon away.
`Expire` and `Raise` are the two halves of `timerCB_Proccess`, cut at its send.
`OutputTake` is the receipt of a command with `updateDigOutput`, which puts it in the
table; `OutputSet` is `ciaaGPIO_SetLevel`, which puts it on the pin. Between them lie the
mutex of the register buffer and a send to the log queue that may wait: the command is
in `hand`, and any step of the other tasks may come.

Abstractions: the sum of `sup_integerCompare` is any number of readings, i.e.
below or at the limit (it doubles at every pass that brings no reading, and the
overflow this ends in is a value below the limit); `lost` is a history variable, the
outputs and timers for which some send timed out. The flags of an analog reading
are left out: no control function reads them. The message that reports an analog value sets only the
thermocouple: the thermistor has no action and no channel reads the
conductimeter. The monitor and configuration messages change no part of this
state: they are `ReceiveOther`, which like every message is followed by a pass.

`stateOutputs` is the table of outputs and `GpioOf` the pin a command drives: two
entries at its end are not where `externId_t` puts them, so `updateDigOutput` binds
each of them, at its first command, to the gpio of the message, which no sender sets
(it is 0, `LED_R`). `outvalue` is the value the table keeps and `pin` the
level of the pin; `SetLevel` is `ciaaGPIO_SetLevel`, which clears the RGB LED.

### HistoryLog

A register is its number. `Register` is the code that `IM` and `OM` both have;
`NextId`/`BuffFull` are its wrap and `RET_VAL_BUFF_FULL`. An announcement
carries an address, so `WriteRegister` copies what the buffer holds *when the
service gets to it*. Filling and copying hold `MGR_INPUT_MUTEX`, which nobody
holds while waiting (and the service with interrupts off), so its 10-tick
timeout does not strike and each is one step. Analog messages register two or
three channels: the mode input disables one.

### Terminal

`Start` and `Stop` are the commands: a `mon` or `hist` without "all" still changes
`destino`, a stop keeps it. `ntshell_execute` reads one character in each turn of the
task, so a command is sent before the next one can be typed. `SendCommand` and
`SendCommandTimeout` are its send to the log service or the input task,
`ReportConfig` the start or stop of the report timer with the message that tells the
terminal, `Report`/`ReportSend` the two halves of `timerCB_Report`. Texts are not
modelled, but who may have overwritten one is: `unseen` holds the senders whose
newest text no print has read. `MP_BLOCK` and `MP_RELEASE` set a variable nobody
reads. What `DataLog` and `ControlLoop` decide – when a reading is over, when an
output is set – is left open here. `lost` and `asked` are history variables.

`MonitorChannel` and `ReadingChannel` map this state to `CommandChannel`: the way of a command for
the monitor is `timerq`, then the queue of the input task, then `data_arguments` while
`flag` is set; what it operates is the report timer. `ControlLoop` has one such mapping for each output
(the way is `outq`, `todo`, the thing operated is `outvalue`) and for each timer
(`timerq`, `todo`; `running`, a single shot). The abstract module knows no queues, no
priorities and no shell: a command may be given, obeyed or lost, and then `lost` says so.

### Debounce

A pin has any level at any sample. `Reported` and `Pressed` are the tests of
`ciaaGPIO_DebounStatus` and `ciaaTEC_DebounStatus` on the last four samples;
`InpDebounce` samples one switch of the table at a time, because the callback may
wait at a send between two of them, and `KeysDebounce` samples the key and asks for the
complement of its status *as the table has it then*. The two callbacks run in one task,
so they do not interleave. `held`, `bounced`, `presses`, `hurried` and
`lost` are history variables and name the exceptions: a bounce at a sample, a
press seen before the one before it was read, a message lost.

### Thermocouple

`Convert` is `convVoltTermocuple` and `tcuplaKVoltToTemp` up to the search, `EnterRow`,
`TryColumn` and `LeaveRow` are the turns of the two loops of `busquedaBinariaK`.
Voltages are integers in units of 1/1024 microvolt, of which an entry of the table and a
count of the converter (5000/1024 microvolts) are both multiples; the code's floats
differ from that by less than tells two entries apart. `actualTemp` passes
through a `uint16_t` (`ciaaAIN.c:192`), so one degree below zero is 65535, out of the
table, and every reading is refused; for the same reason the negative table is never
searched. A row's first column is accepted only if the row is the last one left
(`temperaturaMath.c:361`): which voltages between two rows are refused depends on the
way the search has come. At 25 degrees that is 44 of the 879 counts in range, and a
refused reading leaves the temperature shown before.

### Times

`sup_calculateTime` and `calculateDiffTime` are the same function of four bytes.

## 3. Runs

| Run | Bounds | Shows |
|---|---|---|
| `MCDataLog` | 3 pages, 5 slots, 2 of them on a page of the EEPROM, 13 reports, 1 reading; fairness | all safety of the log, past the end of the time area (report 6), past four laps (12) and with power lost at every step; that the log implements `ReportLog` until the time area is used up, with the ring wrapped before that; that a reading ends |
| `MCControlLoop` | thermocouple at 50, 51, 100 (both limits and between); output queue of 1, timer queue of 2; fairness | the whole chain input → timer → alarm → output → pin; outputs and timers are operated through their channels; every step of a pass brings its end nearer, and passes end even if the output task stops; a bad temperature is reported |
| `MCControlLoopSeveral` | level and start, or thermistor, both meters, object and mode, or the two owners of the valve with the mode; queues of 1 | inputs with alarm, output and timer each and constantly full queues; inputs switched on and off in the middle of it; the valve follows the level although its other owner comes and goes; the pins, except for the command underway, with the RGB LED shared |
| `MCHistoryLog` | buffers of 4, queue of 2, 13 registers | three fills per producer and more announcements than the queue holds; two announcements of one buffer that wait together |
| `MCTerminal` | 2 inputs, the last disabled; three senders; queues of 1 | the last command decides; monitor and reading are operated through their channels; the newest text is never hidden |
| `MCTerminalStop` | 3 inputs, one disabled between two enabled; without the output task; fairness | a stop takes effect; the monitor visits every input |
| `MCDebounce` | one switch and the key; queue of 2; fairness | the table follows the switch; a press toggles once |
| `MCThermocouple` | the 130 entries of the code; every third count from 0 to 1023; ambient 25 and -1; fairness | readings right to the degree, refusals only between rows, the search halves what is left and ends |

Queues of one or two places are enough because the behaviours that matter are
"room", "just full" and "two messages for one receiver in order"; a longer queue only
lengthens the same behaviours, and the theorems cover every length. Buffers of
four with messages of two and three channels complete a fill at every position of a
message. Four laps of the ring are needed because the record counter stops at four
times the pages. A switch and the key share no state but the queue, and a second
switch is to the first what `SendOther` is. The counts reach from
25 degrees to the end of the table and beyond, with several of every third one in each
row and in each gap between rows; the theorems cover every count and every ambient. `MCHistoryLog*` sets `CHECK_DEADLOCK FALSE`: the bound on registers stops the
producers. `MaxReports`, `MaxReads` and `MaxRegisters` are the only bounds that
are not in the code.

Runs that refute a text of the repository (findings in `PROJECT.json`):

- `MCDataLog_TimesInTimeArea` – the 225th time is written over the first report page.
- `MCControlLoop_ResetAlarmIsOff` – an alarm output left on by the race between the callback and a pass.
- `MCHistoryLog_InputFillsAnnounced` – a buffer completed in the middle of an analog message is not sent.
- `MCTerminal_StopStops` – after `hist` and `mon`, a stop ends one of the two and no command ends the other.

Three more texts disagree with the code and have no run, because the line shows all there is to
see: `BF:18` gives 112 as the maximum of `add_num_register`, which counts to 448
(`EEPROM_REG_MAX_IDS`); `IM:491-494` wants an alarm when the object is missing while the
process runs, and `ALARM_INTERRUPT` is never raised; `BF:13-14` name the range of the times
after the registers and the other way round.

Each property of a passing run has a mutant: an operator named as a fault
(`NextPageLate`, `OutputTakeBeside`, ...) that stands before the definition it
would replace and is a plausible mistake in that code; replacing the definition
makes the property fail.

## 4. Fairness

`MCDataLog`: with power the service boots, a store goes on, and the log
queue is found empty again and again (a buffer takes seconds to fill and the
wait is 0.8 s), hence weak fairness of `Boot` and of a store and strong fairness of
`ReadTimeout`, which reports may disable again and again.

`MCControlLoop`: the input task runs (weak fairness of receiving and of every step of
a pass), because every wait of the code has a timeout. Nothing is assumed of the output
task, so that `PassEnds` rests on those timeouts and not on the room it makes;
`TemperatureReported`, which ends at a pin, says itself that it runs (`OutputRuns`). The
daemon, of lower priority, gets its turn whenever the input task waits, which it
does for 50 ticks after every pass: strong fairness of its steps and of each
expiry. Nothing is assumed of the inputs: a temperature need not change, and
`TemperatureReported` speaks of behaviours in which it stays out of its band.

`MCTerminalStop`: the tasks run, and a wait ends by its timeout or because there is
room (weak fairness of each task's step). The daemon handles a command that waits after
every callback; the callbacks of `mon` may keep it busy again and again, hence strong
fairness of `TimerCommand`. No fairness of the user, of the output task, of the end of
a reading or of a page written.

`MCDebounce`: the timer of the switches reloads itself (strong fairness of
`InpExpire`, which the key's callback may disable again and again), its callback goes on
to the end of the table, and the input task reads its queue. Nothing is assumed
of the pins or the key.

`MCThermocouple`: the search goes on.

## 5. Proofs

`DataLogProofs` proves for every `LogPages > 1`, `TimeSlots > LogPages` and
`StackFill` outside the tested range (`DataLogAssumption`):
`TypeOK`, `RecentReportsKept`, `ShownInOrder`, `LoadedTimeIsNewest`,
`HeaderOneBehind`, the action property `OnlyOldestReplaced` and the refinement `LogSpec`.

None of these is inductive. `RingInv` adds, for a store in progress, what its
steps so far have written (`PageInv`, `TimeInv`, `HeaderInv`); the counters
against the number of stores (`CountInv`); and where a counter below its
maximum has got to (`LapInv`: `num = lap * LogPages + nextReg`, lap 0 to 3, and
`firstReg` just after `nextReg` once it stops). `RecentReportsKept` is part of
it: overwriting `nextReg` makes every page one older (`Age`), and page 0 is excepted once `stored` has reached the slots (`Overwritten`), where `CountInv` says that `nextTime` is at its end. The order of the
records (`ShownInOrder`) follows from the pages and the laps together.
`LogImplemented` is the refinement: from `RingInv`, while the time area lasts the ring read
off backwards is a run of consecutive reports (`KeptIsRun`); the step that stores a page
makes that run longer, or moves it (`RunGrows`, `RunMoves`), which is `Add`; a power loss and
the store that uses up the time area are `Lose`; every other step leaves it alone.

`HistoryLogProofs` proves, for every size of the buffers and the queue
(`HistoryLogAssumption`): `TypeOK`, `FillIntact`, `LatePageHasNewest` and
`OutputFillsAnnounced`. `FillInv` says what each position of a buffer holds – of
this fill below `idReg`, of the one before from there on – that a producer at
its send has just wrapped, and that a message is no newer than its producer.
`AnnouncedInv` multiplies out the count of announcements: with the one about to
be sent, they are all the registers of the complete fills; the division of the
property follows from it. The same count for the input task is what
`MCHistoryLog_InputFillsAnnounced` refutes.
`PagesOrdered` (`PagesInOrder`) rests on `OrderInv`: an announcement, waiting or stored, is
a whole fill behind its producer's buffer as soon as that has begun another or is at its next
send (`Earlier`), so whatever is announced next is a fill later. This is all that is
left of the order when pages are late: two announcements of one buffer that wait
together are stored with the same registers.

`ControlLoopProofs` proves, for every set of configurations, every set of integers as
temperatures and every length of both queues (`ControlLoopAssumption`), `TypeOK`,
`OutputFollowsStatus`, `RaisedAlarmShows`, `NoStrayTimer` and `PinsShowOutputs`. An
output command is followed along one chain, `outq \o todo`, a timer command along
`timerq \o todo`: `LastFor` (`LastCommand`) says what the last command for an id in such a
sequence is, and the lemmas `AppendOf`, `HeadOf` and `ConcatOf` of `LastCommandProofs` how it
changes when commands are added, taken or joined; the terminal and the debounce use the
same lemmas. The steps of a pass move a
command along its chain, which changes nothing, and `OutputTake` ends it, which changes the
output as the chain said; a pass adds commands at the end, exactly where it changes the status.
Only the daemon adds in the middle, before what the pass has still to send. That is
harmless because of `TimerLast`: when the daemon may run, the pass either waits at the head
of a full queue for the output – and then `Raise` has no room – or for a timer, and timer
commands are the last of an input. `Shape` is `TypeOK`, this fact and that the pass stands at an
enabled input; `Follows` is the three statements about the table. `Shown` says of the
command in hand that it is what the table holds for its output (`HandSet`), so that the step to the
pin makes good what `PinsShowOutputs` excepts. `Silent` is what `OutputFollowsStatus`
needs of the valve, which has two owners: no channel reads the conductimeter, so its value stays
zero, and `control_Conductimeter` releases nothing and opens the valve only above its limit.
Its status never changes, whatever `sup_changeMode` does with its entry, and every command for the
valve is one of the level (`Owners`). `IInv` is these four.

`OutputsImplemented` and `TimersImplemented` are the refinement of `CommandChannel`, once for each
output and timer. The way of an output is what has left the pass and then what the pass
has still to send (`OutputWay`, `TimerWay`): a pass adds to its end at most one command for each thing
(`CommandsOnce`), a send moves it from one part to the other, a send that times out
takes one out of the middle (`HeadGone`, `CutOut`) and is `Lose`, and the daemon's
command, which comes between the two parts, is at the end because nothing for that output is
behind it (`BlockedOutput`, from `TimerLast`). `PassComesToItsEnd` (`PassAdvances`) is the
safety half of `PassEnds`: the measure `PassLeft` falls with each step of a pass, by
`NextRowAfter`, and no other task touches it.

The commands in a queue are a recursive function (`CommandsFor`), and what it gives is proved by
induction over the length of the queue (`LastCommandProofs`). The library's induction
theorems take a predicate, which the provers cannot instantiate; `Induction` takes a set instead, and
follows from the fact that every set of naturals has a least element (`LeastNat`, by
`WFMin`). `LastOfCommands` says that the two views of a queue agree: the last command of
which the invariants speak is the last of those the channels carry.

`ThermocoupleProofs` proves, for every table whose columns and rows increase and every
count (`ThermocoupleAssumption`), `TypeOK`, `ReadingBrackets` and `RefusedOnlyInGaps`. `SearchInv`
says that the voltage is above the rows left on one side and below those left on the
other, and the same of the columns of the row being searched; a row that the search
leaves contains it in no place, so that when no row is left it lies between two.
`SearchShort` (`SearchHalves`) is the safety half of `SearchEnds`: because the row searched is the
middle of those left (`AtMiddle`), each row given up leaves half of them at most, and so for the
columns of a row.

`TerminalProofs` proves, for every set of senders, every table and every length of the four
queues (`TerminalAssumption`), `TypeOK`, `MonitorObeys`, `ReadingObeys` and `NewestShown`.
Together with `TypeOK` each is inductive as it stands, because it already speaks of
everything on the way: a command is in the shell, in its queue, with the timer or done,
and each step of a task moves one along (`TimerTakes`, `TimerGets`: the queue of the
timers ends where its last command says). The newest text of a sender is at its send or
in the queue, and taking a message passes over another sender's only.
`ProcessesImplemented` is the refinement of `CommandChannel` for both processes: each step of a task moves a
command along its way, which leaves the way as a whole alone, or obeys, loses or gives one;
a page to be written is no command of the reading, and the end of a reading is the end of a
single shot.

`DebounceProofs` proves, for every set of switches, every length of the queue and every
movement of the pins (`DebounceAssumption`), `TypeOK`, `StatusFollowsSwitch` and `PressToggles`.
`Watched` says what the last three samples tell of the level an input last held:
it is the newest level if two samples agree on it, the level before if they had agreed on that,
and otherwise the input has bounced. `NewSample` follows from it: a change of level is
either reported in that sample or hidden by a bounce, and a press is seen exactly
when the level held was the free one. `Current` says that a report at its send is of the level
held now – the callback takes no other sample before it is sent – so that the send ends
the loss of an earlier report.

`Times` proves of the seconds of a register, for every pair of times: they fit
their byte (`TimeFits`); they are exact when neither minutes nor seconds have passed sixty
(`TimeExact`); and when the seconds have, they are too long by twice what is missing, less one,
because the borrow is not taken (`TimeWithoutBorrow`).

Only model-checked: the liveness properties (`ReadingEnds`, `PassEnds`, `TemperatureReported`,
`StopTakesEffect`, `MonitorVisitsAll`, `SwitchArrives`, `SearchEnds`), because the prover has
no rule for `ENABLED`, on which fairness rests; of `PassEnds` and `SearchEnds` the part that is not
about fairness is proved. What the findings refute is refuted by TLC alone.

## 6. Not modelled

The application is some 7500 lines of `modules/support` and `projects`; the rest of the
repository is vendored – FreeRTOS, lwIP, FatFs, the LCD library, tinyShell, the chip
and USB libraries, the osek test suite – and is neither this program's logic nor, for
most of it, linked. FreeRTOS appears as its queues, mutexes, priorities and timer daemon,
modelled from how the tasks use them. That is why the map is a small part of the
repository's lines.

Of the application:

- drivers whose calls are one access to a register (RTC, I2C, GPIO, LED), start-up, the
  statistics hooks, the newlib stubs, the UART over the rings of the chip library;
- `ColaCircular.c`: linked, but only the LCD library uses it;
- the flags and the ring of samples of `ciaaAIN.c` (no control function reads the flags),
  the thermistor and the meters (floating-point formulas), `ciaaAIN_Config` (no
  task ever sends the message that would reach it), the negative table (never searched);
- the value of `sup_integerCompare`: any sum is possible at every pass;
- what a text on the terminal says, the line editor and the escape sequences;
- the seconds of a register in `HistoryLog`: whether they are computed depends on
  an uninitialised field (`IM:293`).

## 7. Plan

1. Composition of `HistoryLog` with `DataLog`: from a register made to a register shown by
   `hist`, through two queues and the ring.
2. One daemon for `ControlLoop`, `Debounce` and `Terminal`: a callback that waits
   delays those of the other modules.
3. An abstract specification of the history: pages of a producer in the order of its fills,
   whole when stored in time, and the proof that `HistoryLog` implements it.
