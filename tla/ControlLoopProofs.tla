------------------------- MODULE ControlLoopProofs -------------------------
(***************************************************************************)
(* Theorems about the control loop, for every set of inputs, every         *)
(* temperature and every length of the two queues.                         *)
(*                                                                         *)
(* A command is followed from the pass through the queue to the table of   *)
(* outputs: what an output will be is the last command for it in the queue *)
(* and in what the pass has still to send, in that order (Chain).  A step  *)
(* moves a command along the chain, adds one at its end, or adds one in    *)
(* the middle, which only the daemon does.  From the table to the pin a    *)
(* command is underway alone (HandSet).                                    *)
(***************************************************************************)
EXTENDS ControlLoop, LastCommandProofs

\* Sequences of commands.
-----------------------------------------------------------------------------
LEMMA CommandSets == \A c \in Command : c.set \in BOOLEAN
  BY DEF Command

\* Commands for others change nothing.
LEMMA LastOfNone ==
  ASSUME NEW id, NEW s \in Seq(Command), NEW d \in BOOLEAN,
         \A k \in 1 .. Len(s) : s[k].id # id
  PROVE  LastFor(id, s, d) <=> d
  BY NoneOf, CommandSets

LEMMA LastAppend ==
  ASSUME NEW id, NEW s \in Seq(Command), NEW c \in Command, NEW d \in BOOLEAN
  PROVE  LastFor(id, Append(s, c), d)
           <=> IF c.id = id THEN c.set ELSE LastFor(id, s, d)
  BY AppendOf, CommandSets

LEMMA LastHead ==
  ASSUME NEW id, NEW s \in Seq(Command), s # <<>>, NEW d \in BOOLEAN
  PROVE  LastFor(id, s, d)
           <=> LastFor(id, Tail(s), IF Head(s).id = id THEN Head(s).set ELSE d)
  BY HeadOf, CommandSets

LEMMA LastConcat ==
  ASSUME NEW id, NEW s \in Seq(Command), NEW t \in Seq(Command), NEW d \in BOOLEAN
  PROVE  LastFor(id, s \o t, d) <=> LastFor(id, t, LastFor(id, s, d))
  BY ConcatOf, CommandSets

LEMMA LastOne ==
  ASSUME NEW id, NEW c \in Command, NEW d \in BOOLEAN
  PROVE  LastFor(id, <<c>>, d) <=> IF c.id = id THEN c.set ELSE d
<1> DEFINE a == <<c>>
<1>1. Len(a) = 1 /\ a[1] = c /\ 1 .. Len(a) = {1} /\ ~(1 > 1)
  OBVIOUS
<1>2. c.set \in BOOLEAN
  BY DEF Command
<1> HIDE DEF a
<1>3. LastFor(id, a, d) <=> (c.id = id /\ c.set) \/ (d /\ c.id # id)
  BY <1>1, Zenon DEF LastFor
<1>4. CASE c.id = id
  BY <1>2, <1>3, <1>4 DEF a
<1>5. CASE c.id # id
  BY <1>3, <1>5 DEF a
<1> QED
  BY <1>4, <1>5

-----------------------------------------------------------------------------
(* The tables *)

LEMMA Tables ==
  /\ Input = {0, 1, 2, 3, 4, 5, 6, 7} /\ Timed = {0, 2, 3, 4, 5}
  /\ Output = {8, 9, 10, 11, 12, 13, 14, 15, 16, 17, 18}
  /\ NONE = 25
  /\ Alarm(0) = 10 /\ Alarm(1) = 25 /\ Alarm(2) = 14 /\ Alarm(3) = 12
  /\ Alarm(4) = 11 /\ Alarm(5) = 17 /\ Alarm(6) = 13 /\ Alarm(7) = 25
  /\ Out(0) = 9 /\ Out(1) = 25 /\ Out(2) = 16 /\ Out(3) = 8
  /\ Out(4) = 8 /\ Out(5) = 15 /\ Out(6) = 25 /\ Out(7) = 18
<1>1. /\ Input = {0, 1, 2, 3, 4, 5, 6, 7} /\ Timed = {0, 2, 3, 4, 5}
      /\ Output = {8, 9, 10, 11, 12, 13, 14, 15, 16, 17, 18}
      /\ NONE = 25
  BY DEF Input, Timed, Output, EXT_INPUTS_TOTAL, RELAY_VALVE, SIGNAL_MODE, NONE,
         TERMOCUPLE, AMPERIMETER, CONDUCTIMETER, WATER_LEVEL, SW_START_STOP
<1>2. /\ Alarm(0) = 10 /\ Alarm(1) = 25 /\ Alarm(2) = 14 /\ Alarm(3) = 12
      /\ Alarm(4) = 11 /\ Alarm(5) = 17 /\ Alarm(6) = 13 /\ Alarm(7) = 25
  BY DEF Alarm, alarm_signal, ALARM_TEMPER, NONE, ALARM_TIME, ALARM_CONDUCT,
         ALARM_LEVEL, SIGNAL_STOP, ALARM_INTERRUPT
<1>3. /\ Out(0) = 9 /\ Out(1) = 25 /\ Out(2) = 16 /\ Out(3) = 8
      /\ Out(4) = 8 /\ Out(5) = 15 /\ Out(6) = 25 /\ Out(7) = 18
  BY DEF Out, output_signal, RELAY_HEATER, NONE, SIGNAL_COMPLETE, RELAY_VALVE,
         SIGNAL_START, SIGNAL_MODE
<1> QED
  BY <1>1, <1>2, <1>3

\* Inputs, outputs and NONE are apart; no alarm is an output of an input, and
\* no two inputs share an alarm.
LEMMA Signals ==
  /\ Timed \subseteq Input /\ Input \cap Output = {}
  /\ NONE \notin Input /\ NONE \notin Output /\ Between \notin Input
  /\ \A i \in Timed : Alarm(i) \in Output
  /\ \A i \in Input : Alarm(i) \in Output \cup {NONE} /\ Out(i) \in Output \cup {NONE}
  /\ \A i, k \in Input : Alarm(i) # NONE => Alarm(i) # Out(k)
  /\ \A i, k \in Input : i # k /\ Alarm(i) # NONE => Alarm(i) # Alarm(k)
<1>1. /\ Timed \subseteq Input /\ Input \cap Output = {}
      /\ NONE \notin Input /\ NONE \notin Output /\ Between \notin Input
  BY Tables DEF Between, EXT_INPUTS_TOTAL
<1>2. \A i \in Input : Alarm(i) \in {10, 25, 14, 12, 11, 17, 13}
                       /\ Out(i) \in {9, 25, 16, 8, 15, 18}
  BY Tables
<1>3. \A i \in Timed : Alarm(i) \in Output
  BY Tables
<1>4. \A i, k \in Input : Alarm(i) # NONE => Alarm(i) # Out(k)
  BY <1>2, Tables
<1>5. \A i, k \in Input : i # k /\ Alarm(i) # NONE => Alarm(i) # Alarm(k)
  BY Tables
<1>6. \A i \in Input : Alarm(i) \in Output \cup {NONE} /\ Out(i) \in Output \cup {NONE}
  BY <1>2, Tables
<1> QED
  BY <1>1, <1>3, <1>4, <1>5, <1>6

\* The pin of each output: the table and the name agree but for the last two.
LEMMA Pins ==
  /\ GpioOf(8) = 27 /\ GpioOf(9) = 20 /\ GpioOf(10) = 24 /\ GpioOf(11) = 23
  /\ GpioOf(12) = 19 /\ GpioOf(13) = 4 /\ GpioOf(14) = 3 /\ GpioOf(15) = 1
  /\ GpioOf(16) = 0 /\ GpioOf(17) = 0 /\ GpioOf(18) = 22
  /\ Pin = {0, 1, 3, 4, 5, 19, 20, 22, 23, 24, 27}
<1>1. Pin = {0, 1, 3, 4, 5, 19, 20, 22, 23, 24, 27}
  BY DEF Pin, LED_R, LED_G, LED_1, LED_2, LED_3, LCD_EN, LCD_RS, LCD_2, LCD_3,
         LCD_4, SPI_MOSI
<1> DEFINE entry(o) == stateOutputs[OUTPUT_GET_INDEX(o)]
<1>2. /\ entry(8) = [name |-> 8, id_gpio |-> 27]
      /\ entry(9) = [name |-> 9, id_gpio |-> 20]
      /\ entry(10) = [name |-> 10, id_gpio |-> 24]
      /\ entry(11) = [name |-> 11, id_gpio |-> 23]
      /\ entry(12) = [name |-> 12, id_gpio |-> 19]
      /\ entry(13) = [name |-> 13, id_gpio |-> 4]
      /\ entry(14) = [name |-> 14, id_gpio |-> 3]
      /\ entry(15) = [name |-> 15, id_gpio |-> 1]
      /\ entry(16) = [name |-> 17, id_gpio |-> 0]
      /\ entry(17) = [name |-> 16, id_gpio |-> 5]
      /\ entry(18) = [name |-> 18, id_gpio |-> 22]
  BY DEF stateOutputs, OUTPUT_GET_INDEX, RELAY_VALVE, RELAY_HEATER, ALARM_TEMPER,
         ALARM_LEVEL, ALARM_CONDUCT, ALARM_INTERRUPT, ALARM_TIME, SIGNAL_START,
         SIGNAL_STOP, SIGNAL_COMPLETE, SIGNAL_MODE, LED_R, LED_G, LED_1, LED_2,
         LED_3, LCD_EN, LCD_RS, LCD_2, LCD_3, LCD_4, SPI_MOSI
<1>3. \A o : GpioOf(o) = IF entry(o).name = o THEN entry(o).id_gpio ELSE 0
  BY DEF GpioOf, LED_R
<1> HIDE DEF entry
<1> QED
  BY <1>1, <1>2, <1>3
-----------------------------------------------------------------------------
(* The commands of an input *)

\* The command for a timer, if any, is the last.
TimerLast(s) == \A k \in 1 .. Len(s) : s[k].id \in Input => k = Len(s)

\* Of an alarm, output and timer that are different, each has the command its
\* change asks for, and others have none.
LEMMA CommandsForm ==
  ASSUME NEW i \in Input, NEW e \in Entry, NEW f \in Entry
  PROVE  /\ Commands(i, e, f) \in Seq(Command)
         /\ TimerLast(Commands(i, e, f))
         /\ \A id : \A d \in BOOLEAN :
              LastFor(id, Commands(i, e, f), d) <=>
                IF id = i /\ i \in Timed /\ e.timer # f.timer THEN f.timer
                ELSE IF id = Out(i) /\ id # NONE /\ e.output # f.output THEN f.output
                ELSE IF id = Alarm(i) /\ id # NONE /\ e.alarm /\ ~f.alarm THEN FALSE
                ELSE d
<1> DEFINE a == IF e.alarm /\ ~f.alarm /\ Alarm(i) # NONE
                THEN <<[id |-> Alarm(i), set |-> FALSE]>> ELSE <<>>
           b == IF e.output # f.output /\ Out(i) # NONE
                THEN <<[id |-> Out(i), set |-> f.output]>> ELSE <<>>
           c == IF e.timer # f.timer /\ i \in Timed
                THEN <<[id |-> i, set |-> f.timer]>> ELSE <<>>
<1>1. Commands(i, e, f) = (a \o b) \o c
  BY DEF Commands
<1>2. /\ e.alarm \in BOOLEAN /\ f.alarm \in BOOLEAN
      /\ e.output \in BOOLEAN /\ f.output \in BOOLEAN
      /\ e.timer \in BOOLEAN /\ f.timer \in BOOLEAN
  BY DEF Entry
<1>3. /\ Alarm(i) # NONE => [id |-> Alarm(i), set |-> FALSE] \in OutputCommand
      /\ Out(i) # NONE => [id |-> Out(i), set |-> f.output] \in OutputCommand
      /\ i \in Timed => [id |-> i, set |-> f.timer] \in TimerMessage
  BY <1>2, Signals DEF OutputCommand, TimerMessage
<1>4. OutputCommand \subseteq Command /\ TimerMessage \subseteq Command
  BY DEF OutputCommand, TimerMessage, Command
<1>5. a \in Seq(OutputCommand) /\ b \in Seq(OutputCommand) /\ c \in Seq(TimerMessage)
  BY <1>3
<1>6. a \in Seq(Command) /\ b \in Seq(Command) /\ c \in Seq(Command)
      /\ a \o b \in Seq(Command) /\ (a \o b) \o c \in Seq(Command)
  <2>1. a \in Seq(Command) /\ b \in Seq(Command) /\ c \in Seq(Command)
    BY <1>3, <1>4
  <2> HIDE DEF a, b, c
  <2> QED
    BY <2>1
<1>7. ASSUME NEW id, NEW d \in BOOLEAN
      PROVE  LastFor(id, a, d) <=>
               IF id = Alarm(i) /\ id # NONE /\ e.alarm /\ ~f.alarm THEN FALSE ELSE d
  <2>1. CASE e.alarm /\ ~f.alarm /\ Alarm(i) # NONE
    <3> DEFINE cmd == [id |-> Alarm(i), set |-> FALSE]
    <3>1. cmd \in Command /\ cmd.id = Alarm(i) /\ cmd.set = FALSE
      BY <1>3, <1>4, <2>1
    <3>2. a = <<cmd>>
      BY <2>1
    <3> HIDE DEF cmd, a
    <3>3. LastFor(id, <<cmd>>, d) <=> IF cmd.id = id THEN cmd.set ELSE d
      BY <3>1, LastOne
    <3> QED
      BY <2>1, <3>1, <3>2, <3>3
  <2>2. CASE ~(e.alarm /\ ~f.alarm /\ Alarm(i) # NONE)
    BY <2>2, LastEmpty
  <2> QED
    BY <2>1, <2>2
<1>8. ASSUME NEW id, NEW d \in BOOLEAN
      PROVE  LastFor(id, b, d) <=>
               IF id = Out(i) /\ id # NONE /\ e.output # f.output THEN f.output ELSE d
  <2>1. CASE e.output # f.output /\ Out(i) # NONE
    BY <1>2, <1>3, <1>4, <2>1, LastOne
  <2>2. CASE ~(e.output # f.output /\ Out(i) # NONE)
    BY <2>2, LastEmpty
  <2> QED
    BY <2>1, <2>2
<1>9. ASSUME NEW id, NEW d \in BOOLEAN
      PROVE  LastFor(id, c, d) <=>
               IF id = i /\ i \in Timed /\ e.timer # f.timer THEN f.timer ELSE d
  <2>1. CASE e.timer # f.timer /\ i \in Timed
    BY <1>2, <1>3, <1>4, <2>1, LastOne
  <2>2. CASE ~(e.timer # f.timer /\ i \in Timed)
    BY <2>2, LastEmpty
  <2> QED
    BY <2>1, <2>2
<1>10. TimerLast((a \o b) \o c)
  <2>1. \A k \in 1 .. Len(a \o b) : (a \o b)[k] \in OutputCommand
    <3>1. a \o b \in Seq(OutputCommand)
      <4> HIDE DEF a, b
      <4> QED
        BY <1>5
    <3> HIDE DEF a, b
    <3> QED
      BY <3>1
  <2>2. Len(c) <= 1 /\ Len(c) \in Nat
    OBVIOUS
  <2> DEFINE ab == a \o b
  <2>3. ab \in Seq(Command) /\ c \in Seq(Command)
    BY <1>6
  <2>4. \A k \in 1 .. Len(ab) : ab[k].id \notin Input
    BY <2>1, Signals DEF OutputCommand
  <2> HIDE DEF ab, c
  <2>5. Len(ab \o c) = Len(ab) + Len(c) /\ Len(ab) \in Nat
        /\ \A k \in 1 .. Len(ab) : (ab \o c)[k] = ab[k]
    BY <2>3
  <2>6. ASSUME NEW k \in 1 .. Len(ab \o c), (ab \o c)[k].id \in Input
        PROVE  k = Len(ab \o c)
    <3>1. k \notin 1 .. Len(ab)
      BY <2>4, <2>5, <2>6
    <3> QED
      BY <2>2, <2>5, <2>6, <3>1
  <2> QED
    BY <2>6 DEF TimerLast, ab
<1> HIDE DEF a, b, c
<1>11. ASSUME NEW id, NEW d \in BOOLEAN
       PROVE  LastFor(id, (a \o b) \o c, d) <=> LastFor(id, c, LastFor(id, b, LastFor(id, a, d)))
  <2>1. LastFor(id, a, d) \in BOOLEAN /\ LastFor(id, a \o b, d) \in BOOLEAN
    BY LastType
  <2>2. LastFor(id, a \o b, d) = LastFor(id, b, LastFor(id, a, d))
    BY <1>6, <2>1, LastConcat, LastType
  <2>3. LastFor(id, (a \o b) \o c, d) <=> LastFor(id, c, LastFor(id, a \o b, d))
    BY <1>6, LastConcat
  <2> QED
    BY <2>2, <2>3
<1>12. ASSUME NEW id, NEW d \in BOOLEAN
       PROVE  LastFor(id, (a \o b) \o c, d) <=>
                IF id = i /\ i \in Timed /\ e.timer # f.timer THEN f.timer
                ELSE IF id = Out(i) /\ id # NONE /\ e.output # f.output THEN f.output
                ELSE IF id = Alarm(i) /\ id # NONE /\ e.alarm /\ ~f.alarm THEN FALSE
                ELSE d
  <2> DEFINE p == LastFor(id, a, d)
             q == LastFor(id, b, p)
  <2>1. p \in BOOLEAN /\ q \in BOOLEAN
    BY LastType
  <2> QED
    BY <1>2, <1>7, <1>8, <1>9, <1>11, <2>1
<1> QED
  BY <1>1, <1>6, <1>10, <1>12
-----------------------------------------------------------------------------
(* The pass *)

\* Only inputs of the configuration are enabled, and a pass stops at no other.
Enabled ==
  /\ \A i \in Input : row[i].enable => i \in present
  /\ at \in Input => at \in present

\* A set of inputs has a least one.
LEMMA Least ==
  ASSUME NEW S \in SUBSET Input, S # {}
  PROVE  \E k \in S : \A m \in S : k <= m
<1> SUFFICES ASSUME \A k \in S : \E m \in S : m < k
             PROVE  FALSE
  BY Tables
<1>1. S \subseteq {0, 1, 2, 3, 4, 5, 6, 7}
  BY Tables
<1>2. 0 \notin S /\ 1 \notin S /\ 2 \notin S /\ 3 \notin S
  <2>1. 0 \notin S
    BY <1>1
  <2>2. 1 \notin S
    BY <1>1, <2>1
  <2>3. 2 \notin S
    BY <1>1, <2>1, <2>2
  <2> QED
    BY <1>1, <2>1, <2>2, <2>3
<1>3. 4 \notin S /\ 5 \notin S
  <2>1. 4 \notin S
    BY <1>1, <1>2
  <2> QED
    BY <1>1, <1>2, <2>1
<1>4. 6 \notin S
  BY <1>1, <1>2, <1>3
<1>5. 7 \notin S
  BY <1>1, <1>2, <1>3, <1>4
<1>6. S = {}
  BY <1>1, <1>2, <1>3, <1>4, <1>5
<1> QED
  BY <1>6

LEMMA Cotas ==
  ASSUME NEW i, NEW e
  PROVE  INP_INF_COTA(i, e) \in BOOLEAN /\ INP_SUP_COTA(i, e) \in BOOLEAN
  BY DEF INP_INF_COTA, INP_SUP_COTA

LEMMA NextRowForm ==
  ASSUME NEW i, NEW r \in [Input -> Entry]
  PROVE  \/ NextRow(i, r) = Between
         \/ NextRow(i, r) \in Input /\ r[NextRow(i, r)].enable
<1> DEFINE later == {k \in Input : k > i /\ r[k].enable}
<1>1. CASE later = {}
  BY <1>1 DEF NextRow
<1>2. CASE later # {}
  <2>1. \E k \in later : \A m \in later : k <= m
    BY <1>2, Least
  <2>2. (CHOOSE k \in later : \A m \in later : k <= m) \in later
    BY <2>1
  <2>3. NextRow(i, r) = CHOOSE k \in later : \A m \in later : k <= m
    BY <1>2 DEF NextRow
  <2> QED
    BY <2>2, <2>3
<1> QED
  BY <1>1, <1>2

\* What a control function may do to its entry f of table r.
Controlled(r, f) ==
  /\ r \in [Input -> Entry] /\ f \in Entry
  /\ \A i \in Input : /\ r[i].alarm = row[i].alarm /\ r[i].output = row[i].output
                      /\ r[i].timer = row[i].timer
                      /\ r[i].enable => i \in present
  /\ f.alarm => row[at].alarm
  /\ f.enable => at \in present

LEMMA ControlForm ==
  ASSUME TypeOK, Enabled, ControlStep
  PROVE  at \in Input /\ todo = <<>>
         /\ \E r, f : Control(r, f) /\ Controlled(r, f)
<1>1. row \in [Input -> Entry] /\ todo = <<>>
  BY DEF TypeOK, ControlStep
<1>2. at \in Input
  BY Tables DEF ControlStep, TERMOCUPLE, THERMISTOR, AMPERIMETER, CONDUCTIMETER,
     WATER_LEVEL, SW_START_STOP, SL_OBJECT_DETECT, SL_MODE_FUNCTION
<1> SUFFICES \E r, f : Control(r, f) /\ Controlled(r, f)
  BY <1>1, <1>2
<1>3. row[at] \in Entry /\ (row[at].enable => at \in present)
  BY <1>1, <1>2 DEF Enabled
<1>4. ASSUME NEW f \in Entry, f.alarm => row[at].alarm, f.enable = row[at].enable,
             Control(row, f)
      PROVE  \E r, g : Control(r, g) /\ Controlled(r, g)
  BY <1>1, <1>3, <1>4 DEF Controlled, Enabled
<1>5. CASE at = TERMOCUPLE /\ Control(row, control_Termocuple(row[at]))
  <2> DEFINE f == control_Termocuple(row[at])
  <2>1. f \in Entry /\ (f.alarm => row[at].alarm) /\ f.enable = row[at].enable
    BY <1>3, Cotas DEF control_Termocuple, Entry
  <2>9. Control(row, f)
    BY <1>5
  <2> HIDE DEF f
  <2> QED
    BY <1>4, <2>1, <2>9
<1>6. CASE at = THERMISTOR /\ Control(row, row[at])
  BY <1>3, <1>4, <1>6
<1>7. CASE /\ at = AMPERIMETER
           /\ \E v \in Sums :
                Control(row, control_Limit(at, [row[at] EXCEPT !.value = v]))
  <2>1. PICK v \in Sums : Control(row, control_Limit(at, [row[at] EXCEPT !.value = v]))
    BY <1>7
  <2>2. v \in Int
    BY DEF Sums, smt_max, AMPERIMETER, TERMOCUPLE, CONDUCTIMETER, THERMISTOR
  <2> DEFINE f == control_Limit(at, [row[at] EXCEPT !.value = v])
  <2>3. f \in Entry /\ (f.alarm => row[at].alarm) /\ f.enable = row[at].enable
    BY <1>3, Cotas, <2>2 DEF control_Limit, Entry
  <2>9. Control(row, f)
    BY <2>1
  <2> HIDE DEF f
  <2> QED
    BY <1>4, <2>3, <2>9
<1>8. CASE at = CONDUCTIMETER /\ Control(row, control_Conductimeter(row[at]))
  <2> DEFINE f == control_Conductimeter(row[at])
  <2>1. f \in Entry /\ (f.alarm => row[at].alarm) /\ f.enable = row[at].enable
    BY <1>3, Cotas DEF control_Conductimeter, Entry
  <2>9. Control(row, f)
    BY <1>8
  <2> HIDE DEF f
  <2> QED
    BY <1>4, <2>1, <2>9
<1>9. CASE at = WATER_LEVEL /\ Control(row, control_Limit(at, row[at]))
  <2> DEFINE f == control_Limit(at, row[at])
  <2>1. f \in Entry /\ (f.alarm => row[at].alarm) /\ f.enable = row[at].enable
    BY <1>3, Cotas DEF control_Limit, Entry
  <2>9. Control(row, f)
    BY <1>9
  <2> HIDE DEF f
  <2> QED
    BY <1>4, <2>1, <2>9
<1>10. CASE at = SW_START_STOP /\ Control(row, control_ProcessTimer(row[at]))
  <2> DEFINE f == control_ProcessTimer(row[at])
  <2>1. f \in Entry /\ (f.alarm => row[at].alarm) /\ f.enable = row[at].enable
    BY <1>3, Cotas DEF control_ProcessTimer, Entry
  <2>9. Control(row, f)
    BY <1>10
  <2> HIDE DEF f
  <2> QED
    BY <1>4, <2>1, <2>9
<1>11. CASE /\ at = SL_OBJECT_DETECT
            /\ Control(row, control_ObjectDetect([row[at] EXCEPT !.value = Detected]))
  <2> DEFINE f == control_ObjectDetect([row[at] EXCEPT !.value = Detected])
  <2>1. Detected \in Int
    BY DEF Detected, GPIO_LOW_LEVEL, GPIO_HIGH_LEVEL
  <2>2. f \in Entry /\ (f.alarm => row[at].alarm) /\ f.enable = row[at].enable
    BY <1>3, Cotas, <2>1 DEF control_ObjectDetect, Entry
  <2>9. Control(row, f)
    BY <1>11
  <2> HIDE DEF f
  <2> QED
    BY <1>4, <2>2, <2>9
<1>12. CASE at = SL_MODE_FUNCTION /\ Control(ModeChanged, control_ModeFunction(row[at]))
  <2> DEFINE f == control_ModeFunction(row[at])
             r == ModeChanged
  <2>1. f \in Entry /\ (f.alarm => row[at].alarm) /\ f.enable = row[at].enable
    BY <1>3, Cotas DEF control_ModeFunction, Entry
  <2> DEFINE high == row[SL_MODE_FUNCTION].value = GPIO_HIGH_LEVEL
             x == ~high /\ AMPERIMETER \in present
             y == high /\ CONDUCTIMETER \in present
  <2>5. x \in BOOLEAN /\ y \in BOOLEAN
        /\ (x => AMPERIMETER \in present) /\ (y => CONDUCTIMETER \in present)
    OBVIOUS
  <2>6. r = [row EXCEPT ![AMPERIMETER].enable = x, ![CONDUCTIMETER].enable = y]
    BY DEF ModeChanged
  <2> HIDE DEF r, x, y
  <2>2. r \in [Input -> Entry]
    <3> DEFINE half == [row EXCEPT ![AMPERIMETER].enable = x]
    <3>1. half \in [Input -> Entry]
      BY <1>1, <2>5 DEF Entry
    <3>2. r = [half EXCEPT ![CONDUCTIMETER].enable = y]
      BY <1>1, <2>6 DEF AMPERIMETER, CONDUCTIMETER
    <3> HIDE DEF half
    <3> QED
      BY <3>1, <3>2, <2>5 DEF Entry
  <2>3. \A i \in Input : /\ r[i].alarm = row[i].alarm /\ r[i].output = row[i].output
                         /\ r[i].timer = row[i].timer
                         /\ r[i].enable => i \in present
    BY <1>1, <2>5, <2>6 DEF Entry, Enabled
  <2>4. Controlled(r, f)
    BY <1>3, <2>1, <2>2, <2>3 DEF Controlled
  <2>9. Control(r, f)
    BY <1>12 DEF r
  <2> HIDE DEF f
  <2> QED
    BY <2>4, <2>9
<1> QED
  BY <1>1, <1>2, <1>5, <1>6, <1>7, <1>8, <1>9, <1>10, <1>11, <1>12 DEF ControlStep
-----------------------------------------------------------------------------
(* The chain of commands *)

\* What output o will be once the commands in the queue have arrived, and the
\* timer of input i once those in the queue of the daemon have.
Front(o) == LastFor(o, outq, outvalue[o])
TimerFront(i) == LastFor(i, timerq, i \in running)

\* The commands of the pass come after those.
ChainForm ==
  /\ \A o \in Output : /\ Front(o) \in BOOLEAN
                       /\ Settled(o) = LastFor(o, todo, Front(o))
  /\ \A i \in Timed : /\ TimerFront(i) \in BOOLEAN
                      /\ TimerSettled(i) = LastFor(i, todo, TimerFront(i))

LEMMA Queues ==
  ASSUME TypeOK
  PROVE  /\ hand \in Seq(Command) /\ outq \in Seq(Command)
         /\ todo \in Seq(Command) /\ timerq \in Seq(Command)
         /\ \A o \in Output : outvalue[o] \in BOOLEAN
<1>1. OutputCommand \subseteq Command /\ TimerMessage \subseteq Command
  BY DEF OutputCommand, TimerMessage, Command
<1>2. ASSUME NEW S, NEW T, S \subseteq T, NEW s \in Seq(S)
      PROVE  s \in Seq(T)
  BY <1>2
<1> QED
  BY <1>1, <1>2 DEF TypeOK

LEMMA Chain == TypeOK => ChainForm
<1> SUFFICES ASSUME TypeOK PROVE ChainForm
  OBVIOUS
<1>1. ASSUME NEW o \in Output
      PROVE  /\ Front(o) \in BOOLEAN
             /\ Settled(o) = LastFor(o, todo, Front(o))
  <2>1. Front(o) \in BOOLEAN /\ Settled(o) \in BOOLEAN
        /\ LastFor(o, todo, Front(o)) \in BOOLEAN
    BY LastType DEF Front, Settled
  <2>2. LastFor(o, outq \o todo, outvalue[o])
          <=> LastFor(o, todo, LastFor(o, outq, outvalue[o]))
    BY LastConcat, Queues
  <2>3. Settled(o) <=> LastFor(o, todo, Front(o))
    BY <2>2 DEF Settled, Front
  <2> QED
    BY <2>1, <2>3
<1>2. ASSUME NEW i \in Timed
      PROVE  /\ TimerFront(i) \in BOOLEAN
             /\ TimerSettled(i) = LastFor(i, todo, TimerFront(i))
  <2>1. TimerFront(i) \in BOOLEAN /\ TimerSettled(i) \in BOOLEAN
        /\ LastFor(i, todo, TimerFront(i)) \in BOOLEAN
    BY LastType DEF TimerFront, TimerSettled
  <2>2. (i \in running) \in BOOLEAN
    OBVIOUS
  <2>3. LastFor(i, timerq \o todo, i \in running)
          <=> LastFor(i, todo, LastFor(i, timerq, i \in running))
    BY <2>2, LastConcat, Queues
  <2>4. TimerSettled(i) <=> LastFor(i, todo, TimerFront(i))
    BY <2>3 DEF TimerSettled, TimerFront
  <2> QED
    BY <2>1, <2>4
<1> QED
  BY <1>1, <1>2 DEF ChainForm

LEMMA ChainNext == TypeOK' => ChainForm'
  BY Chain, PTL

(* What each step does to the chain *)

\* What an output, and a timer, will be does not change.
SettledSame == \A o \in Output \ lost' : Settled(o)' = Settled(o)
TimerSame == \A i \in Timed \ lost' : TimerSettled(i)' = TimerSettled(i)

LEMMA SettledUnchanged ==
  ASSUME UNCHANGED <<outq, todo, outvalue>>
  PROVE  SettledSame
  BY DEF SettledSame, Settled

LEMMA TimerUnchanged ==
  ASSUME UNCHANGED <<timerq, todo, running>>
  PROVE  TimerSame
  BY DEF TimerSame, TimerSettled

\* A new list of commands takes effect after what is on its way.
LEMMA ControlEffect ==
  ASSUME TypeOK, TypeOK', NEW r, NEW f, Control(r, f), todo = <<>>
  PROVE  /\ todo' = Commands(at, r[at], f)
         /\ \A o \in Output : Settled(o)' = LastFor(o, todo', Settled(o))
         /\ \A i \in Timed : TimerSettled(i)' = LastFor(i, todo', TimerSettled(i))
<1>1. todo' = Commands(at, r[at], f)
  BY DEF Control
<1>2. ASSUME NEW o \in Output
      PROVE  Settled(o)' = LastFor(o, todo', Settled(o))
  <2>1. Front(o)' = Front(o)
    BY DEF Front, Control, output
  <2>2. Front(o) \in BOOLEAN /\ Settled(o) = LastFor(o, <<>>, Front(o))
    BY Chain DEF ChainForm
  <2>3. Settled(o) = Front(o)
    BY <2>2, LastEmpty, LastType
  <2>4. Settled(o)' = LastFor(o, todo', Front(o)')
    BY ChainNext DEF ChainForm
  <2> QED
    BY <2>1, <2>3, <2>4
<1>3. ASSUME NEW i \in Timed
      PROVE  TimerSettled(i)' = LastFor(i, todo', TimerSettled(i))
  <2>1. TimerFront(i)' = TimerFront(i)
    BY DEF TimerFront, Control, timers
  <2>2. TimerFront(i) \in BOOLEAN /\ TimerSettled(i) = LastFor(i, <<>>, TimerFront(i))
    BY Chain DEF ChainForm
  <2>3. TimerSettled(i) = TimerFront(i)
    BY <2>2, LastEmpty, LastType
  <2>4. TimerSettled(i)' = LastFor(i, todo', TimerFront(i)')
    BY ChainNext DEF ChainForm
  <2> QED
    BY <2>1, <2>3, <2>4
<1> QED
  BY <1>1, <1>2, <1>3

\* The first command of the pass has left it and had its effect on front.
LEMMA HeadLeaves ==
  ASSUME TypeOK, todo # <<>>, NEW id, NEW d \in BOOLEAN, NEW e \in BOOLEAN,
         e = IF Head(todo).id = id THEN Head(todo).set ELSE d
  PROVE  LastFor(id, Tail(todo), e) = LastFor(id, todo, d)
<1>1. LastFor(id, todo, d)
        <=> LastFor(id, Tail(todo), IF Head(todo).id = id THEN Head(todo).set ELSE d)
  BY LastHead, Queues
<1> QED
  BY <1>1, LastType

LEMMA SendOutputEffect ==
  ASSUME TypeOK, TypeOK', SendOutput
  PROVE  SettledSame /\ TimerSame
<1>1. /\ todo # <<>> /\ Head(todo).id \in Output /\ Head(todo) \in Command
      /\ todo' = Tail(todo) /\ outq' = Append(outq, Head(todo))
      /\ UNCHANGED <<hand, outvalue, timerq, running>>
  BY Queues DEF SendOutput, ToOutput, Sent, output, timers
<1>2. ASSUME NEW o \in Output
      PROVE  Settled(o)' = Settled(o)
  <2> DEFINE a == outvalue[o]
  <2>1. a \in BOOLEAN /\ Front(o) \in BOOLEAN /\ Front(o)' \in BOOLEAN
    BY LastType, Queues DEF Front
  <2>2. LastFor(o, Append(outq, Head(todo)), a)
          <=> IF Head(todo).id = o THEN Head(todo).set ELSE LastFor(o, outq, a)
    BY <1>1, <2>1, LastAppend, Queues
  <2>3. Head(todo).set \in BOOLEAN
    BY <1>1 DEF Command
  <2>4. Front(o)' = LastFor(o, Append(outq, Head(todo)), a)
    BY <1>1 DEF Front
  <2>5. Front(o) = LastFor(o, outq, a)
    BY DEF Front
  <2>6. Front(o)' = IF Head(todo).id = o THEN Head(todo).set ELSE Front(o)
    <3> HIDE DEF a
    <3> QED
      BY <2>1, <2>2, <2>3, <2>4, <2>5
  <2>7. LastFor(o, Tail(todo), Front(o)') = LastFor(o, todo, Front(o))
    BY <1>1, <2>1, <2>6, HeadLeaves
  <2> QED
    BY <1>1, <2>7, Chain, ChainNext DEF ChainForm
<1>3. ASSUME NEW i \in Timed
      PROVE  TimerSettled(i)' = TimerSettled(i)
  <2>1. TimerFront(i)' = TimerFront(i) /\ TimerFront(i) \in BOOLEAN
    BY <1>1, Chain DEF TimerFront, ChainForm
  <2>2. Head(todo).id # i
    BY <1>1, Signals
  <2>3. LastFor(i, Tail(todo), TimerFront(i)) = LastFor(i, todo, TimerFront(i))
    BY <1>1, <2>1, <2>2, HeadLeaves
  <2> QED
    BY <1>1, <2>1, <2>3, Chain, ChainNext DEF ChainForm
<1> QED
  BY <1>2, <1>3 DEF SettledSame, TimerSame

LEMMA SendTimerEffect ==
  ASSUME TypeOK, TypeOK', SendTimer
  PROVE  SettledSame /\ TimerSame
<1>1. /\ todo # <<>> /\ Head(todo).id \in Input /\ Head(todo) \in Command
      /\ todo' = Tail(todo) /\ timerq' = Append(timerq, Head(todo))
      /\ UNCHANGED <<hand, outq, outvalue, running>>
  BY Queues DEF SendTimer, ToTimer, Sent, output
<1>2. ASSUME NEW o \in Output
      PROVE  Settled(o)' = Settled(o)
  <2>1. Front(o)' = Front(o) /\ Front(o) \in BOOLEAN
    BY <1>1, Chain DEF Front, ChainForm
  <2>2. Head(todo).id # o
    BY <1>1, Signals
  <2>3. LastFor(o, Tail(todo), Front(o)) = LastFor(o, todo, Front(o))
    BY <1>1, <2>1, <2>2, HeadLeaves
  <2> QED
    BY <1>1, <2>1, <2>3, Chain, ChainNext DEF ChainForm
<1>3. ASSUME NEW i \in Timed
      PROVE  TimerSettled(i)' = TimerSettled(i)
  <2> DEFINE a == i \in running
  <2>1. TimerFront(i) \in BOOLEAN /\ TimerFront(i)' \in BOOLEAN /\ a \in BOOLEAN
    BY LastType DEF TimerFront
  <2>2. LastFor(i, Append(timerq, Head(todo)), a)
          <=> IF Head(todo).id = i THEN Head(todo).set ELSE LastFor(i, timerq, a)
    <3> HIDE DEF a
    <3> QED
      BY <1>1, <2>1, LastAppend, Queues
  <2>3. Head(todo).set \in BOOLEAN
    BY <1>1 DEF Command
  <2>4. TimerFront(i)' = LastFor(i, Append(timerq, Head(todo)), a)
    BY <1>1 DEF TimerFront
  <2>5. TimerFront(i) = LastFor(i, timerq, a)
    BY DEF TimerFront
  <2>6. TimerFront(i)' = IF Head(todo).id = i THEN Head(todo).set ELSE TimerFront(i)
    <3> HIDE DEF a
    <3> QED
      BY <2>1, <2>2, <2>3, <2>4, <2>5
  <2>7. LastFor(i, Tail(todo), TimerFront(i)') = LastFor(i, todo, TimerFront(i))
    BY <1>1, <2>1, <2>6, HeadLeaves
  <2> QED
    BY <1>1, <2>7, Chain, ChainNext DEF ChainForm
<1> QED
  BY <1>2, <1>3 DEF SettledSame, TimerSame

LEMMA SendTimeoutEffect ==
  ASSUME TypeOK, TypeOK', SendTimeout
  PROVE  SettledSame /\ TimerSame
<1>1. /\ todo # <<>> /\ todo' = Tail(todo) /\ lost' = lost \cup {Head(todo).id}
      /\ UNCHANGED <<hand, outq, outvalue, timerq, running>>
  BY DEF SendTimeout, ToOutput, ToTimer, Sent, output, timers
<1>2. ASSUME NEW o \in Output \ lost'
      PROVE  Settled(o)' = Settled(o)
  <2>1. Front(o)' = Front(o) /\ Front(o) \in BOOLEAN
    BY <1>1, Chain DEF Front, ChainForm
  <2>2. LastFor(o, Tail(todo), Front(o)) = LastFor(o, todo, Front(o))
    BY <1>1, <2>1, HeadLeaves
  <2> QED
    BY <1>1, <2>1, <2>2, Chain, ChainNext DEF ChainForm
<1>3. ASSUME NEW i \in Timed \ lost'
      PROVE  TimerSettled(i)' = TimerSettled(i)
  <2>1. TimerFront(i)' = TimerFront(i) /\ TimerFront(i) \in BOOLEAN
    BY <1>1, Chain DEF TimerFront, ChainForm
  <2>2. LastFor(i, Tail(todo), TimerFront(i)) = LastFor(i, todo, TimerFront(i))
    BY <1>1, <2>1, HeadLeaves
  <2> QED
    BY <1>1, <2>1, <2>2, Chain, ChainNext DEF ChainForm
<1> QED
  BY <1>2, <1>3 DEF SettledSame, TimerSame

LEMMA TimerCommandEffect ==
  ASSUME TypeOK, TypeOK', TimerCommand
  PROVE  SettledSame /\ TimerSame
<1> DEFINE h == Head(timerq)
<1>1. /\ timerq # <<>> /\ timerq' = Tail(timerq) /\ h \in Command
      /\ running' = (IF h.set THEN running \cup {h.id} ELSE running \ {h.id})
      /\ UNCHANGED <<hand, outq, outvalue, todo>>
  BY Queues DEF TimerCommand, input, output
<1>2. ASSUME NEW i \in Timed
      PROVE  TimerSettled(i)' = TimerSettled(i)
  <2> DEFINE a == i \in running
             b == i \in running'
  <2>1. a \in BOOLEAN /\ b \in BOOLEAN /\ h.set \in BOOLEAN
    BY <1>1 DEF Command
  <2>2. b = IF h.id = i THEN h.set ELSE a
    BY <1>1, <2>1
  <2>3. LastFor(i, timerq, a) <=> LastFor(i, Tail(timerq), IF h.id = i THEN h.set ELSE a)
    <3> HIDE DEF a
    <3> QED
      BY <1>1, <2>1, LastHead, Queues
  <2>4. TimerFront(i) = LastFor(i, timerq, a) /\ TimerFront(i)' = LastFor(i, Tail(timerq), b)
    BY <1>1 DEF TimerFront
  <2>5. TimerFront(i)' = TimerFront(i)
    <3> HIDE DEF a, b, h
    <3> QED
      BY <2>2, <2>3, <2>4, LastType
  <2> QED
    BY <1>1, <2>5, Chain, ChainNext DEF ChainForm
<1> QED
  BY <1>1, <1>2, SettledUnchanged DEF TimerSame

\* The timer of i stops; it could only have been running.
LEMMA ExpireEffect ==
  ASSUME TypeOK, TypeOK', NEW i \in Timed, Expire(i)
  PROVE  SettledSame /\ \A k \in Timed : TimerSettled(k)' => TimerSettled(k)
<1>1. /\ running' = running \ {i}
      /\ UNCHANGED <<hand, outq, outvalue, todo, timerq>>
  BY DEF Expire, input, output
<1>2. ASSUME NEW k \in Timed, TimerSettled(k)'
      PROVE  TimerSettled(k)
  <2> DEFINE s == timerq \o todo
  <2>1. LastFor(k, s, k \in running')
    BY <1>1, <1>2 DEF TimerSettled
  <2>2. CASE k = i
    <3>1. (k \in running') = FALSE
      BY <1>1, <2>2
    <3>2. LastFor(k, s, FALSE)
      BY <2>1, <3>1
    <3> DEFINE a == k \in running
    <3>3. a \in BOOLEAN
      OBVIOUS
    <3>4. LastFor(k, s, a)
      <4> HIDE DEF a, s
      <4> QED
        BY <3>2, <3>3, LastSet
    <3> QED
      BY <3>4 DEF TimerSettled
  <2>3. CASE k # i
    <3>1. (k \in running') = (k \in running)
      BY <1>1, <2>3
    <3> QED
      BY <2>1, <3>1 DEF TimerSettled
  <2> QED
    BY <2>2, <2>3
<1> QED
  BY <1>1, <1>2, SettledUnchanged

\* While the daemon may run and the output queue has room, no alarm is among what
\* the pass has still to send.
LEMMA BlockedOutput ==
  ASSUME TypeOK, TimerLast(todo), InputBlocked, Len(outq) < OutputQueue,
         daemon \in Timed
  PROVE  \A k \in 1 .. Len(todo) : todo[k].id # Alarm(daemon)
<1>1. CASE at = Between
  BY <1>1, Signals DEF TypeOK
<1>2. CASE ToTimer
  <2>1. todo # <<>> /\ Head(todo).id \in Input /\ todo \in Seq(Command)
    BY <1>2, Queues DEF ToTimer
  <2>2. Len(todo) \in Nat /\ 1 \in 1 .. Len(todo) /\ Head(todo) = todo[1]
    BY <2>1
  <2>3. Len(todo) = 1
    BY <2>1, <2>2 DEF TimerLast
  <2>4. \A k \in 1 .. Len(todo) : todo[k] = Head(todo)
    BY <2>2, <2>3
  <2> QED
    BY <2>1, <2>4, Signals
<1> QED
  BY <1>1, <1>2, ControlLoopAssumption DEF InputBlocked, TypeOK

\* The alarm of the daemon enters the queue before what the pass has still to
\* send, which is then no command for an output.
LEMMA RaiseEffect ==
  ASSUME TypeOK, TypeOK', TimerLast(todo), Raise
  PROVE  /\ \A o \in Output : o = Alarm(daemon) => Settled(o)'
         /\ \A o \in Output \ {Alarm(daemon)} : Settled(o)' = Settled(o)
         /\ TimerSame
<1> DEFINE c == [id |-> Alarm(daemon), set |-> TRUE]
<1>1. /\ daemon \in Timed /\ Len(outq) < OutputQueue /\ InputBlocked
      /\ outq' = Append(outq, c)
      /\ UNCHANGED <<hand, outvalue, todo, timerq, running>>
  BY DEF Raise, TypeOK, input, output
<1>2. c \in Command /\ c.id = Alarm(daemon) /\ c.set = TRUE /\ Alarm(daemon) \in Output
  BY <1>1, Signals DEF Command
<1> HIDE DEF c
<1>3. ASSUME NEW o \in Output
      PROVE  Front(o)' <=> IF Alarm(daemon) = o THEN TRUE ELSE Front(o)
  <2> DEFINE a == outvalue[o]
  <2>1. a \in BOOLEAN
    BY Queues
  <2>2. LastFor(o, Append(outq, c), a) <=> IF c.id = o THEN c.set ELSE LastFor(o, outq, a)
    BY <1>2, <2>1, LastAppend, Queues
  <2>3. Front(o)' = LastFor(o, Append(outq, c), a) /\ Front(o) = LastFor(o, outq, a)
    BY <1>1 DEF Front
  <2> HIDE DEF a
  <2> QED
    BY <1>2, <2>2, <2>3
<1>4. \A k \in 1 .. Len(todo) : todo[k].id # Alarm(daemon)
  BY <1>1, BlockedOutput
<1>5. ASSUME NEW o \in Output, o = Alarm(daemon)
      PROVE  Settled(o)'
  <2>1. Front(o)' = TRUE
    BY <1>3, <1>5, ChainNext DEF ChainForm
  <2>2. LastFor(o, todo, TRUE) <=> TRUE
    BY <1>4, <1>5, LastOfNone, Queues
  <2>3. Settled(o)' = LastFor(o, todo', Front(o)')
    BY ChainNext DEF ChainForm
  <2> QED
    BY <1>1, <2>1, <2>2, <2>3
<1>6. ASSUME NEW o \in Output \ {Alarm(daemon)}
      PROVE  Settled(o)' = Settled(o)
  <2>1. Front(o)' = Front(o)
    BY <1>3, <1>6, Chain, ChainNext DEF ChainForm
  <2> QED
    BY <1>1, <2>1, Chain, ChainNext DEF ChainForm
<1> QED
  BY <1>1, <1>5, <1>6, TimerUnchanged

\* The first command of the queue takes effect in the table of outputs.
LEMMA OutputTakeEffect ==
  ASSUME TypeOK, TypeOK', OutputTake
  PROVE  SettledSame /\ TimerSame
<1> DEFINE c == Head(outq)
<1>1. /\ outq # <<>> /\ outq' = Tail(outq) /\ c \in Command
      /\ outvalue' = [outvalue EXCEPT ![c.id] = c.set]
      /\ UNCHANGED <<todo, timerq, running>>
  BY Queues DEF OutputTake, input, timers
<1>2. ASSUME NEW o \in Output
      PROVE  Settled(o)' = Settled(o)
  <2> DEFINE v == outvalue[o]
             b == outvalue'[o]
  <2>1. v \in BOOLEAN /\ c.set \in BOOLEAN
    BY <1>1, Queues DEF Command
  <2>2. b = IF c.id = o THEN c.set ELSE v
    BY <1>1, <1>2 DEF TypeOK
  <2>3. Front(o)' = LastFor(o, Tail(outq), b) /\ Front(o) = LastFor(o, outq, v)
    BY <1>1 DEF Front
  <2> HIDE DEF v, b
  <2>4. LastFor(o, outq, v)
          <=> LastFor(o, Tail(outq), IF c.id = o THEN c.set ELSE v)
    BY <1>1, <2>1, LastHead, Queues
  <2>5. Front(o)' = Front(o)
    BY <2>2, <2>3, <2>4, LastType
  <2> QED
    BY <1>1, <2>5, Chain, ChainNext DEF ChainForm
<1> QED
  BY <1>1, <1>2, TimerUnchanged DEF SettledSame

LEMMA OutputSetEffect ==
  ASSUME OutputSet
  PROVE  SettledSame /\ TimerSame
<1>1. UNCHANGED <<outq, todo, outvalue, timerq, running>>
  BY DEF OutputSet, input, timers
<1> QED
  BY <1>1, SettledUnchanged, TimerUnchanged
-----------------------------------------------------------------------------
(* Types *)

LEMMA TypeInit == Init => TypeOK
<1> SUFFICES ASSUME Init PROVE TypeOK
  OBVIOUS
<1>1. \A i \in Input : [FirstEntry(i) EXCEPT !.enable = @ /\ i \in present] \in Entry
  <2> TAKE i \in Input
  <2>1. (i # CONDUCTIMETER) \in BOOLEAN
    OBVIOUS
  <2>2. FirstEntry(i) \in Entry
    BY <2>1 DEF FirstEntry, Entry, GPIO_LOW_LEVEL, GPIO_HIGH_LEVEL
  <2> DEFINE x == FirstEntry(i).enable /\ i \in present
  <2>3. x \in BOOLEAN
    OBVIOUS
  <2> HIDE DEF x
  <2>4. [FirstEntry(i) EXCEPT !.enable = x] \in Entry
    BY <2>2, <2>3 DEF Entry
  <2> QED
    BY <2>4 DEF x
<1>2. row \in [Input -> Entry]
  BY <1>1 DEF Init
<1>3. present \in Configurations /\ at \in Input \cup {Between} /\ running \subseteq Timed
      /\ daemon \in Timed \cup {NONE} /\ lost \subseteq Timed \cup Output
      /\ outvalue \in [Output -> BOOLEAN] /\ pin \in [Pin -> BOOLEAN]
  BY DEF Init
<1>4. /\ todo \in Seq(Command) /\ (todo # <<>> => at \in Input)
      /\ outq \in Seq(OutputCommand) /\ Len(outq) <= OutputQueue
      /\ hand \in Seq(OutputCommand) /\ Len(hand) <= 1
      /\ timerq \in Seq(TimerMessage) /\ Len(timerq) <= TimerQueue
  BY ControlLoopAssumption DEF Init
<1> QED
  BY <1>2, <1>3, <1>4 DEF TypeOK

\* Sent leaves the rest of the commands, or goes on to the next input.
LEMMA SentForm ==
  ASSUME TypeOK, Enabled, TimerLast(todo), todo # <<>>, Sent
  PROVE  /\ todo' \in Seq(Command) /\ (todo' # <<>> => at' \in Input)
         /\ at' \in Input \cup {Between} /\ TimerLast(todo')
         /\ \/ at' = Between
            \/ at' = at
            \/ at' \in Input /\ row[at'].enable
<1>1. /\ todo \in Seq(Command) /\ row \in [Input -> Entry] /\ at \in Input
      /\ todo' = Tail(todo)
      /\ at' = IF Tail(todo) = <<>> THEN NextRow(at, row) ELSE at
  BY DEF TypeOK, Sent
<1>2. /\ Tail(todo) \in Seq(Command) /\ Len(Tail(todo)) = Len(todo) - 1
      /\ Len(todo) \in Nat
      /\ \A k \in 1 .. Len(Tail(todo)) : Tail(todo)[k] = todo[k + 1]
  BY <1>1
<1>3. TimerLast(Tail(todo))
  <2>1. ASSUME NEW k \in 1 .. Len(Tail(todo)), Tail(todo)[k].id \in Input
        PROVE  k = Len(Tail(todo))
    <3>1. k + 1 \in 1 .. Len(todo) /\ todo[k + 1].id \in Input
      BY <1>2, <2>1
    <3>2. k + 1 = Len(todo)
      BY <3>1 DEF TimerLast
    <3> DEFINE n == Len(todo)
               m == Len(Tail(todo))
    <3>3. n \in Nat /\ m = n - 1 /\ k \in 1 .. m /\ k + 1 = n
      BY <1>2, <2>1, <3>2
    <3> HIDE DEF n, m
    <3>4. k = m
      BY <3>3
    <3> QED
      BY <3>4 DEF m
  <2> QED
    BY <2>1 DEF TimerLast
<1>4. \/ NextRow(at, row) = Between
      \/ NextRow(at, row) \in Input /\ row[NextRow(at, row)].enable
  BY <1>1, NextRowForm
<1> QED
  BY <1>1, <1>2, <1>3, <1>4

\* The part of the invariant that is about types and the order of commands.
Shape == TypeOK /\ Enabled /\ TimerLast(todo)

LEMMA ShapeInit == Init => Shape
<1> SUFFICES ASSUME Init PROVE Shape
  OBVIOUS
<1>1. Enabled
  BY Signals DEF Init, Enabled, FirstEntry
<1>2. TimerLast(todo)
  BY DEF Init, TimerLast
<1> QED
  BY <1>1, <1>2, TypeInit DEF Shape

LEMMA PassShape ==
  ASSUME Shape, NEW r \in [Input -> Entry], todo = <<>>,
         \A i \in Input : r[i].enable => row[i].enable,
         Pass(r)
  PROVE  Shape'
<1>1. /\ row' = r /\ at' = NextRow(-1, r) /\ todo' = <<>>
      /\ UNCHANGED <<present, outq, hand, outvalue, pin, timerq, running, daemon, lost>>
  BY DEF Pass, output, timers
<1>2. NextRow(-1, r) = Between \/ (NextRow(-1, r) \in Input /\ r[NextRow(-1, r)].enable)
  BY NextRowForm
<1>3. at' \in Input \cup {Between}
  BY <1>1, <1>2
<1>4. TypeOK'
  BY <1>1, <1>3 DEF Shape, TypeOK
<1>5. Enabled'
  BY <1>1, <1>2, Signals DEF Shape, Enabled
<1>6. TimerLast(todo')
  BY <1>1 DEF TimerLast
<1> QED
  BY <1>4, <1>5, <1>6 DEF Shape

LEMMA BetweenEmpty ==
  ASSUME TypeOK, at = Between
  PROVE  todo = <<>>
  BY Signals DEF TypeOK

LEMMA ReceiveForm ==
  ASSUME Shape, Receive
  PROVE  /\ todo = <<>>
         /\ \E r \in [Input -> Entry] :
              /\ Pass(r)
              /\ \A i \in Input : /\ r[i].enable = row[i].enable
                                  /\ r[i].alarm = row[i].alarm
                                  /\ r[i].output = row[i].output
                                  /\ r[i].timer = row[i].timer
<1>1. row \in [Input -> Entry]
  BY DEF Shape, TypeOK
<1>2. todo = <<>>
  BY BetweenEmpty DEF Receive, ReceiveOther, ReceiveAnalog, ReceiveDigital, Shape
<1> DEFINE Like(r) == \A i \in Input : /\ r[i].enable = row[i].enable
                                       /\ r[i].alarm = row[i].alarm
                                       /\ r[i].output = row[i].output
                                       /\ r[i].timer = row[i].timer
<1> SUFFICES \E r \in [Input -> Entry] : Pass(r) /\ Like(r)
  BY <1>2
<1>3. CASE ReceiveOther
  BY <1>1, <1>3 DEF ReceiveOther
<1>4. ASSUME NEW t \in Temperatures, ReceiveAnalog(t)
      PROVE  \E r \in [Input -> Entry] : Pass(r) /\ Like(r)
  <2> DEFINE r == [row EXCEPT ![TERMOCUPLE].value = t]
  <2>1. t \in Int
    BY ControlLoopAssumption
  <2>2. r \in [Input -> Entry] /\ Like(r)
    BY <1>1, <2>1 DEF Entry
  <2>3. Pass(r)
    BY <1>4 DEF ReceiveAnalog
  <2> HIDE DEF r
  <2> QED
    BY <2>2, <2>3
<1>5. ASSUME NEW i \in Digital, NEW level \in {GPIO_LOW_LEVEL, GPIO_HIGH_LEVEL},
             ReceiveDigital(i, level)
      PROVE  \E r \in [Input -> Entry] : Pass(r) /\ Like(r)
  <2> DEFINE r == [row EXCEPT ![i].status = level, ![i].value = level]
             half == [row EXCEPT ![i].status = level]
  <2>1. level \in Int
    BY DEF GPIO_LOW_LEVEL, GPIO_HIGH_LEVEL
  <2>2. half \in [Input -> Entry] /\ Like(half)
    BY <1>1 DEF Entry
  <2>3. r = [half EXCEPT ![i].value = level]
    BY <1>1
  <2>4. Pass(r)
    BY <1>5 DEF ReceiveDigital
  <2> HIDE DEF r, half
  <2>5. r \in [Input -> Entry]
    BY <2>1, <2>2, <2>3 DEF Entry
  <2>6. Like(r)
    BY <2>1, <2>2, <2>3 DEF Entry
  <2> QED
    BY <2>4, <2>5, <2>6
<1> QED
  BY <1>3, <1>4, <1>5 DEF Receive

LEMMA ControlShape ==
  ASSUME Shape, NEW r, NEW f, Control(r, f), Controlled(r, f), at \in Input
  PROVE  Shape'
<1> DEFINE s == Commands(at, r[at], f)
           table == [r EXCEPT ![at] = f]
<1>1. /\ row' = table /\ todo' = s
      /\ at' = (IF s = <<>> THEN NextRow(at, table) ELSE at)
      /\ UNCHANGED <<present, outq, hand, outvalue, pin, timerq, running, daemon, lost>>
  BY DEF Control, output, timers
<1>2. r \in [Input -> Entry] /\ f \in Entry /\ r[at] \in Entry
  BY DEF Controlled
<1>3. table \in [Input -> Entry] /\ \A i \in Input : table[i].enable => i \in present
  BY <1>2 DEF Controlled
<1>4. s \in Seq(Command) /\ TimerLast(s)
  BY <1>2, CommandsForm
<1> HIDE DEF s, table
<1>5. NextRow(at, table) = Between
        \/ (NextRow(at, table) \in Input /\ table[NextRow(at, table)].enable)
  BY <1>3, NextRowForm
<1>6. /\ at' \in Input \cup {Between} /\ (todo' # <<>> => at' \in Input)
      /\ at' \in Input => at' \in present
  BY <1>1, <1>3, <1>5, Signals DEF Shape, Enabled
<1>7. TypeOK'
  BY <1>1, <1>3, <1>4, <1>6 DEF Shape, TypeOK
<1>8. Enabled'
  BY <1>1, <1>3, <1>6 DEF Enabled
<1>9. TimerLast(todo')
  BY <1>1, <1>4
<1> QED
  BY <1>7, <1>8, <1>9 DEF Shape

\* Sending keeps the shape of what is left.
LEMMA SentShape ==
  ASSUME Shape, todo # <<>>, Sent, row' = row, present' = present
  PROVE  /\ present' \in Configurations /\ row' \in [Input -> Entry]
         /\ at' \in Input \cup {Between}
         /\ todo' \in Seq(Command) /\ (todo' # <<>> => at' \in Input)
         /\ Enabled' /\ TimerLast(todo')
<1>1. /\ todo' \in Seq(Command) /\ (todo' # <<>> => at' \in Input)
      /\ at' \in Input \cup {Between} /\ TimerLast(todo')
      /\ at' = Between \/ at' = at \/ (at' \in Input /\ row[at'].enable)
  BY SentForm DEF Shape
<1>2. Enabled'
  BY <1>1, Signals DEF Shape, Enabled
<1> QED
  BY <1>1, <1>2 DEF Shape, TypeOK

LEMMA QueueAppend ==
  ASSUME NEW S, NEW s \in Seq(S), NEW c \in S
  PROVE  Append(s, c) \in Seq(S) /\ Len(Append(s, c)) = Len(s) + 1 /\ Len(s) \in Nat
  OBVIOUS

LEMMA QueueTail ==
  ASSUME NEW S, NEW s \in Seq(S), s # <<>>
  PROVE  /\ Tail(s) \in Seq(S) /\ Len(Tail(s)) = Len(s) - 1 /\ Len(s) \in Nat
         /\ Head(s) \in S
  OBVIOUS

LEMMA SendShape ==
  ASSUME Shape, SendOutput \/ SendTimer \/ SendTimeout
  PROVE  Shape'
<1>1. todo # <<>> /\ todo \in Seq(Command) /\ Head(todo) \in Command
  BY QueueTail DEF Shape, TypeOK, SendOutput, SendTimer, SendTimeout, ToOutput, ToTimer
<1>2. Sent /\ row' = row /\ present' = present
  BY DEF SendOutput, SendTimer, SendTimeout
<1>3. /\ present' \in Configurations /\ row' \in [Input -> Entry]
      /\ at' \in Input \cup {Between}
      /\ todo' \in Seq(Command) /\ (todo' # <<>> => at' \in Input)
      /\ Enabled' /\ TimerLast(todo')
  BY <1>1, <1>2, SentShape
<1>4. /\ outq' \in Seq(OutputCommand) /\ Len(outq') <= OutputQueue
      /\ timerq' \in Seq(TimerMessage) /\ Len(timerq') <= TimerQueue
      /\ lost' \subseteq Timed \cup Output
      /\ UNCHANGED <<hand, outvalue, pin, running, daemon>>
  <2>1. CASE SendOutput
    <3>1. Head(todo) \in OutputCommand
      BY <1>1, <2>1 DEF SendOutput, ToOutput, Command, OutputCommand
    <3>2. outq' = Append(outq, Head(todo)) /\ Len(outq) < OutputQueue
          /\ UNCHANGED <<hand, outvalue, pin, timerq, running, daemon, lost>>
      BY <2>1 DEF SendOutput, output, timers
    <3> QED
      BY <3>1, <3>2, QueueAppend, ControlLoopAssumption DEF Shape, TypeOK
  <2>2. CASE SendTimer
    <3>1. Head(todo) \in TimerMessage
      BY <1>1, <2>2, Signals DEF SendTimer, ToTimer, Command, TimerMessage
    <3>2. timerq' = Append(timerq, Head(todo)) /\ Len(timerq) < TimerQueue
          /\ UNCHANGED <<hand, outvalue, pin, outq, running, daemon, lost>>
      BY <2>2 DEF SendTimer, output
    <3> QED
      BY <3>1, <3>2, QueueAppend, ControlLoopAssumption DEF Shape, TypeOK
  <2>3. CASE SendTimeout
    <3>1. Head(todo).id \in Timed \cup Output
      BY <1>1 DEF Command
    <3>2. lost' = lost \cup {Head(todo).id}
          /\ UNCHANGED <<hand, outvalue, pin, outq, timerq, running, daemon>>
      BY <2>3 DEF SendTimeout, output, timers
    <3> QED
      BY <3>1, <3>2 DEF Shape, TypeOK
  <2> QED
    BY <2>1, <2>2, <2>3
<1>5. TypeOK'
  BY <1>3, <1>4 DEF Shape, TypeOK
<1> QED
  BY <1>3, <1>5 DEF Shape

\* The daemon and the output task leave the pass alone.
LEMMA OtherShape ==
  ASSUME Shape, UNCHANGED <<present, at, todo>>, row' \in [Input -> Entry],
         \A i \in Input : row'[i].enable = row[i].enable,
         outq' \in Seq(OutputCommand), Len(outq') <= OutputQueue,
         hand' \in Seq(OutputCommand), Len(hand') <= 1,
         outvalue' \in [Output -> BOOLEAN], pin' \in [Pin -> BOOLEAN],
         timerq' \in Seq(TimerMessage), Len(timerq') <= TimerQueue,
         running' \subseteq Timed, daemon' \in Timed \cup {NONE},
         lost' \subseteq Timed \cup Output
  PROVE  Shape'
<1>1. TypeOK'
  BY DEF Shape, TypeOK
<1>2. Enabled'
  BY DEF Shape, Enabled
<1>3. TimerLast(todo')
  BY DEF Shape
<1> QED
  BY <1>1, <1>2, <1>3 DEF Shape

LEMMA DaemonShape ==
  ASSUME Shape,
         TimerCommand \/ (\E i \in Timed : Expire(i)) \/ Raise \/ RaiseTimeout
  PROVE  Shape'
<1>1. CASE TimerCommand
  <2>1. /\ timerq # <<>> /\ timerq' = Tail(timerq)
        /\ running' = (IF Head(timerq).set THEN running \cup {Head(timerq).id}
                       ELSE running \ {Head(timerq).id})
        /\ UNCHANGED <<present, row, at, todo, outq, hand, outvalue, pin, daemon, lost>>
    BY <1>1 DEF TimerCommand, input, output
  <2>2. /\ timerq' \in Seq(TimerMessage) /\ Len(timerq') <= TimerQueue
        /\ Head(timerq) \in TimerMessage
    BY <2>1, QueueTail, ControlLoopAssumption DEF Shape, TypeOK
  <2>3. running' \subseteq Timed
    BY <2>1, <2>2 DEF Shape, TypeOK, TimerMessage
  <2> QED
    BY <2>1, <2>2, <2>3, OtherShape DEF Shape, TypeOK
<1>2. ASSUME NEW i \in Timed, Expire(i)
      PROVE  Shape'
  <2>1. /\ row' = [row EXCEPT ![i].alarm = TRUE] /\ daemon' = i
        /\ running' = running \ {i}
        /\ UNCHANGED <<present, at, todo, outq, hand, outvalue, pin, timerq, lost>>
    BY <1>2 DEF Expire, input, output
  <2>2. row' \in [Input -> Entry] /\ \A k \in Input : row'[k].enable = row[k].enable
    BY <2>1 DEF Shape, TypeOK, Entry
  <2> QED
    BY <2>1, <2>2, OtherShape DEF Shape, TypeOK
<1>3. CASE Raise
  <2>1. /\ daemon \in Timed /\ daemon' = NONE /\ Len(outq) < OutputQueue
        /\ outq' = Append(outq, [id |-> Alarm(daemon), set |-> TRUE])
        /\ UNCHANGED <<present, row, at, todo, hand, outvalue, pin, timerq, running, lost>>
    BY <1>3 DEF Raise, Shape, TypeOK, input, output
  <2>2. [id |-> Alarm(daemon), set |-> TRUE] \in OutputCommand
    BY <2>1, Signals DEF OutputCommand
  <2>3. outq' \in Seq(OutputCommand) /\ Len(outq') <= OutputQueue
    BY <2>1, <2>2, QueueAppend, ControlLoopAssumption DEF Shape, TypeOK
  <2> QED
    BY <2>1, <2>3, OtherShape DEF Shape, TypeOK
<1>4. CASE RaiseTimeout
  <2>1. /\ daemon \in Timed /\ daemon' = NONE /\ lost' = lost \cup {Alarm(daemon)}
        /\ UNCHANGED <<present, row, at, todo, outq, hand, outvalue, pin, timerq, running>>
    BY <1>4 DEF RaiseTimeout, Shape, TypeOK, input, output
  <2> QED
    BY <2>1, Signals, OtherShape DEF Shape, TypeOK
<1> QED
  BY <1>1, <1>2, <1>3, <1>4

LEMMA OutputShape ==
  ASSUME Shape, OutputTake \/ OutputSet
  PROVE  Shape'
<1>1. CASE OutputTake
  <2> DEFINE c == Head(outq)
  <2>1. /\ outq # <<>> /\ hand' = <<c>> /\ outq' = Tail(outq)
        /\ outvalue' = [outvalue EXCEPT ![c.id] = c.set]
        /\ UNCHANGED <<present, row, at, todo, pin, timerq, running, daemon, lost>>
    BY <1>1 DEF OutputTake, input, timers
  <2>2. outq' \in Seq(OutputCommand) /\ Len(outq') <= OutputQueue
        /\ c \in OutputCommand
    BY <2>1, QueueTail, ControlLoopAssumption DEF Shape, TypeOK
  <2>3. hand' \in Seq(OutputCommand) /\ Len(hand') <= 1
    BY <2>1, <2>2
  <2>4. outvalue' \in [Output -> BOOLEAN]
    BY <2>1, <2>2 DEF Shape, TypeOK, OutputCommand
  <2> QED
    BY <2>1, <2>2, <2>3, <2>4, OtherShape DEF Shape, TypeOK
<1>2. CASE OutputSet
  <2> DEFINE c == Head(hand)
  <2>1. /\ hand # <<>> /\ hand' = <<>>
        /\ pin' = SetLevel(GpioOf(c.id), c.set, pin)
        /\ UNCHANGED <<present, row, at, todo, outq, outvalue, timerq, running, daemon,
                       lost>>
    BY <1>2 DEF OutputSet, input, timers
  <2>2. c \in OutputCommand
    BY <2>1, QueueTail DEF Shape, TypeOK
  <2>3. c.set \in BOOLEAN
    BY <2>2 DEF OutputCommand
  <2>4. pin' \in [Pin -> BOOLEAN]
    <3>1. ASSUME NEW g, NEW v \in BOOLEAN
          PROVE  SetLevel(g, v, pin) \in [Pin -> BOOLEAN]
      BY DEF SetLevel, Shape, TypeOK
    <3> QED
      BY <2>1, <2>3, <3>1
  <2>5. hand' \in Seq(OutputCommand) /\ Len(hand') <= 1
    BY <2>1
  <2> QED
    BY <2>1, <2>4, <2>5, OtherShape DEF Shape, TypeOK
<1> QED
  BY <1>1, <1>2

\* The shape of the state is kept by every step.
LEMMA ShapeStep == Shape /\ [Next]_vars => Shape'
<1> SUFFICES ASSUME Shape, [Next]_vars PROVE Shape'
  OBVIOUS
<1>1. CASE Receive
  <2>1. PICK r \in [Input -> Entry] :
          Pass(r) /\ \A i \in Input : r[i].enable = row[i].enable
    BY <1>1, ReceiveForm
  <2> QED
    BY <1>1, <2>1, ReceiveForm, PassShape
<1>2. CASE ControlStep
  BY <1>2, ControlForm, ControlShape DEF Shape
<1>3. CASE SendOutput \/ SendTimer \/ SendTimeout
  BY <1>3, SendShape
<1>4. CASE TimerCommand \/ (\E i \in Timed : Expire(i)) \/ Raise \/ RaiseTimeout
  BY <1>4, DaemonShape
<1>5. CASE OutputTake \/ OutputSet
  BY <1>5, OutputShape
<1>6. CASE UNCHANGED vars
  <2>1. UNCHANGED <<present, row, at, todo, outq, hand, outvalue, pin, timerq, running,
                    daemon, lost>>
    BY <1>6 DEF vars, input, output, timers
  <2> QED
    BY <2>1 DEF Shape, TypeOK, Enabled
<1> QED
  BY <1>1, <1>2, <1>3, <1>4, <1>5, <1>6 DEF Next, InputStep

\* Every queue stays inside its length and every command is one the code can
\* send (stateInputs, actionsInputs, MGR_OUTPUT_QUEUE, the daemon's queue).
THEOREM ControlTypeCorrect == Spec => []TypeOK
<1>1. Shape => TypeOK
  BY DEF Shape
<1> QED
  BY <1>1, ShapeInit, ShapeStep, PTL DEF Spec
-----------------------------------------------------------------------------
(* Outputs, alarms and timers follow the table *)

\* The conductimeter, which no channel reads, never asks for its output.
Silent == row[CONDUCTIMETER].value = 0 /\ ~row[CONDUCTIMETER].output

LEMMA SilentStep == Shape /\ Silent /\ [Next]_vars => Silent'
<1> SUFFICES ASSUME Shape, Silent, [Next]_vars PROVE Silent'
  OBVIOUS
<1>1. /\ row \in [Input -> Entry] /\ TERMOCUPLE # CONDUCTIMETER
      /\ CONDUCTIMETER \in Input /\ CONDUCTIMETER \notin Digital
      /\ SL_MODE_FUNCTION # CONDUCTIMETER
  BY Tables DEF Shape, TypeOK, Digital, TERMOCUPLE, CONDUCTIMETER, WATER_LEVEL,
                SL_MODE_FUNCTION
<1>2. ASSUME row'[CONDUCTIMETER].value = row[CONDUCTIMETER].value,
             row'[CONDUCTIMETER].output = row[CONDUCTIMETER].output
      PROVE  Silent'
  BY <1>2 DEF Silent
<1>3. CASE Receive
  <2>1. CASE ReceiveOther
    BY <1>2, <2>1 DEF ReceiveOther, Pass
  <2>2. ASSUME NEW t \in Temperatures, ReceiveAnalog(t)
        PROVE  Silent'
    BY <1>1, <1>2, <2>2 DEF ReceiveAnalog, Pass
  <2>3. ASSUME NEW i \in Digital, NEW level \in {GPIO_LOW_LEVEL, GPIO_HIGH_LEVEL},
               ReceiveDigital(i, level)
        PROVE  Silent'
    BY <1>1, <1>2, <2>3 DEF ReceiveDigital, Pass
  <2> QED
    BY <1>3, <2>1, <2>2, <2>3 DEF Receive
<1>4. CASE ControlStep
  <2>1. ASSUME NEW f, at # CONDUCTIMETER, Control(row, f)
        PROVE  Silent'
    BY <1>1, <1>2, <2>1 DEF Control
  <2>2. CASE at = CONDUCTIMETER /\ Control(row, control_Conductimeter(row[at]))
    <3> DEFINE f == control_Conductimeter(row[at])
    <3>1. ~INP_SUP_COTA(CONDUCTIMETER, row[at])
      BY <2>2 DEF INP_SUP_COTA, smt_max, Silent, TERMOCUPLE, CONDUCTIMETER
    <3>2. row[at] \in Entry
      BY <1>1, <2>2
    <3>3. f.value = row[at].value /\ f.output = row[at].output
      BY <3>1, <3>2 DEF control_Conductimeter, Entry
    <3>4. row'[CONDUCTIMETER] = f
      BY <1>1, <2>2 DEF Control
    <3> HIDE DEF f
    <3> QED
      BY <1>2, <2>2, <3>3, <3>4
  <2>3. CASE at = SL_MODE_FUNCTION /\ Control(ModeChanged, control_ModeFunction(row[at]))
    <3>1. row'[CONDUCTIMETER] = ModeChanged[CONDUCTIMETER]
      BY <1>1, <2>3 DEF Control, ModeChanged
    <3>2. ModeChanged[CONDUCTIMETER].value = row[CONDUCTIMETER].value
          /\ ModeChanged[CONDUCTIMETER].output = row[CONDUCTIMETER].output
      BY <1>1, Tables DEF ModeChanged, Entry, AMPERIMETER, CONDUCTIMETER
    <3> QED
      BY <1>2, <3>1, <3>2
  <2>4. CASE at # CONDUCTIMETER /\ \E f : Control(row, f)
    BY <2>1, <2>4
  <2>5. CASE at \in {TERMOCUPLE, THERMISTOR, AMPERIMETER, WATER_LEVEL, SW_START_STOP,
                    SL_OBJECT_DETECT}
    <3>1. at # CONDUCTIMETER /\ at # SL_MODE_FUNCTION
      BY <2>5 DEF TERMOCUPLE, THERMISTOR, AMPERIMETER, CONDUCTIMETER, WATER_LEVEL,
         SW_START_STOP, SL_OBJECT_DETECT, SL_MODE_FUNCTION
    <3> QED
      BY <1>4, <2>4, <3>1 DEF ControlStep
  <2> QED
    BY <1>4, <2>2, <2>3, <2>5 DEF ControlStep
<1>5. ASSUME NEW i \in Timed, Expire(i)
      PROVE  Silent'
  BY <1>1, <1>2, <1>5 DEF Expire, Entry
<1>6. ASSUME row' = row
      PROVE  Silent'
  BY <1>2, <1>6
<1>7. CASE SendOutput \/ SendTimer \/ SendTimeout
  BY <1>6, <1>7 DEF SendOutput, SendTimer, SendTimeout
<1>8. CASE TimerCommand \/ Raise \/ RaiseTimeout \/ OutputTake \/ OutputSet
  BY <1>6, <1>8 DEF TimerCommand, Raise, RaiseTimeout, OutputTake, OutputSet
<1>9. CASE UNCHANGED vars
  BY <1>6, <1>9 DEF vars
<1> QED
  BY <1>3, <1>4, <1>5, <1>7, <1>8, <1>9 DEF Next, InputStep

LEMMA SilentInit == Init => Silent
  BY Tables DEF Init, Silent, FirstEntry, CONDUCTIMETER

\* Of two inputs with one output, one is the conductimeter.
LEMMA Owners ==
  ASSUME NEW i \in Input, NEW k \in Input, Out(i) = Out(k), Out(i) # NONE
  PROVE  i = k \/ i = CONDUCTIMETER \/ k = CONDUCTIMETER
BY Tables DEF CONDUCTIMETER

\* A step keeps each part when it keeps what the part compares.
LEMMA OutputKept ==
  ASSUME Shape, OutputFollowsStatus, present' = present, lost \subseteq lost',
         \A i \in Input : row'[i].output = row[i].output,
         \A o \in Output \ lost' :
           (\E i \in Input : Out(i) = o) => Settled(o)' = Settled(o)
  PROVE  OutputFollowsStatus'
<1> SUFFICES ASSUME NEW o \in Output \ lost', NEW i \in present, Out(i) = o
             PROVE  Settled(o)' <=> \E k \in present : Out(k) = o /\ row'[k].output
  BY DEF OutputFollowsStatus
<1>1. i \in Input /\ present \subseteq Input
  BY ControlLoopAssumption DEF Shape, TypeOK
<1>2. Settled(o) <=> \E k \in present : Out(k) = o /\ row[k].output
  BY DEF OutputFollowsStatus
<1>3. Settled(o)' = Settled(o)
  BY <1>1
<1> QED
  BY <1>1, <1>2, <1>3

LEMMA RaisedKept ==
  ASSUME RaisedAlarmShows, lost \subseteq lost', daemon' = daemon, SettledSame,
         \A i \in Timed : row'[i].alarm => row[i].alarm
  PROVE  RaisedAlarmShows'
<1> SUFFICES ASSUME NEW i \in Timed, row'[i].alarm, daemon' # i, Alarm(i) \notin lost'
             PROVE  Settled(Alarm(i))'
  BY DEF RaisedAlarmShows
<1>1. Alarm(i) \in Output \ lost'
  BY Signals
<1>2. Settled(Alarm(i))
  BY DEF RaisedAlarmShows
<1> QED
  BY <1>1, <1>2 DEF SettledSame

LEMMA StrayKept ==
  ASSUME NoStrayTimer, lost \subseteq lost',
         \A i \in Timed : row'[i].timer = row[i].timer,
         \A i \in Timed \ lost' : TimerSettled(i)' => TimerSettled(i)
  PROVE  NoStrayTimer'
  BY DEF NoStrayTimer

\* What the pass decides for one input.
LEMMA ControlFollows ==
  ASSUME Shape, Shape', Silent, Silent',
         OutputFollowsStatus, RaisedAlarmShows, NoStrayTimer,
         NEW r, NEW f, Control(r, f), Controlled(r, f), at \in Input, todo = <<>>
  PROVE  OutputFollowsStatus' /\ RaisedAlarmShows' /\ NoStrayTimer'
<1> DEFINE e == r[at]
<1>1. /\ row' = [r EXCEPT ![at] = f]
      /\ UNCHANGED <<present, lost, daemon>>
  BY DEF Control, timers
<1>2. /\ r \in [Input -> Entry] /\ f \in Entry /\ e \in Entry /\ at \in present
      /\ present \subseteq Input
  BY ControlLoopAssumption DEF Controlled, Shape, TypeOK, Enabled
<1>3. /\ todo' = Commands(at, e, f)
      /\ \A o \in Output : Settled(o)' = LastFor(o, todo', Settled(o))
      /\ \A i \in Timed : TimerSettled(i)' = LastFor(i, todo', TimerSettled(i))
  BY ControlEffect DEF Shape
<1>4. ASSUME NEW id, NEW d \in BOOLEAN
      PROVE  LastFor(id, todo', d) <=>
               IF id = at /\ at \in Timed /\ e.timer # f.timer THEN f.timer
               ELSE IF id = Out(at) /\ id # NONE /\ e.output # f.output THEN f.output
               ELSE IF id = Alarm(at) /\ id # NONE /\ e.alarm /\ ~f.alarm THEN FALSE
               ELSE d
  BY <1>2, <1>3, CommandsForm
<1>5. /\ \A o \in Output : Settled(o) \in BOOLEAN
      /\ \A i \in Timed : TimerSettled(i) \in BOOLEAN
  BY LastType DEF Settled, TimerSettled
<1>6. /\ row'[at] = f /\ \A i \in Input \ {at} : row'[i] = r[i]
      /\ \A i \in Input : /\ r[i].alarm = row[i].alarm /\ r[i].output = row[i].output
                          /\ r[i].timer = row[i].timer
      /\ f.alarm => e.alarm
  BY <1>1, <1>2 DEF Controlled
<1>7. /\ f.output \in BOOLEAN /\ e.output \in BOOLEAN /\ f.timer \in BOOLEAN
      /\ e.timer \in BOOLEAN
  BY <1>2 DEF Entry
<1> HIDE DEF e
<1>8. OutputFollowsStatus'
  <2> SUFFICES ASSUME NEW o \in Output \ lost, NEW i \in present, Out(i) = o
               PROVE  Settled(o)' <=> \E k \in present : Out(k) = o /\ row'[k].output
    BY <1>1 DEF OutputFollowsStatus
  <2>1. i \in Input /\ o # at /\ o # NONE
    BY <1>2, Signals
  <2>2. Settled(o)' = LastFor(o, todo', Settled(o))
    BY <1>3
  <2>3. ~(o = Alarm(at) /\ o # NONE)
    BY <1>2, <2>1, Signals
  <2>4. Settled(o)' <=> IF o = Out(at) /\ e.output # f.output THEN f.output
                        ELSE Settled(o)
    BY <1>4, <1>5, <2>1, <2>2, <2>3
  <2>5. row'[at].output = f.output /\ row[at].output = e.output
        /\ \A k \in present \ {at} : row'[k].output = row[k].output
    BY <1>2, <1>6 DEF e
  <2>6. CASE o = Out(at) /\ e.output # f.output
    <3>1. at # CONDUCTIMETER
      BY <1>7, <2>5, <2>6 DEF Silent
    <3>2. ASSUME NEW k \in present, Out(k) = o, row'[k].output
          PROVE  k = at
      <4>1. k = at \/ k = CONDUCTIMETER
        BY <1>2, <2>1, <2>6, <3>1, <3>2, Owners
      <4> QED
        BY <3>2, <4>1 DEF Silent
    <3>3. Settled(o)' <=> f.output
      BY <2>4, <2>6
    <3> QED
      BY <1>2, <2>5, <2>6, <3>2, <3>3
  <2>7. CASE ~(o = Out(at) /\ e.output # f.output)
    <3>1. \A k \in present : Out(k) = o => row'[k].output = row[k].output
      BY <1>2, <2>5, <2>7
    <3>2. Settled(o) <=> \E k \in present : Out(k) = o /\ row[k].output
      BY DEF OutputFollowsStatus
    <3> QED
      BY <2>4, <2>7, <3>1, <3>2
  <2> QED
    BY <2>6, <2>7
<1>9. RaisedAlarmShows'
  <2> SUFFICES ASSUME NEW i \in Timed, row'[i].alarm, daemon # i, Alarm(i) \notin lost
               PROVE  Settled(Alarm(i))'
    BY <1>1 DEF RaisedAlarmShows
  <2>1. i \in Input /\ Alarm(i) \in Output /\ Alarm(i) # at /\ Alarm(i) # NONE
        /\ Alarm(i) # Out(at)
    BY <1>2, Signals
  <2>2. row[i].alarm
    BY <1>6, <2>1 DEF e
  <2>3. Settled(Alarm(i))
    BY <2>2 DEF RaisedAlarmShows
  <2>4. ~(Alarm(i) = Alarm(at) /\ e.alarm /\ ~f.alarm)
    <3>1. CASE i = at
      BY <1>6, <3>1
    <3>2. CASE i # at
      BY <2>1, <3>2, Signals
    <3> QED
      BY <3>1, <3>2
  <2>5. LastFor(Alarm(i), todo', Settled(Alarm(i))) <=> Settled(Alarm(i))
    BY <1>4, <1>5, <2>1, <2>4
  <2> QED
    BY <1>3, <2>1, <2>3, <2>5
<1>10. NoStrayTimer'
  <2> SUFFICES ASSUME NEW i \in Timed, ~row'[i].timer, i \notin lost
               PROVE  ~TimerSettled(i)'
    BY <1>1 DEF NoStrayTimer
  <2>1. /\ i \in Input /\ i \notin Output /\ i # NONE
        /\ ~(i = Out(at) /\ i # NONE) /\ ~(i = Alarm(at) /\ i # NONE)
    BY <1>2, Signals
  <2>2. ~row[i].timer => ~TimerSettled(i)
    BY DEF NoStrayTimer
  <2>3. LastFor(i, todo', TimerSettled(i))
          <=> IF i = at /\ e.timer # f.timer THEN f.timer ELSE TimerSettled(i)
    BY <1>4, <1>5, <2>1
  <2>4. CASE i = at
    <3>1. row[i].timer = e.timer /\ row'[i].timer = f.timer
      BY <1>6, <2>1, <2>4 DEF e
    <3> QED
      BY <1>3, <1>7, <2>2, <2>3, <2>4, <3>1
  <2>5. CASE i # at
    <3>1. row'[i].timer = row[i].timer
      BY <1>6, <2>1, <2>5
    <3> QED
      BY <1>3, <2>2, <2>3, <2>5, <3>1
  <2> QED
    BY <2>4, <2>5
<1> QED
  BY <1>8, <1>9, <1>10

Follows == OutputFollowsStatus /\ RaisedAlarmShows /\ NoStrayTimer

\* A step that moves commands along and leaves the table as it is.
LEMMA MoveFollows ==
  ASSUME Shape, Follows, SettledSame, TimerSame, present' = present, row' = row,
         daemon' = daemon, lost \subseteq lost'
  PROVE  Follows'
<1>2. OutputFollowsStatus'
  BY OutputKept DEF Follows, SettledSame
<1>3. RaisedAlarmShows'
  BY RaisedKept DEF Follows
<1>4. NoStrayTimer'
  BY StrayKept DEF Follows, TimerSame
<1> QED
  BY <1>2, <1>3, <1>4 DEF Follows

LEMMA ReceiveFollows ==
  ASSUME Shape, Follows, Receive
  PROVE  Follows'
<1>1. PICK r \in [Input -> Entry] :
        /\ Pass(r)
        /\ \A i \in Input : /\ r[i].alarm = row[i].alarm
                            /\ r[i].output = row[i].output
                            /\ r[i].timer = row[i].timer
  BY ReceiveForm
<1>2. /\ row' = r /\ UNCHANGED <<present, todo, outq, hand, outvalue, timerq, running,
                                 daemon, lost>>
  BY <1>1 DEF Pass, output, timers
<1>3. SettledSame /\ TimerSame
  BY <1>2, SettledUnchanged, TimerUnchanged
<1>4. \A o \in Output : Settled(o)' = Settled(o)
  BY <1>2 DEF Settled
<1>5. OutputFollowsStatus'
  BY <1>1, <1>2, <1>4, OutputKept DEF Follows
<1>6. RaisedAlarmShows'
  BY <1>1, <1>2, <1>3, RaisedKept, Signals DEF Follows
<1>7. NoStrayTimer'
  BY <1>1, <1>2, <1>3, StrayKept, Signals DEF Follows, TimerSame
<1> QED
  BY <1>5, <1>6, <1>7 DEF Follows

LEMMA ExpireFollows ==
  ASSUME Shape, Shape', Follows, NEW i \in Timed, Expire(i)
  PROVE  Follows'
<1>1. /\ row' = [row EXCEPT ![i].alarm = TRUE] /\ daemon = NONE /\ daemon' = i
      /\ UNCHANGED <<present, todo, outq, hand, outvalue, timerq, lost>>
      /\ row \in [Input -> Entry]
  BY DEF Expire, input, output, Shape, TypeOK
<1>2. SettledSame /\ \A k \in Timed : TimerSettled(k)' => TimerSettled(k)
  BY ExpireEffect DEF Shape
<1>3. /\ \A k \in Input : row'[k].output = row[k].output /\ row'[k].timer = row[k].timer
      /\ \A k \in Input \ {i} : row'[k].alarm = row[k].alarm
  BY <1>1 DEF Entry
<1>4. \A o \in Output : Settled(o)' = Settled(o)
  BY <1>1 DEF Settled
<1>5. OutputFollowsStatus'
  BY <1>1, <1>3, <1>4, OutputKept DEF Follows
<1>6. RaisedAlarmShows'
  <2> SUFFICES ASSUME NEW k \in Timed, row'[k].alarm, k # i, Alarm(k) \notin lost
               PROVE  Settled(Alarm(k))'
    BY <1>1 DEF RaisedAlarmShows
  <2>1. k \in Input /\ k # NONE /\ Alarm(k) \in Output
    BY Signals
  <2>2. row[k].alarm
    BY <1>3, <2>1
  <2>3. Settled(Alarm(k))
    BY <1>1, <2>1, <2>2 DEF Follows, RaisedAlarmShows
  <2> QED
    BY <1>1, <1>2, <2>1, <2>3 DEF SettledSame
<1>7. NoStrayTimer'
  BY <1>1, <1>2, <1>3, StrayKept, Signals DEF Follows
<1> QED
  BY <1>5, <1>6, <1>7 DEF Follows

LEMMA RaiseFollows ==
  ASSUME Shape, Shape', Follows, Raise
  PROVE  Follows'
<1>1. /\ daemon \in Timed /\ daemon' = NONE
      /\ UNCHANGED <<present, row, todo, hand, outvalue, timerq, running, lost>>
  BY DEF Raise, input, output, Shape, TypeOK
<1>2. /\ \A o \in Output : o = Alarm(daemon) => Settled(o)'
      /\ \A o \in Output \ {Alarm(daemon)} : Settled(o)' = Settled(o)
      /\ TimerSame
  BY RaiseEffect DEF Shape
<1>3. \A o \in Output : (\E k \in Input : Out(k) = o) => Settled(o)' = Settled(o)
  BY <1>1, <1>2, Signals
<1>4. OutputFollowsStatus'
  BY <1>1, <1>3, OutputKept DEF Follows
<1>5. RaisedAlarmShows'
  <2> SUFFICES ASSUME NEW k \in Timed, row[k].alarm, Alarm(k) \notin lost
               PROVE  Settled(Alarm(k))'
    BY <1>1 DEF RaisedAlarmShows
  <2>1. k \in Input /\ Alarm(k) \in Output /\ daemon \in Input
    BY <1>1, Signals
  <2>2. CASE k = daemon
    <3>1. Alarm(k) = Alarm(daemon)
      BY <2>2
    <3>2. ASSUME NEW o \in Output, o = Alarm(k)
          PROVE  Settled(o)'
      BY <1>2, <3>1, <3>2
    <3> QED
      BY <2>1, <3>2
  <2>3. CASE k # daemon
    <3>1. Settled(Alarm(k))
      BY <2>3 DEF Follows, RaisedAlarmShows
    <3>2. Alarm(k) # Alarm(daemon)
      BY <2>1, <2>3, Signals
    <3> QED
      BY <1>2, <2>1, <3>1, <3>2
  <2> QED
    BY <2>2, <2>3
<1>6. NoStrayTimer'
  BY <1>1, <1>2, StrayKept DEF Follows, TimerSame
<1> QED
  BY <1>4, <1>5, <1>6 DEF Follows

LEMMA RaiseTimeoutFollows ==
  ASSUME Shape, Follows, RaiseTimeout
  PROVE  Follows'
<1>1. /\ daemon \in Timed /\ daemon' = NONE /\ lost' = lost \cup {Alarm(daemon)}
      /\ UNCHANGED <<present, row, todo, outq, hand, outvalue, timerq, running>>
  BY DEF RaiseTimeout, input, output, Shape, TypeOK
<1>2. SettledSame /\ TimerSame
  BY <1>1, SettledUnchanged, TimerUnchanged
<1>3. \A o \in Output : Settled(o)' = Settled(o)
  BY <1>1 DEF Settled
<1>4. OutputFollowsStatus'
  BY <1>1, <1>3, OutputKept DEF Follows
<1>5. RaisedAlarmShows'
  <2> SUFFICES ASSUME NEW k \in Timed, row[k].alarm, Alarm(k) \notin lost'
               PROVE  Settled(Alarm(k))'
    BY <1>1 DEF RaisedAlarmShows
  <2>1. k # daemon /\ Alarm(k) \notin lost /\ Alarm(k) \in Output
    BY <1>1, Signals
  <2>2. Settled(Alarm(k))
    BY <2>1 DEF Follows, RaisedAlarmShows
  <2> QED
    BY <1>2, <2>1, <2>2 DEF SettledSame
<1>6. NoStrayTimer'
  BY <1>1, <1>2, StrayKept DEF Follows, TimerSame
<1> QED
  BY <1>4, <1>5, <1>6 DEF Follows

LEMMA FollowsStep ==
  Shape /\ Shape' /\ Silent /\ Silent' /\ Follows /\ [Next]_vars => Follows'
<1> SUFFICES ASSUME Shape, Shape', Silent, Silent', Follows, [Next]_vars
             PROVE  Follows'
  OBVIOUS
<1>1. CASE Receive
  BY <1>1, ReceiveFollows
<1>2. CASE ControlStep
  BY <1>2, ControlForm, ControlFollows DEF Shape, Follows
<1>3. CASE SendOutput
  BY <1>3, SendOutputEffect, MoveFollows DEF Shape, SendOutput, timers
<1>4. CASE SendTimer
  BY <1>4, SendTimerEffect, MoveFollows DEF Shape, SendTimer
<1>5. CASE SendTimeout
  <2>1. lost \subseteq lost' /\ UNCHANGED <<present, row, daemon>>
    BY <1>5 DEF SendTimeout, timers
  <2> QED
    BY <1>5, <2>1, SendTimeoutEffect, MoveFollows DEF Shape
<1>6. CASE TimerCommand
  BY <1>6, TimerCommandEffect, MoveFollows DEF Shape, TimerCommand
<1>7. CASE \E i \in Timed : Expire(i)
  BY <1>7, ExpireFollows
<1>8. CASE Raise
  BY <1>8, RaiseFollows
<1>9. CASE RaiseTimeout
  BY <1>9, RaiseTimeoutFollows
<1>10. CASE OutputTake
  BY <1>10, OutputTakeEffect, MoveFollows DEF Shape, OutputTake, timers
<1>11. CASE OutputSet
  BY <1>11, OutputSetEffect, MoveFollows DEF Shape, OutputSet, timers
<1>12. CASE UNCHANGED vars
  <2>1. UNCHANGED <<present, row, todo, outq, hand, outvalue, timerq, running, daemon,
                    lost>>
    BY <1>12 DEF vars, input, output, timers
  <2> QED
    BY <2>1, SettledUnchanged, TimerUnchanged, MoveFollows
<1> QED
  BY <1>1, <1>2, <1>3, <1>4, <1>5, <1>6, <1>7, <1>8, <1>9, <1>10, <1>11, <1>12
  DEF Next, InputStep

LEMMA FollowsInit == Init => Follows
<1> SUFFICES ASSUME Init PROVE Follows
  OBVIOUS
<1>1. Shape
  BY ShapeInit
<1>2. \A i \in Input : row[i].alarm = FALSE /\ row[i].output = FALSE
  BY DEF Init, FirstEntry
<1>3. ASSUME NEW o \in Output
      PROVE  ~Settled(o)
  <2>1. Settled(o) = LastFor(o, <<>>, FALSE)
    BY DEF Init, Settled
  <2> QED
    BY <2>1, LastEmpty
<1>4. ASSUME NEW i \in Timed
      PROVE  ~TimerSettled(i)
  <2> DEFINE a == i \in running
  <2>1. TimerSettled(i) = LastFor(i, <<>>, a) /\ a = FALSE
    BY DEF Init, TimerSettled
  <2> HIDE DEF a
  <2> QED
    BY <2>1, LastEmpty
<1>5. OutputFollowsStatus
  <2>1. present \subseteq Input
    BY <1>1, ControlLoopAssumption DEF Shape, TypeOK
  <2> QED
    BY <1>2, <1>3, <2>1 DEF OutputFollowsStatus
<1>6. RaisedAlarmShows
  BY <1>2, Signals DEF RaisedAlarmShows
<1>7. NoStrayTimer
  BY <1>4 DEF NoStrayTimer
<1> QED
  BY <1>5, <1>6, <1>7 DEF Follows
-----------------------------------------------------------------------------
(* Pins *)

\* The table already has the command that is underway to its pin.
HandSet == hand # <<>> => outvalue[Head(hand).id] = Head(hand).set

\* The command that is taken is underway to its own pin, and every other output
\* keeps the value its pin has, for none was underway before.
LEMMA PinsTake ==
  ASSUME Shape, PinsShowOutputs, OutputTake
  PROVE  HandSet' /\ PinsShowOutputs'
<1> DEFINE c == Head(outq)
           Shared == {SIGNAL_START, SIGNAL_STOP, SIGNAL_COMPLETE}
<1>1. /\ hand = <<>> /\ hand' = <<c>> /\ pin' = pin
      /\ outvalue' = [outvalue EXCEPT ![c.id] = c.set]
      /\ outvalue \in [Output -> BOOLEAN] /\ c \in OutputCommand
  BY QueueTail DEF OutputTake, Shape, TypeOK
<1>2. c.id \in Output
  BY <1>1 DEF OutputCommand
<1>3. \A o \in Output : outvalue'[o] = outvalue[o] \/ Underway(o)'
  BY <1>1 DEF Underway
<1>4. \A o \in Output : ~Underway(o)
  BY <1>1 DEF Underway
<1>5. HandSet'
  BY <1>1, <1>2 DEF HandSet
<1>6. \A o \in Output \ Shared : pin'[GpioOf(o)] = outvalue'[o] \/ Underway(o)'
  BY <1>1, <1>3, <1>4 DEF PinsShowOutputs
<1>7. SIGNAL_START \in Output /\ {SIGNAL_STOP, SIGNAL_COMPLETE} \subseteq Output
  BY Tables DEF SIGNAL_START, SIGNAL_STOP, SIGNAL_COMPLETE
<1>8. ~(pin'[LED_R] /\ pin'[LED_G])
  BY <1>1 DEF PinsShowOutputs
<1>9. pin'[LED_G] => outvalue'[SIGNAL_START] \/ Underway(SIGNAL_START)'
  <2>1. pin'[LED_G] => outvalue[SIGNAL_START]
    BY <1>1, <1>4, <1>7 DEF PinsShowOutputs
  <2> QED
    BY <1>3, <1>7, <2>1
<1>10. pin'[LED_R] => \E o \in {SIGNAL_STOP, SIGNAL_COMPLETE} :
                        outvalue'[o] \/ Underway(o)'
  <2>1. pin'[LED_R] => \E o \in {SIGNAL_STOP, SIGNAL_COMPLETE} : outvalue[o]
    BY <1>1, <1>4, <1>7 DEF PinsShowOutputs
  <2> QED
    BY <1>3, <1>7, <2>1
<1> QED
  BY <1>5, <1>6, <1>8, <1>9, <1>10 DEF PinsShowOutputs

LEMMA PinsSet ==
  ASSUME Shape, HandSet, PinsShowOutputs, OutputSet
  PROVE  PinsShowOutputs'
<1> DEFINE x == Head(hand).id
           v == Head(hand).set
           g == GpioOf(x)
           Shared == {SIGNAL_START, SIGNAL_STOP, SIGNAL_COMPLETE}
<1>1. /\ hand # <<>> /\ hand' = <<>> /\ outvalue' = outvalue /\ outvalue[x] = v
      /\ pin' = SetLevel(g, v, pin)
      /\ outvalue \in [Output -> BOOLEAN] /\ pin \in [Pin -> BOOLEAN]
  BY DEF OutputSet, HandSet, Shape, TypeOK
<1>2. Head(hand) \in OutputCommand
  BY QueueTail DEF OutputSet, Shape, TypeOK
<1>3. x \in Output /\ v \in BOOLEAN /\ \A o : Underway(o) <=> o = x
  BY <1>1, <1>2 DEF OutputCommand, Underway
<1> HIDE DEF x, v
<1>4. Shared = {15, 16, 17} /\ LED_R = 0 /\ LED_G = 1
  BY DEF SIGNAL_START, SIGNAL_STOP, SIGNAL_COMPLETE, LED_R, LED_G
<1>5. \A q \in Pin : /\ q = g => pin'[q] = v
                     /\ q # g /\ g \in {0, 1} /\ q \in {0, 1} => pin'[q] = FALSE
                     /\ q # g /\ ~(g \in {0, 1} /\ q \in {0, 1}) => pin'[q] = pin[q]
  <2> TAKE q \in Pin
  <2> DEFINE both == {g, q} \subseteq {LED_R, LED_G}
  <2>1. both <=> g \in {0, 1} /\ q \in {0, 1}
    BY <1>4
  <2> HIDE DEF both
  <2>2. pin'[q] = IF q = g THEN v ELSE pin[q] /\ ~both
    BY <1>1 DEF SetLevel, both
  <2> QED
    BY <1>1, <1>3, <2>1, <2>2
<1>6. outvalue[x] = v
  BY <1>1
<1>7. /\ g \in Pin
      /\ g = 1 <=> x = 15
      /\ g = 0 <=> x \in {16, 17}
      /\ \A o \in Output \ Shared : /\ GpioOf(o) \in Pin /\ GpioOf(o) \notin {0, 1}
                                    /\ o # x => GpioOf(o) # g
  BY <1>3, <1>4, Pins, Tables
<1> HIDE DEF g, Shared
<1>8. /\ \A o \in Output \ Shared : pin[GpioOf(o)] = outvalue[o] \/ o = x
      /\ ~(pin[0] /\ pin[1])
      /\ pin[1] => outvalue[15] \/ x = 15
      /\ pin[0] => outvalue[17] \/ outvalue[16] \/ x \in {16, 17}
  BY <1>3, <1>4 DEF PinsShowOutputs, Shared, SIGNAL_START, SIGNAL_STOP,
                    SIGNAL_COMPLETE
<1>9. ASSUME NEW o \in Output \ Shared
      PROVE  pin'[GpioOf(o)] = outvalue[o]
  <2>1. CASE o = x
    <3>1. GpioOf(o) = g
      BY <2>1 DEF g
    <3>2. o \in Output /\ GpioOf(o) \in Pin
      BY <1>7, <1>9
    <3>3. pin'[GpioOf(o)] = v /\ outvalue[o] = v
      BY <1>5, <1>6, <2>1, <3>1, <3>2, Zenon
    <3> QED
      BY <3>3
  <2>2. CASE o # x
    <3>1. GpioOf(o) \notin {0, 1} /\ GpioOf(o) # g /\ GpioOf(o) \in Pin
      BY <1>7, <1>9, <2>2
    <3>2. pin'[GpioOf(o)] = pin[GpioOf(o)]
      BY <1>5, <3>1, Zenon
    <3>3. pin[GpioOf(o)] = outvalue[o]
      BY <1>8, <1>9, <2>2
    <3> QED
      BY <3>2, <3>3
  <2> QED
    BY <2>1, <2>2
<1>10. 0 \in Pin /\ 1 \in Pin
  BY Pins
<1>11. /\ ~(pin'[0] /\ pin'[1])
       /\ pin'[1] => outvalue[15]
       /\ pin'[0] => outvalue[17] \/ outvalue[16]
  <2>1. CASE g = 0
    <3>1. g = 0 /\ 1 # g /\ g \in {0, 1} /\ 1 \in {0, 1}
      BY <2>1
    <3>2. pin'[1] = FALSE /\ pin'[0] = v
      BY <1>5, <1>10, <3>1, Zenon
    <3>3. v => outvalue[17] \/ outvalue[16]
      BY <1>6, <1>7, <2>1
    <3> QED
      BY <3>2, <3>3
  <2>2. CASE g = 1
    <3>1. g = 1 /\ 0 # g /\ g \in {0, 1} /\ 0 \in {0, 1}
      BY <2>2
    <3>2. pin'[0] = FALSE /\ pin'[1] = v
      BY <1>5, <1>10, <3>1, Zenon
    <3>3. v = outvalue[15]
      BY <1>6, <1>7, <2>2
    <3> QED
      BY <3>2, <3>3
  <2>3. CASE g \notin {0, 1}
    <3>1. 0 # g /\ 1 # g /\ g \notin {0, 1}
      BY <2>3
    <3>2. pin'[0] = pin[0] /\ pin'[1] = pin[1]
      BY <1>5, <1>10, <3>1, Zenon
    <3>3. x # 15 /\ x \notin {16, 17}
      BY <1>7, <2>3
    <3> QED
      BY <1>8, <3>2, <3>3
  <2> QED
    BY <2>1, <2>2, <2>3
<1>12. outvalue' = outvalue
  BY <1>1
<1> QED
  BY <1>4, <1>9, <1>11, <1>12
  DEF PinsShowOutputs, Shared, SIGNAL_START, SIGNAL_STOP, SIGNAL_COMPLETE

Shown == HandSet /\ PinsShowOutputs

LEMMA PinsStep == Shape /\ Shown /\ [Next]_vars => Shown'
<1> SUFFICES ASSUME Shape, Shown, [Next]_vars PROVE Shown'
  OBVIOUS
<1>1. CASE OutputSet
  <2>1. HandSet'
    BY <1>1 DEF OutputSet, HandSet
  <2> QED
    BY <1>1, <2>1, PinsSet DEF Shown
<1>2. ASSUME UNCHANGED output
      PROVE  Shown'
  BY <1>2 DEF Shown, HandSet, PinsShowOutputs, Underway, output
<1>3. CASE Receive
  <2>1. UNCHANGED output
    BY <1>3 DEF Receive, ReceiveOther, ReceiveAnalog, ReceiveDigital, Pass
  <2> QED
    BY <1>2, <2>1
<1>4. CASE InputStep
  <2>1. UNCHANGED output
    BY <1>4 DEF InputStep, ControlStep, Control, SendOutput, SendTimer, SendTimeout
  <2> QED
    BY <1>2, <2>1
<1>5. CASE TimerCommand \/ (\E i \in Timed : Expire(i)) \/ Raise \/ RaiseTimeout
  <2>1. UNCHANGED output
    BY <1>5 DEF TimerCommand, Expire, Raise, RaiseTimeout
  <2> QED
    BY <1>2, <2>1
<1>6. CASE OutputTake
  BY <1>6, PinsTake DEF Shown
<1>7. CASE UNCHANGED vars
  BY <1>2, <1>7 DEF vars
<1> QED
  BY <1>1, <1>3, <1>4, <1>5, <1>6, <1>7 DEF Next

LEMMA PinsInit == Init => Shown
<1> SUFFICES ASSUME Init PROVE Shown
  OBVIOUS
<1>1. \A o \in Output : GpioOf(o) \in Pin
  BY Pins, Tables
<1>2. LED_R \in Pin /\ LED_G \in Pin
  BY DEF Pin
<1>3. PinsShowOutputs
  BY <1>1, <1>2 DEF Init, PinsShowOutputs
<1>4. HandSet
  BY DEF Init, HandSet
<1> QED
  BY <1>3, <1>4 DEF Shown
-----------------------------------------------------------------------------
(* The channels *)

OutputWay(o) == CommandsFor(o, outq \o todo)
TimerWay(i) == CommandsFor(i, timerq \o todo)

\* v is w without one command.
OneLess(w, v) ==
  \E k \in 1 .. Len(w) : v = SubSeq(w, 1, k - 1) \o SubSeq(w, k + 1, Len(w))

\* What a step of a channel is, in the terms of ControlLoop.
LEMMA OutputChannelStep ==
  ASSUME NEW o,
         \/ /\ OutputWay(o)' = OutputWay(o) /\ outvalue'[o] = outvalue[o]
            /\ (o \in lost)' = (o \in lost)
         \/ /\ \E b \in BOOLEAN : OutputWay(o)' = Append(OutputWay(o), b)
            /\ outvalue'[o] = outvalue[o] /\ (o \in lost)' = (o \in lost)
         \/ /\ OutputWay(o) # <<>> /\ OutputWay(o)' = Tail(OutputWay(o))
            /\ outvalue'[o] = Head(OutputWay(o)) /\ (o \in lost)' = (o \in lost)
         \/ /\ \/ OutputWay(o)' = OutputWay(o)
               \/ OneLess(OutputWay(o), OutputWay(o)')
            /\ outvalue'[o] = outvalue[o] /\ o \in lost'
  PROVE  [OutputChannel(o)!Next]_(OutputChannel(o)!vars)
  BY DEF OutputChannel!Next, OutputChannel!Give, OutputChannel!Obey,
         OutputChannel!Lose, OutputChannel!Without, OutputChannel!vars,
         OutputWay, OneLess

LEMMA TimerChannelStep ==
  ASSUME NEW i,
         \/ /\ TimerWay(i)' = TimerWay(i) /\ (i \in running)' = (i \in running)
            /\ (i \in lost)' = (i \in lost)
         \/ /\ \E b \in BOOLEAN : TimerWay(i)' = Append(TimerWay(i), b)
            /\ (i \in running)' = (i \in running) /\ (i \in lost)' = (i \in lost)
         \/ /\ TimerWay(i) # <<>> /\ TimerWay(i)' = Tail(TimerWay(i))
            /\ (i \in running)' = Head(TimerWay(i)) /\ (i \in lost)' = (i \in lost)
         \/ /\ TimerWay(i)' = TimerWay(i) /\ (i \in running)' = FALSE
            /\ (i \in lost)' = (i \in lost)
         \/ /\ OneLess(TimerWay(i), TimerWay(i)')
            /\ (i \in running)' = (i \in running) /\ i \in lost'
  PROVE  [TimerChannel(i)!Next]_(TimerChannel(i)!vars)
  BY DEF TimerChannel!Next, TimerChannel!Give, TimerChannel!Obey,
         TimerChannel!End, TimerChannel!Lose, TimerChannel!Without,
         TimerChannel!vars, TimerWay, OneLess

\* What is on the way of an output, or of a timer: what has left the pass, and
\* then what it has still to send.
WayForm ==
  \A id \in Output \cup Timed :
    /\ OutputWay(id) = CommandsFor(id, outq) \o CommandsFor(id, todo)
    /\ TimerWay(id) = CommandsFor(id, timerq) \o CommandsFor(id, todo)
    /\ CommandsFor(id, outq) \in Seq(BOOLEAN)
    /\ CommandsFor(id, timerq) \in Seq(BOOLEAN)
    /\ CommandsFor(id, todo) \in Seq(BOOLEAN)

LEMMA Way == TypeOK => WayForm
<1> SUFFICES ASSUME TypeOK PROVE WayForm
  OBVIOUS
<1>1. outq \in Seq(Command) /\ todo \in Seq(Command) /\ timerq \in Seq(Command)
  BY Queues
<1> QED
  BY <1>1, CommandSets, CommandsConcat, CommandsType DEF WayForm, OutputWay, TimerWay

LEMMA WayNext == TypeOK' => WayForm'
  BY Way, PTL

\* A pass gives each output and each timer one command at most.
LEMMA CommandsOnce ==
  ASSUME NEW i \in Input, NEW e \in Entry, NEW f \in Entry,
         NEW id \in Output \cup Timed
  PROVE  \/ CommandsFor(id, Commands(i, e, f)) = <<>>
         \/ \E b \in BOOLEAN : CommandsFor(id, Commands(i, e, f)) = <<b>>
<1> DEFINE a == IF e.alarm /\ ~f.alarm /\ Alarm(i) # NONE
                THEN <<[id |-> Alarm(i), set |-> FALSE]>> ELSE <<>>
           b == IF e.output # f.output /\ Out(i) # NONE
                THEN <<[id |-> Out(i), set |-> f.output]>> ELSE <<>>
           c == IF e.timer # f.timer /\ i \in Timed
                THEN <<[id |-> i, set |-> f.timer]>> ELSE <<>>
<1>1. Commands(i, e, f) = (a \o b) \o c
  BY DEF Commands
<1>2. f.output \in BOOLEAN /\ f.timer \in BOOLEAN
  BY DEF Entry
<1>3. /\ Alarm(i) # NONE => Alarm(i) \in Output /\ Alarm(i) # Out(i)
      /\ Out(i) # NONE => Out(i) \in Output
      /\ i \notin Output /\ NONE \notin Output
  BY Signals
<1>4. OutputCommand \subseteq Command /\ TimerMessage \subseteq Command
  BY DEF OutputCommand, TimerMessage, Command
<1>5. /\ Alarm(i) # NONE => [id |-> Alarm(i), set |-> FALSE] \in Command
      /\ Out(i) # NONE => [id |-> Out(i), set |-> f.output] \in Command
      /\ i \in Timed => [id |-> i, set |-> f.timer] \in Command
  BY <1>2, <1>3 DEF Command
<1>6. a \in Seq(Command) /\ b \in Seq(Command) /\ c \in Seq(Command)
  BY <1>5
<1>7. ASSUME NEW k \in Command
      PROVE  CommandsFor(id, <<k>>) = IF k.id = id THEN <<k.set>> ELSE <<>>
  <2>1. <<k>> = Append(<<>>, k) /\ <<>> \in Seq(Command)
    OBVIOUS
  <2>2. CommandsFor(id, Append(<<>>, k))
          = IF k.id = id THEN Append(CommandsFor(id, <<>>), k.set)
            ELSE CommandsFor(id, <<>>)
    BY <2>1, CommandsAppend
  <2>3. Append(<<>>, k.set) = <<k.set>>
    OBVIOUS
  <2> QED
    BY <2>1, <2>2, <2>3, CommandsEmpty
<1>8. CommandsFor(id, a) = IF a # <<>> /\ id = Alarm(i) THEN <<FALSE>> ELSE <<>>
  <2>1. CASE e.alarm /\ ~f.alarm /\ Alarm(i) # NONE
    BY <1>5, <1>7, <2>1
  <2>2. CASE ~(e.alarm /\ ~f.alarm /\ Alarm(i) # NONE)
    BY <2>2, CommandsEmpty
  <2> QED
    BY <2>1, <2>2
<1>9. CommandsFor(id, b) = IF b # <<>> /\ id = Out(i) THEN <<f.output>> ELSE <<>>
  <2>1. CASE e.output # f.output /\ Out(i) # NONE
    BY <1>5, <1>7, <2>1
  <2>2. CASE ~(e.output # f.output /\ Out(i) # NONE)
    BY <2>2, CommandsEmpty
  <2> QED
    BY <2>1, <2>2
<1>10. CommandsFor(id, c) = IF c # <<>> /\ id = i THEN <<f.timer>> ELSE <<>>
  <2>1. CASE e.timer # f.timer /\ i \in Timed
    BY <1>5, <1>7, <2>1
  <2>2. CASE ~(e.timer # f.timer /\ i \in Timed)
    BY <2>2, CommandsEmpty
  <2> QED
    BY <2>1, <2>2
<1>11. a # <<>> => Alarm(i) # NONE
  OBVIOUS
<1>12. b # <<>> => Out(i) # NONE
  OBVIOUS
<1> HIDE DEF a, b, c
<1>13. CommandsFor(id, (a \o b) \o c)
         = (CommandsFor(id, a) \o CommandsFor(id, b)) \o CommandsFor(id, c)
  <2>1. a \o b \in Seq(Command)
    BY <1>6
  <2>2. CommandsFor(id, a \o b) = CommandsFor(id, a) \o CommandsFor(id, b)
    BY <1>6, CommandSets, CommandsConcat
  <2>3. CommandsFor(id, (a \o b) \o c)
          = CommandsFor(id, a \o b) \o CommandsFor(id, c)
    BY <1>6, <2>1, CommandSets, CommandsConcat
  <2> QED
    BY <2>2, <2>3
<1>14. /\ <<>> \o <<>> = <<>>
       /\ \A x \in BOOLEAN : <<x>> \o <<>> = <<x>> /\ <<>> \o <<x>> = <<x>>
  OBVIOUS
<1>15. CASE a # <<>> /\ id = Alarm(i)
  <2>1. id # i /\ id # Out(i)
    BY <1>3, <1>11, <1>15
  <2> QED
    BY <1>1, <1>8, <1>9, <1>10, <1>13, <1>14, <1>15, <2>1
<1>16. CASE ~(a # <<>> /\ id = Alarm(i)) /\ b # <<>> /\ id = Out(i)
  <2>1. id # i
    BY <1>3, <1>12, <1>16
  <2>2. CommandsFor(id, (a \o b) \o c) = <<f.output>>
    BY <1>2, <1>8, <1>9, <1>10, <1>13, <1>14, <1>16, <2>1
  <2> QED
    BY <1>1, <1>2, <2>2
<1>17. CASE ~(a # <<>> /\ id = Alarm(i)) /\ ~(b # <<>> /\ id = Out(i))
  <2>1. CommandsFor(id, (a \o b) \o c) = CommandsFor(id, c)
    BY <1>2, <1>8, <1>9, <1>10, <1>13, <1>14, <1>17
  <2> QED
    BY <1>1, <1>2, <1>10, <2>1
<1> QED
  BY <1>15, <1>16, <1>17

\* A channel does not move when what is on its way does not.
LEMMA OutputStays ==
  ASSUME UNCHANGED <<outq, todo, outvalue, lost>>, NEW o
  PROVE  [OutputChannel(o)!Next]_(OutputChannel(o)!vars)
<1>1. OutputWay(o)' = OutputWay(o)
  BY DEF OutputWay
<1> QED
  BY <1>1, OutputChannelStep

LEMMA TimerStays ==
  ASSUME UNCHANGED <<timerq, todo, running, lost>>, NEW i
  PROVE  [TimerChannel(i)!Next]_(TimerChannel(i)!vars)
<1>1. TimerWay(i)' = TimerWay(i)
  BY DEF TimerWay
<1> QED
  BY <1>1, TimerChannelStep

\* The commands a pass decides on: each channel is given one, or none.
LEMMA ControlGives ==
  ASSUME Shape, Shape', ControlStep
  PROVE  /\ UNCHANGED <<outvalue, running, lost>>
         /\ \A id \in Output \cup Timed :
              /\ \/ OutputWay(id)' = OutputWay(id)
                 \/ \E b \in BOOLEAN : OutputWay(id)' = Append(OutputWay(id), b)
              /\ \/ TimerWay(id)' = TimerWay(id)
                 \/ \E b \in BOOLEAN : TimerWay(id)' = Append(TimerWay(id), b)
<1>1. PICK r, f : Control(r, f) /\ Controlled(r, f)
  BY ControlForm DEF Shape
<1>2. at \in Input /\ todo = <<>> /\ r[at] \in Entry /\ f \in Entry
  BY <1>1, ControlForm DEF Shape, Controlled
<1>3. /\ todo' = Commands(at, r[at], f)
      /\ UNCHANGED <<outq, timerq, outvalue, running, lost>>
  BY <1>1 DEF Control, output, timers
<1> SUFFICES ASSUME NEW id \in Output \cup Timed
             PROVE  /\ \/ OutputWay(id)' = OutputWay(id)
                       \/ \E b \in BOOLEAN : OutputWay(id)' = Append(OutputWay(id), b)
                    /\ \/ TimerWay(id)' = TimerWay(id)
                       \/ \E b \in BOOLEAN : TimerWay(id)' = Append(TimerWay(id), b)
  BY <1>3
<1> DEFINE A == CommandsFor(id, outq)
           B == CommandsFor(id, timerq)
           G == CommandsFor(id, todo')
<1>4. /\ A \in Seq(BOOLEAN) /\ B \in Seq(BOOLEAN)
      /\ OutputWay(id) = A \o <<>> /\ TimerWay(id) = B \o <<>>
  <2>1. CommandsFor(id, todo) = <<>>
    BY <1>2, CommandsEmpty
  <2> QED
    BY <2>1, Way DEF WayForm, Shape
<1>5. OutputWay(id)' = A \o G /\ TimerWay(id)' = B \o G
  BY <1>3, WayNext DEF WayForm, Shape
<1>6. G = <<>> \/ \E b \in BOOLEAN : G = <<b>>
  BY <1>2, <1>3, CommandsOnce
<1> HIDE DEF A, B, G
<1>7. CASE G = <<>>
  BY <1>4, <1>5, <1>7
<1>8. ASSUME NEW b \in BOOLEAN, G = <<b>>
      PROVE  OutputWay(id)' = Append(OutputWay(id), b)
             /\ TimerWay(id)' = Append(TimerWay(id), b)
  <2>1. A \o <<b>> = Append(A, b) /\ B \o <<b>> = Append(B, b)
    BY <1>4, <1>8, JoinAppend
  <2>2. A \o <<>> = A /\ B \o <<>> = B
    BY <1>4, JoinEmpty
  <2> QED
    BY <1>4, <1>5, <1>8, <2>1, <2>2
<1> QED
  BY <1>6, <1>7, <1>8

\* The first command of the pass leaves it: what is left on the way of its
\* channel is the way without it, that of any other channel is as it was.
LEMMA HeadGone ==
  ASSUME TypeOK, todo # <<>>, NEW id \in Output \cup Timed,
         NEW s \in Seq(BOOLEAN), NEW w, w = s \o CommandsFor(id, todo),
         NEW v, v = s \o CommandsFor(id, Tail(todo))
  PROVE  \/ Head(todo).id # id /\ v = w
         \/ /\ Head(todo).id = id
            /\ OneLess(w, v)
<1> DEFINE u == CommandsFor(id, todo)
           t == CommandsFor(id, Tail(todo))
           e == Head(todo).set
<1>1. todo \in Seq(Command) /\ Head(todo) \in Command /\ Tail(todo) \in Seq(Command)
  BY Queues
<1>2. u = IF Head(todo).id = id THEN <<e>> \o t ELSE t
  BY <1>1, CommandSets, CommandsHead
<1>3. u \in Seq(BOOLEAN) /\ t \in Seq(BOOLEAN) /\ e \in BOOLEAN
  BY <1>1, CommandSets, CommandsType
<1>4. CASE Head(todo).id # id
  BY <1>2, <1>4
<1>5. CASE Head(todo).id = id
  <2> HIDE DEF u, t, e
  <2>1. u # <<>> /\ Tail(u) = t
    <3>1. \A x \in BOOLEAN, y \in Seq(BOOLEAN) :
            <<x>> \o y # <<>> /\ Tail(<<x>> \o y) = y
      OBVIOUS
    <3> QED
      BY <1>2, <1>3, <1>5, <3>1
  <2>2. w = s \o u /\ v = s \o t
    BY DEF u, t
  <2> DEFINE k == Len(s) + 1
  <2>3. k \in 1 .. Len(w)
        /\ SubSeq(w, 1, k - 1) \o SubSeq(w, k + 1, Len(w)) = s \o Tail(u)
    BY <1>3, <2>1, <2>2, CutOut
  <2> HIDE DEF k
  <2> QED
    BY <1>5, <2>1, <2>2, <2>3 DEF OneLess
<1> QED
  BY <1>4, <1>5

\* Every step is one of the channel of each output: the pass and the daemon
\* give, the output task obeys, and what a queue has no room for is lost.
LEMMA OutputOperated ==
  ASSUME Shape, Shape', [Next]_vars, NEW o \in Output
  PROVE  [OutputChannel(o)!Next]_(OutputChannel(o)!vars)
<1> DEFINE A == CommandsFor(o, outq)
           T == CommandsFor(o, todo)
<1>1. /\ A \in Seq(BOOLEAN) /\ T \in Seq(BOOLEAN) /\ OutputWay(o) = A \o T
      /\ OutputWay(o)' = A' \o T'
  BY Way, WayNext DEF WayForm, Shape
<1>2. /\ outq \in Seq(Command) /\ todo \in Seq(Command) /\ TypeOK
  BY Queues DEF Shape
<1> HIDE DEF A, T
<1>3. CASE Receive
  <2>1. UNCHANGED <<outq, outvalue, lost>>
    BY <1>3 DEF Receive, ReceiveOther, ReceiveAnalog, ReceiveDigital, Pass, output
  <2>2. todo' = todo
    BY <1>3 DEF Receive, ReceiveOther, ReceiveAnalog, ReceiveDigital, Pass
  <2> QED
    BY <2>1, <2>2, OutputStays
<1>4. CASE ControlStep
  BY <1>4, ControlGives, OutputChannelStep
<1>5. CASE SendOutput
  <2>1. /\ todo # <<>> /\ todo' = Tail(todo) /\ outq' = Append(outq, Head(todo))
        /\ UNCHANGED <<outvalue, lost>>
    BY <1>5 DEF SendOutput, ToOutput, Sent, output
  <2>2. Append(outq, Head(todo)) \o Tail(todo) = outq \o todo
    <3> DEFINE h == Head(todo)
               t == Tail(todo)
    <3>1. h \in Command /\ t \in Seq(Command) /\ todo = <<h>> \o t
      BY <1>2, <2>1
    <3> HIDE DEF h, t
    <3>2. Append(outq, h) \o t = outq \o (<<h>> \o t)
      BY <1>2, <3>1, JoinAppend
    <3> QED
      BY <3>1, <3>2 DEF h, t
  <2>3. OutputWay(o)' = OutputWay(o)
    BY <2>1, <2>2 DEF OutputWay
  <2> QED
    BY <2>1, <2>3, OutputChannelStep
<1>6. CASE SendTimer
  <2>1. /\ todo # <<>> /\ todo' = Tail(todo) /\ Head(todo).id \in Input
        /\ UNCHANGED <<outq, outvalue, lost>>
    BY <1>6 DEF SendTimer, ToTimer, Sent, output
  <2>2. Head(todo).id # o
    BY <2>1, Signals
  <2>3. OutputWay(o)' = A \o CommandsFor(o, Tail(todo))
    BY <1>1, <2>1 DEF A, T
  <2>4. OutputWay(o)' = OutputWay(o)
    BY <1>1, <1>2, <2>1, <2>2, <2>3, HeadGone DEF T
  <2> QED
    BY <2>1, <2>4, OutputChannelStep
<1>7. CASE SendTimeout
  <2>1. /\ todo # <<>> /\ todo' = Tail(todo) /\ lost' = lost \cup {Head(todo).id}
        /\ UNCHANGED <<outq, outvalue>>
    BY <1>7 DEF SendTimeout, ToOutput, ToTimer, Sent, output
  <2>2. OutputWay(o)' = A \o CommandsFor(o, Tail(todo))
    BY <1>1, <2>1 DEF A, T
  <2>3. \/ Head(todo).id # o /\ OutputWay(o)' = OutputWay(o)
        \/ /\ Head(todo).id = o
           /\ OneLess(OutputWay(o), OutputWay(o)')
    <3> DEFINE w == OutputWay(o)
               v == OutputWay(o)'
    <3>1. w = A \o CommandsFor(o, todo) /\ v = A \o CommandsFor(o, Tail(todo))
      BY <1>1, <2>2 DEF T
    <3> HIDE DEF w, v
    <3>2. \/ Head(todo).id # o /\ v = w
          \/ /\ Head(todo).id = o
             /\ OneLess(w, v)
      <4>1. A \in Seq(BOOLEAN) /\ o \in Output \cup Timed /\ todo # <<>> /\ TypeOK
        BY <1>1, <1>2, <2>1
      <4> QED
        BY <3>1, <4>1, HeadGone
    <3> QED
      BY <3>2 DEF w, v
  <2>4. CASE Head(todo).id # o
    <3>1. (o \in lost)' = (o \in lost)
      BY <2>1, <2>4
    <3> QED
      BY <2>1, <2>3, <2>4, <3>1, OutputChannelStep
  <2>5. CASE Head(todo).id = o
    <3>1. o \in lost'
      BY <2>1, <2>5
    <3> QED
      BY <2>1, <2>3, <2>5, <3>1, OutputChannelStep
  <2> QED
    BY <2>4, <2>5
<1>8. CASE TimerCommand \/ \E i \in Timed : Expire(i)
  <2>1. UNCHANGED <<outq, todo, outvalue, lost>>
    BY <1>8 DEF TimerCommand, Expire, input, output
  <2> QED
    BY <2>1, OutputStays
<1>9. CASE Raise
  <2> DEFINE c == [id |-> Alarm(daemon), set |-> TRUE]
  <2>1. /\ daemon \in Timed /\ InputBlocked /\ Len(outq) < OutputQueue
        /\ outq' = Append(outq, c)
        /\ UNCHANGED <<todo, outvalue, lost>>
    BY <1>2, <1>9 DEF Raise, TypeOK, input, output
  <2>2. c \in Command /\ c.id = Alarm(daemon) /\ c.set = TRUE
    BY <2>1, Signals DEF Command
  <2> HIDE DEF c
  <2>3. A' = IF c.id = o THEN Append(A, TRUE) ELSE A
    <3>1. CommandsFor(o, Append(outq, c))
            = IF c.id = o THEN Append(CommandsFor(o, outq), c.set)
              ELSE CommandsFor(o, outq)
      BY <1>2, <2>2, CommandsAppend
    <3>2. A = CommandsFor(o, outq) /\ A' = CommandsFor(o, Append(outq, c))
      BY <2>1 DEF A
    <3> QED
      BY <2>2, <3>1, <3>2
  <2>4. T' = T
    BY <2>1 DEF T
  <2>5. CASE c.id # o
    BY <1>1, <2>1, <2>3, <2>4, <2>5, OutputChannelStep
  <2>6. CASE c.id = o
    <3>1. T = <<>>
      <4>1. \A k \in 1 .. Len(todo) : todo[k].id # Alarm(daemon)
        BY <1>9, <2>1, BlockedOutput DEF Shape
      <4> QED
        BY <1>2, <2>2, <2>6, <4>1, CommandsNone DEF T
    <3>2. OutputWay(o)' = Append(A, TRUE) \o <<>> /\ OutputWay(o) = A \o <<>>
      BY <1>1, <2>3, <2>4, <2>6, <3>1
    <3>3. OutputWay(o)' = Append(A, TRUE) /\ OutputWay(o) = A
      BY <1>1, <3>2, JoinEmpty
    <3> QED
      BY <2>1, <3>3, OutputChannelStep
  <2> QED
    BY <2>5, <2>6
<1>10. CASE RaiseTimeout
  <2>1. /\ UNCHANGED <<outq, todo, outvalue>>
        /\ lost' = lost \cup {Alarm(daemon)}
    BY <1>10 DEF RaiseTimeout, input, output
  <2>2. OutputWay(o)' = OutputWay(o) /\ outvalue'[o] = outvalue[o]
    BY <2>1 DEF OutputWay
  <2>3. o \in lost' \/ (o \in lost)' = (o \in lost)
    BY <2>1
  <2> QED
    BY <2>2, <2>3, OutputChannelStep
<1>11. CASE OutputTake
  <2> DEFINE w == outq \o todo
             c == Head(outq)
  <2>1. /\ outq # <<>> /\ outq' = Tail(outq)
        /\ outvalue' = [outvalue EXCEPT ![c.id] = c.set]
        /\ UNCHANGED <<todo, lost>>
    BY <1>11 DEF OutputTake, input
  <2>2. /\ w \in Seq(Command) /\ w # <<>> /\ Head(w) = c
        /\ Tail(w) = Tail(outq) \o todo
    BY <1>2, <2>1, JoinHead
  <2>3. c \in Command /\ c.set \in BOOLEAN /\ Tail(w) \in Seq(Command)
    <3>1. c \in Command
      BY <1>2, <2>1
    <3>2. Tail(outq) \in Seq(Command)
      BY <1>2, <2>1
    <3>3. Tail(w) \in Seq(Command)
      BY <1>2, <2>2, <3>2
    <3> QED
      BY <3>1, <3>3, CommandSets
  <2>4. OutputWay(o) = CommandsFor(o, w) /\ OutputWay(o)' = CommandsFor(o, Tail(w))
    BY <2>1, <2>2 DEF OutputWay
  <2>5. outvalue'[o] = IF c.id = o THEN c.set ELSE outvalue[o]
    BY <1>2, <2>1 DEF TypeOK
  <2> HIDE DEF w, c
  <2> DEFINE r == CommandsFor(o, Tail(w))
  <2>6. OutputWay(o) = IF c.id = o THEN <<c.set>> \o r ELSE r
    BY <2>2, <2>4, CommandSets, CommandsHead
  <2>7. r \in Seq(BOOLEAN)
    BY <2>3, CommandSets, CommandsType
  <2>8. OutputWay(o)' = r
    BY <2>4
  <2> HIDE DEF r
  <2>9. CASE c.id # o
    BY <2>1, <2>5, <2>6, <2>8, <2>9, OutputChannelStep
  <2>10. CASE c.id = o
    <3>1. \A x \in BOOLEAN, y \in Seq(BOOLEAN) :
            /\ <<x>> \o y # <<>> /\ Head(<<x>> \o y) = x /\ Tail(<<x>> \o y) = y
      OBVIOUS
    <3>2. OutputWay(o) # <<>> /\ Head(OutputWay(o)) = c.set /\ Tail(OutputWay(o)) = r
      BY <2>3, <2>6, <2>7, <2>10, <3>1
    <3> QED
      BY <2>1, <2>5, <2>8, <2>10, <3>2, OutputChannelStep
  <2> QED
    BY <2>9, <2>10
<1>12. CASE OutputSet
  <2>1. UNCHANGED <<outq, todo, outvalue, lost>>
    BY <1>12 DEF OutputSet, input
  <2> QED
    BY <2>1, OutputStays
<1>13. CASE UNCHANGED vars
  <2>1. UNCHANGED <<outq, todo, outvalue, lost>>
    BY <1>13 DEF vars, input, output
  <2> QED
    BY <2>1, OutputStays
<1> QED
  BY <1>3, <1>4, <1>5, <1>6, <1>7, <1>8, <1>9, <1>10, <1>11, <1>12, <1>13
  DEF Next, InputStep

\* Every step is one of the channel of each timer: only the pass gives, the
\* daemon obeys in the same order, and a timer that expires ends by itself.
LEMMA TimerOperated ==
  ASSUME Shape, Shape', [Next]_vars, NEW i \in Timed
  PROVE  [TimerChannel(i)!Next]_(TimerChannel(i)!vars)
<1> DEFINE B == CommandsFor(i, timerq)
           T == CommandsFor(i, todo)
<1>1. /\ B \in Seq(BOOLEAN) /\ T \in Seq(BOOLEAN) /\ TimerWay(i) = B \o T
      /\ TimerWay(i)' = B' \o T'
  BY Way, WayNext DEF WayForm, Shape
<1>2. /\ timerq \in Seq(Command) /\ todo \in Seq(Command) /\ TypeOK
  BY Queues DEF Shape
<1> HIDE DEF B, T
<1>3. CASE Receive
  <2>1. UNCHANGED <<timerq, running, lost>>
    BY <1>3 DEF Receive, ReceiveOther, ReceiveAnalog, ReceiveDigital, Pass, timers
  <2>2. todo' = todo
    BY <1>3 DEF Receive, ReceiveOther, ReceiveAnalog, ReceiveDigital, Pass
  <2> QED
    BY <2>1, <2>2, TimerStays
<1>4. CASE ControlStep
  BY <1>4, ControlGives, TimerChannelStep
<1>5. CASE SendOutput
  <2>1. /\ todo # <<>> /\ todo' = Tail(todo) /\ Head(todo).id \in Output
        /\ UNCHANGED <<timerq, running, lost>>
    BY <1>5 DEF SendOutput, ToOutput, Sent, timers
  <2>2. Head(todo).id # i
    BY <2>1, Signals
  <2>3. TimerWay(i)' = B \o CommandsFor(i, Tail(todo))
    BY <1>1, <2>1 DEF B, T
  <2>4. TimerWay(i)' = TimerWay(i)
    BY <1>1, <1>2, <2>1, <2>2, <2>3, HeadGone DEF T
  <2> QED
    BY <2>1, <2>4, TimerChannelStep
<1>6. CASE SendTimer
  <2>1. /\ todo # <<>> /\ todo' = Tail(todo) /\ timerq' = Append(timerq, Head(todo))
        /\ UNCHANGED <<running, lost>>
    BY <1>6 DEF SendTimer, ToTimer, Sent
  <2>2. Append(timerq, Head(todo)) \o Tail(todo) = timerq \o todo
    <3> DEFINE h == Head(todo)
               t == Tail(todo)
    <3>1. h \in Command /\ t \in Seq(Command) /\ todo = <<h>> \o t
      BY <1>2, <2>1
    <3> HIDE DEF h, t
    <3>2. Append(timerq, h) \o t = timerq \o (<<h>> \o t)
      BY <1>2, <3>1, JoinAppend
    <3> QED
      BY <3>1, <3>2 DEF h, t
  <2>3. TimerWay(i)' = TimerWay(i)
    BY <2>1, <2>2 DEF TimerWay
  <2> QED
    BY <2>1, <2>3, TimerChannelStep
<1>7. CASE SendTimeout
  <2>1. /\ todo # <<>> /\ todo' = Tail(todo) /\ lost' = lost \cup {Head(todo).id}
        /\ UNCHANGED <<timerq, running>>
    BY <1>7 DEF SendTimeout, ToOutput, ToTimer, Sent, timers
  <2>2. TimerWay(i)' = B \o CommandsFor(i, Tail(todo))
    BY <1>1, <2>1 DEF B, T
  <2>3. \/ Head(todo).id # i /\ TimerWay(i)' = TimerWay(i)
        \/ Head(todo).id = i /\ OneLess(TimerWay(i), TimerWay(i)')
    <3> DEFINE w == TimerWay(i)
               v == TimerWay(i)'
    <3>1. w = B \o CommandsFor(i, todo) /\ v = B \o CommandsFor(i, Tail(todo))
      BY <1>1, <2>2 DEF T
    <3> HIDE DEF w, v
    <3>2. \/ Head(todo).id # i /\ v = w
          \/ Head(todo).id = i /\ OneLess(w, v)
      <4>1. B \in Seq(BOOLEAN) /\ i \in Output \cup Timed /\ todo # <<>> /\ TypeOK
        BY <1>1, <1>2, <2>1
      <4> QED
        BY <3>1, <4>1, HeadGone
    <3> QED
      BY <3>2 DEF w, v
  <2>4. CASE Head(todo).id # i
    <3>1. (i \in lost)' = (i \in lost)
      BY <2>1, <2>4
    <3> QED
      BY <2>1, <2>3, <2>4, <3>1, TimerChannelStep
  <2>5. CASE Head(todo).id = i
    <3>1. i \in lost'
      BY <2>1, <2>5
    <3> QED
      BY <2>1, <2>3, <2>5, <3>1, TimerChannelStep
  <2> QED
    BY <2>4, <2>5
<1>8. CASE TimerCommand
  <2> DEFINE w == timerq \o todo
             h == Head(timerq)
  <2>1. /\ timerq # <<>> /\ timerq' = Tail(timerq)
        /\ running' = (IF h.set THEN running \cup {h.id} ELSE running \ {h.id})
        /\ UNCHANGED <<todo, lost>>
    BY <1>8 DEF TimerCommand, input
  <2>2. /\ w \in Seq(Command) /\ w # <<>> /\ Head(w) = h
        /\ Tail(w) = Tail(timerq) \o todo
    BY <1>2, <2>1, JoinHead
  <2>3. h \in Command /\ h.set \in BOOLEAN /\ Tail(w) \in Seq(Command)
    <3>1. h \in Command
      BY <1>2, <2>1
    <3>2. Tail(timerq) \in Seq(Command)
      BY <1>2, <2>1
    <3>3. Tail(w) \in Seq(Command)
      BY <1>2, <2>2, <3>2
    <3> QED
      BY <3>1, <3>3, CommandSets
  <2>4. TimerWay(i) = CommandsFor(i, w) /\ TimerWay(i)' = CommandsFor(i, Tail(w))
    BY <2>1, <2>2 DEF TimerWay
  <2> HIDE DEF w, h
  <2> DEFINE r == CommandsFor(i, Tail(w))
  <2>5. TimerWay(i) = IF h.id = i THEN <<h.set>> \o r ELSE r
    BY <2>2, <2>4, CommandSets, CommandsHead
  <2>6. r \in Seq(BOOLEAN)
    BY <2>3, CommandSets, CommandsType
  <2>7. TimerWay(i)' = r
    BY <2>4
  <2> HIDE DEF r
  <2>8. CASE h.id # i
    <3>1. (i \in running)' = (i \in running)
      BY <2>1, <2>8
    <3> QED
      BY <2>1, <2>5, <2>7, <2>8, <3>1, TimerChannelStep
  <2>9. CASE h.id = i
    <3>1. \A x \in BOOLEAN, y \in Seq(BOOLEAN) :
            /\ <<x>> \o y # <<>> /\ Head(<<x>> \o y) = x /\ Tail(<<x>> \o y) = y
      OBVIOUS
    <3>2. TimerWay(i) # <<>> /\ Head(TimerWay(i)) = h.set /\ Tail(TimerWay(i)) = r
      BY <2>3, <2>5, <2>6, <2>9, <3>1
    <3>3. (i \in running)' = h.set
      BY <2>1, <2>3, <2>9
    <3> QED
      BY <2>1, <2>7, <3>2, <3>3, TimerChannelStep
  <2> QED
    BY <2>8, <2>9
<1>9. ASSUME NEW k \in Timed, Expire(k)
      PROVE  [TimerChannel(i)!Next]_(TimerChannel(i)!vars)
  <2>1. running' = running \ {k} /\ UNCHANGED <<timerq, todo, lost>>
    BY <1>9 DEF Expire, input
  <2>2. TimerWay(i)' = TimerWay(i)
    BY <2>1 DEF TimerWay
  <2>3. (i \in running)' = FALSE \/ (i \in running)' = (i \in running)
    BY <2>1
  <2> QED
    BY <2>1, <2>2, <2>3, TimerChannelStep
<1>10. CASE RaiseTimeout
  <2>1. /\ UNCHANGED <<timerq, todo, running>> /\ daemon \in Timed
        /\ lost' = lost \cup {Alarm(daemon)}
    BY <1>2, <1>10 DEF RaiseTimeout, TypeOK, input
  <2>2. (i \in lost)' = (i \in lost)
    BY <2>1, Signals
  <2>3. TimerWay(i)' = TimerWay(i)
    BY <2>1 DEF TimerWay
  <2> QED
    BY <2>1, <2>2, <2>3, TimerChannelStep
<1>11. CASE Raise \/ OutputTake \/ OutputSet
  <2>1. UNCHANGED <<timerq, todo, running, lost>>
    BY <1>11 DEF Raise, OutputTake, OutputSet, input, timers
  <2> QED
    BY <2>1, TimerStays
<1>12. CASE UNCHANGED vars
  <2>1. UNCHANGED <<timerq, todo, running, lost>>
    BY <1>12 DEF vars, input, timers
  <2> QED
    BY <2>1, TimerStays
<1> QED
  BY <1>3, <1>4, <1>5, <1>6, <1>7, <1>8, <1>9, <1>10, <1>11, <1>12
  DEF Next, InputStep
-----------------------------------------------------------------------------
(* The pass comes to its end *)

LEMMA NextRowAfter ==
  ASSUME NEW i \in Input, NEW r \in [Input -> Entry]
  PROVE  \/ NextRow(i, r) = Between
         \/ NextRow(i, r) \in Input /\ NextRow(i, r) > i
<1> DEFINE later == {k \in Input : k > i /\ r[k].enable}
<1>1. CASE later = {}
  BY <1>1 DEF NextRow
<1>2. CASE later # {}
  <2>1. \E k \in later : \A m \in later : k <= m
    BY <1>2, Least
  <2>2. (CHOOSE k \in later : \A m \in later : k <= m) \in later
    BY <2>1
  <2>3. NextRow(i, r) = CHOOSE k \in later : \A m \in later : k <= m
    BY <1>2 DEF NextRow
  <2> QED
    BY <2>2, <2>3
<1> QED
  BY <1>1, <1>2

LEMMA CommandsLength ==
  ASSUME NEW i \in Input, NEW e \in Entry, NEW f \in Entry
  PROVE  Len(Commands(i, e, f)) \in 0 .. 3
<1> DEFINE a == IF e.alarm /\ ~f.alarm /\ Alarm(i) # NONE
                THEN <<[id |-> Alarm(i), set |-> FALSE]>> ELSE <<>>
           b == IF e.output # f.output /\ Out(i) # NONE
                THEN <<[id |-> Out(i), set |-> f.output]>> ELSE <<>>
           c == IF e.timer # f.timer /\ i \in Timed
                THEN <<[id |-> i, set |-> f.timer]>> ELSE <<>>
           S == {[id |-> Alarm(i), set |-> FALSE], [id |-> Out(i), set |-> f.output],
                 [id |-> i, set |-> f.timer]}
<1>1. Commands(i, e, f) = (a \o b) \o c
  BY DEF Commands
<1>2. /\ a \in Seq(S) /\ b \in Seq(S) /\ c \in Seq(S)
      /\ Len(a) \in 0 .. 1 /\ Len(b) \in 0 .. 1 /\ Len(c) \in 0 .. 1
  <2>1. \A x \in S : <<x>> \in Seq(S) /\ Len(<<x>>) = 1
    OBVIOUS
  <2>2. <<>> \in Seq(S) /\ Len(<<>>) = 0 /\ 0 \in 0 .. 1 /\ 1 \in 0 .. 1
    OBVIOUS
  <2>3. a = <<>> \/ \E x \in S : a = <<x>>
    OBVIOUS
  <2>4. b = <<>> \/ \E x \in S : b = <<x>>
    OBVIOUS
  <2>5. c = <<>> \/ \E x \in S : c = <<x>>
    OBVIOUS
  <2> HIDE DEF a, b, c, S
  <2> QED
    BY <2>1, <2>2, <2>3, <2>4, <2>5
<1> HIDE DEF a, b, c, S
<1>3. a \o b \in Seq(S) /\ Len(a \o b) = Len(a) + Len(b)
  BY <1>2
<1>4. Len((a \o b) \o c) = Len(a \o b) + Len(c)
  BY <1>2, <1>3
<1> QED
  BY <1>1, <1>2, <1>3, <1>4

\* At an input there is something left; the next input, or the end, is nearer
\* than any command of this one.
LeftIs ==
  /\ at = Between => PassLeft = 0
  /\ at \in Input /\ todo = <<>> => PassLeft = 5 * (8 - at) + 4
  /\ at \in Input /\ todo # <<>> =>
       PassLeft = 5 * (8 - at) + Len(todo) /\ Len(todo) \in Nat /\ Len(todo) > 0

LEMMA LeftForm == TypeOK => LeftIs
<1> SUFFICES ASSUME TypeOK PROVE LeftIs
  OBVIOUS
<1>1. Between = 8 /\ \A i \in Input : i # Between
  BY Tables DEF Between, EXT_INPUTS_TOTAL
<1>2. todo # <<>> => Len(todo) \in Nat /\ Len(todo) > 0
  <2>1. todo \in Seq(Command)
    BY DEF TypeOK
  <2> QED
    BY <2>1
<1>3. CASE at = Between
  BY <1>1, <1>3 DEF LeftIs, PassLeft
<1>4. CASE at \in Input /\ todo = <<>>
  BY <1>1, <1>4 DEF LeftIs, PassLeft
<1>5. CASE at \in Input /\ todo # <<>>
  BY <1>1, <1>2, <1>5 DEF LeftIs, PassLeft
<1> QED
  BY <1>3, <1>4, <1>5 DEF TypeOK

LEMMA LeftNext == TypeOK' => LeftIs'
BY LeftForm, PTL

\* The input is left with nothing to send.
LEMMA LeaveAdvances ==
  ASSUME TypeOK, TypeOK', at \in Input, NEW r \in [Input -> Entry],
         at' = NextRow(at, r), todo' = <<>>
  PROVE  PassLeft' < PassLeft
<1>1. at' = Between \/ (at' \in Input /\ at' > at)
  BY NextRowAfter
<1>2. at \in 0 .. 7 /\ PassLeft \in Nat /\ PassLeft >= 5 * (8 - at) + 1
  <2>1. at \in 0 .. 7
    BY Tables
  <2>2. LeftIs
    BY LeftForm
  <2>3. CASE todo = <<>>
    BY <2>1, <2>2, <2>3 DEF LeftIs
  <2>4. CASE todo # <<>>
    <3> DEFINE n == Len(todo)
    <3>1. PassLeft = 5 * (8 - at) + n /\ n \in Nat /\ n > 0
      BY <2>2, <2>4 DEF LeftIs
    <3> HIDE DEF n
    <3> QED
      BY <2>1, <3>1
  <2> QED
    BY <2>3, <2>4
<1>3. CASE at' = Between
  BY <1>2, <1>3, LeftNext DEF LeftIs
<1>4. CASE at' \in Input /\ at' > at
  <2>1. PassLeft' = 5 * (8 - at') + 4 /\ at' \in 0 .. 7
    BY <1>4, LeftNext, Tables DEF LeftIs
  <2> QED
    BY <1>2, <1>4, <2>1
<1> QED
  BY <1>1, <1>3, <1>4

LEMMA InputAdvances ==
  ASSUME Shape, Shape', InputStep
  PROVE  PassLeft' < PassLeft
<1>1. row \in [Input -> Entry] /\ row' \in [Input -> Entry] /\ TypeOK /\ TypeOK'
  BY DEF Shape, TypeOK
<1>2. CASE ControlStep
  <2>1. PICK r, f : Control(r, f) /\ Controlled(r, f)
    BY <1>2, ControlForm DEF Shape
  <2> DEFINE s == Commands(at, r[at], f)
  <2>2. at \in Input /\ todo = <<>> /\ r[at] \in Entry /\ f \in Entry
    BY <1>2, <2>1, ControlForm DEF Shape, Controlled
  <2>3. todo' = s /\ at' = IF s = <<>> THEN NextRow(at, row') ELSE at
    BY <2>1 DEF Control
  <2>4. Len(s) \in 0 .. 3
    BY <2>2, CommandsLength
  <2> HIDE DEF s
  <2>5. CASE s = <<>>
    BY <1>1, <2>2, <2>3, <2>5, LeaveAdvances
  <2>6. CASE s # <<>>
    <3>1. PassLeft = 5 * (8 - at) + 4 /\ at \in 0 .. 7
      BY <1>1, <2>2, LeftForm, Tables DEF LeftIs
    <3>2. PassLeft' = 5 * (8 - at) + Len(s)
      BY <1>1, <2>2, <2>3, <2>6, LeftNext DEF LeftIs
    <3> DEFINE n == Len(s)
    <3>3. n \in 0 .. 3 /\ PassLeft' = 5 * (8 - at) + n
      BY <2>4, <3>2
    <3> HIDE DEF n
    <3> QED
      BY <3>1, <3>3
  <2> QED
    BY <2>5, <2>6
<1>3. CASE SendOutput \/ SendTimer \/ SendTimeout
  <2>1. todo # <<>> /\ Sent
    BY <1>3 DEF SendOutput, SendTimer, SendTimeout, ToOutput, ToTimer
  <2>2. /\ at \in Input /\ todo' = Tail(todo)
        /\ at' = IF Tail(todo) = <<>> THEN NextRow(at, row) ELSE at
    BY <1>1, <2>1 DEF TypeOK, Sent
  <2>3. CASE Tail(todo) = <<>>
    BY <1>1, <2>2, <2>3, LeaveAdvances
  <2>4. CASE Tail(todo) # <<>>
    <3>1. PassLeft = 5 * (8 - at) + Len(todo) /\ at \in 0 .. 7 /\ Len(todo) \in Nat
      BY <1>1, <2>1, <2>2, LeftForm, Tables DEF LeftIs
    <3>2. PassLeft' = 5 * (8 - at) + Len(Tail(todo))
      BY <1>1, <2>2, <2>4, LeftNext DEF LeftIs
    <3>3. Len(Tail(todo)) = Len(todo) - 1
      <4>1. todo \in Seq(Command)
        BY <1>1 DEF TypeOK
      <4> QED
        BY <2>1, <4>1
    <3> DEFINE n == Len(todo)
    <3>4. /\ n \in Nat /\ PassLeft = 5 * (8 - at) + n
          /\ PassLeft' = 5 * (8 - at) + (n - 1)
      BY <3>1, <3>2, <3>3
    <3> HIDE DEF n
    <3> QED
      BY <3>1, <3>4
  <2> QED
    BY <2>3, <2>4
<1> QED
  BY <1>2, <1>3 DEF InputStep

\* The other tasks leave the pass where it is.
LEMMA OthersWait ==
  ASSUME [Next]_vars, ~InputStep, at # Between
  PROVE  PassLeft' = PassLeft
<1>1. at' = at /\ todo' = todo
  <2>1. CASE Receive
    BY <2>1 DEF Receive, ReceiveOther, ReceiveAnalog, ReceiveDigital
  <2>2. CASE TimerCommand \/ (\E i \in Timed : Expire(i)) \/ Raise \/ RaiseTimeout
    BY <2>2 DEF TimerCommand, Expire, Raise, RaiseTimeout, input
  <2>3. CASE OutputTake \/ OutputSet \/ UNCHANGED vars
    BY <2>3 DEF OutputTake, OutputSet, vars, input
  <2> QED
    BY <2>1, <2>2, <2>3 DEF Next
<1> QED
  BY <1>1 DEF PassLeft
-----------------------------------------------------------------------------
(* Theorems *)

\* The inductive invariant.
IInv == Shape /\ Silent /\ Follows /\ Shown

\* The invariant holds whatever inputs are enabled, whatever the thermocouple
\* reads and whatever the length of the queues (taskControl_Actions,
\* timerCB_Proccess, taskControlOutputs).
THEOREM ControlInvariant == Spec => []IInv
<1>1. Init => IInv
  BY ShapeInit, SilentInit, FollowsInit, PinsInit DEF IInv
<1>2. IInv /\ [Next]_vars => IInv'
  BY ShapeStep, SilentStep, FollowsStep, PinsStep DEF IInv
<1> QED
  BY <1>1, <1>2, PTL DEF Spec

\* As long as no command for it is lost, an output will be what the pass has
\* decided: RELAY_VALVE what the level asks for, since the other input it belongs
\* to never asks for anything (taskControl_Actions, control_Level).
THEOREM OutputFollows == Spec => []OutputFollowsStatus
<1>1. IInv => OutputFollowsStatus
  BY DEF IInv, Follows
<1> QED
  BY <1>1, ControlInvariant, PTL

\* The reset of a pass never overtakes the alarm of a later callback
\* (timerCB_Proccess).
THEOREM AlarmShows == Spec => []RaisedAlarmShows
<1>1. IInv => RaisedAlarmShows
  BY DEF IInv, Follows
<1> QED
  BY <1>1, ControlInvariant, PTL

\* A timer the pass takes for stopped will be stopped (taskControl_Actions).
THEOREM TimersFollow == Spec => []NoStrayTimer
<1>1. IInv => NoStrayTimer
  BY DEF IInv, Follows
<1> QED
  BY <1>1, ControlInvariant, PTL

\* While no command for it is between the table and the pin, the pin of an output
\* shows its value, but for the two colours of the process, which exclude each
\* other (updateDigOutput, taskControlOutputs, ciaaGPIO_SetLevel).
THEOREM PinsFollow == Spec => []PinsShowOutputs
<1>1. IInv => PinsShowOutputs
  BY DEF IInv, Shown
<1> QED
  BY <1>1, ControlInvariant, PTL

\* Each output is operated through a channel of commands: what the pass and the
\* daemon send for it arrives once or is lost, in the order in which they sent
\* it (taskControl_Actions, timerCB_Proccess, taskControlOutputs).
THEOREM OutputsImplemented == Spec => OutputsOperated
<1>1. Init => \A o \in Output : OutputChannel(o)!Init
  <2> SUFFICES ASSUME Init, NEW o \in Output
               PROVE  OutputChannel(o)!Init
    OBVIOUS
  <2>1. outq \o todo = <<>> /\ outvalue[o] = FALSE /\ lost = {}
    BY DEF Init
  <2> QED
    BY <2>1, CommandsEmpty DEF OutputChannel!Init
<1>2. IInv /\ IInv' /\ [Next]_vars
        => \A o \in Output : [OutputChannel(o)!Next]_(OutputChannel(o)!vars)
  BY OutputOperated DEF IInv
<1> QED
  BY <1>1, <1>2, ControlInvariant, PTL DEF Spec, OutputsOperated

\* Each timer is operated through a channel of commands, and ends by itself when
\* it expires (taskControl_Actions, timerCB_Proccess).
THEOREM TimersImplemented == Spec => TimersOperated
<1>1. Init => \A i \in Timed : TimerChannel(i)!Init
  <2> SUFFICES ASSUME Init, NEW i \in Timed
               PROVE  TimerChannel(i)!Init
    OBVIOUS
  <2>1. timerq \o todo = <<>> /\ running = {} /\ lost = {}
    BY DEF Init
  <2> QED
    BY <2>1, CommandsEmpty DEF TimerChannel!Init
<1>2. IInv /\ IInv' /\ [Next]_vars
        => \A i \in Timed : [TimerChannel(i)!Next]_(TimerChannel(i)!vars)
  BY TimerOperated DEF IInv
<1> QED
  BY <1>1, <1>2, ControlInvariant, PTL DEF Spec, TimersOperated

\* A pass comes nearer to its end with every step of the input task and is put
\* off by no other task, for every set of inputs (taskControl_Actions).
THEOREM PassComesToItsEnd == Spec => PassAdvances
<1>1. IInv /\ IInv' /\ [Next]_vars
        => IF InputStep THEN PassLeft' < PassLeft
           ELSE at # Between => PassLeft' = PassLeft
  BY InputAdvances, OthersWait DEF IInv
<1> QED
  BY <1>1, ControlInvariant, PTL DEF Spec, PassAdvances
=============================================================================
