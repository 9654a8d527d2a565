---------------------------- MODULE InputProcess ----------------------------
(***************************************************************************)
(* What one input asks of the outputs: the table of inputs of              *)
(* taskServices/inputManager.c and the control functions of                *)
(* taskServices/inputProccess.c, as operators on one entry of the table.   *)
(*                                                                         *)
(* An entry keeps the enable flag, the level of a digital input, the last  *)
(* value, and the status (act_ON or act_OFF) of its alarm, of its output   *)
(* and of its timer.  The "action" fields of the code are not kept: each   *)
(* control function clears them and sets one exactly when it changes the   *)
(* status beside it, so the commands of a pass are the differences between *)
(* the entry before and after.                                             *)
(***************************************************************************)
EXTENDS Integers, Sequences

\* externId_t, in the order of the enumeration.
TERMOCUPLE == 0        THERMISTOR == 1       AMPERIMETER == 2
CONDUCTIMETER == 3     WATER_LEVEL == 4      SW_START_STOP == 5
SL_OBJECT_DETECT == 6  SL_MODE_FUNCTION == 7
EXT_INPUTS_TOTAL == 8
RELAY_VALVE == 8       RELAY_HEATER == 9     ALARM_TEMPER == 10
ALARM_LEVEL == 11      ALARM_CONDUCT == 12   ALARM_INTERRUPT == 13
ALARM_TIME == 14       SIGNAL_START == 15    SIGNAL_COMPLETE == 16
SIGNAL_STOP == 17      SIGNAL_MODE == 18
NONE == 25

Input   == 0 .. EXT_INPUTS_TOTAL - 1
Digital == WATER_LEVEL .. SL_MODE_FUNCTION
Output  == RELAY_VALVE .. SIGNAL_MODE

GPIO_LOW_LEVEL == 0
GPIO_HIGH_LEVEL == 1

\* The columns of actionsInputs.  An input with a timer is named by it: its
\* timer has no other identity in the model.
smt_min(i) == IF i = TERMOCUPLE THEN 50 ELSE IF i = THERMISTOR THEN 10 ELSE 0
smt_max(i) == CASE i \in {TERMOCUPLE, CONDUCTIMETER} -> 100
                [] i = THERMISTOR  -> 50
                [] i = AMPERIMETER -> 50000
                [] OTHER           -> GPIO_HIGH_LEVEL
alarm_signal ==
  <<ALARM_TEMPER, NONE, ALARM_TIME, ALARM_CONDUCT, ALARM_LEVEL, SIGNAL_STOP,
    ALARM_INTERRUPT, NONE>>
output_signal ==
  <<RELAY_HEATER, NONE, SIGNAL_COMPLETE, RELAY_VALVE, RELAY_VALVE, SIGNAL_START,
    NONE, SIGNAL_MODE>>
Alarm(i) == alarm_signal[i + 1]
Out(i)   == output_signal[i + 1]
Timed    == {TERMOCUPLE, AMPERIMETER, CONDUCTIMETER, WATER_LEVEL, SW_START_STOP}

\* perReg_t with its actions_t.  Only CONDUCTIMETER starts disabled.
Entry == [enable : BOOLEAN, status : {GPIO_LOW_LEVEL, GPIO_HIGH_LEVEL},
          value : Int, alarm : BOOLEAN, output : BOOLEAN, timer : BOOLEAN]
FirstEntry(i) ==
  [enable |-> i # CONDUCTIMETER, status |-> GPIO_LOW_LEVEL, value |-> 0,
   alarm |-> FALSE, output |-> FALSE, timer |-> FALSE]

INP_INF_COTA(i, e) == smt_min(i) >= e.value
INP_SUP_COTA(i, e) == smt_max(i) <= e.value

\* Fault: the timer is left as it is inside the band, as the other inputs do.
control_TermocupleOnce(e) ==
  LET below == INP_INF_COTA(TERMOCUPLE, e)
      above == INP_SUP_COTA(TERMOCUPLE, e)
  IN [e EXCEPT !.output = below \/ (~above /\ @),
               !.timer  = below \/ above \/ @,
               !.alarm  = (below \/ above) /\ @]

\* Heat below the band, stop above it, keep as it is inside; the timer runs
\* outside the band and coming back clears the alarm.
control_Termocuple(e) ==
  LET below == INP_INF_COTA(TERMOCUPLE, e)
      above == INP_SUP_COTA(TERMOCUPLE, e)
  IN [e EXCEPT !.output = below \/ (~above /\ @),
               !.timer  = below \/ above,
               !.alarm  = (below \/ above) /\ @]

\* control_Amperimeter and control_Level.  The timer is never stopped.
control_Limit(i, e) ==
  LET above == INP_SUP_COTA(i, e)
  IN [e EXCEPT !.output = above, !.timer = above \/ @, !.alarm = above /\ @]

\* Neither the timer nor the output is ever reset; the second reset of the
\* alarm finds it reset.
control_Conductimeter(e) ==
  LET above == INP_SUP_COTA(CONDUCTIMETER, e)
  IN [e EXCEPT !.output = above \/ @, !.timer = above \/ @, !.alarm = above /\ @]

\* The alarm (SIGNAL_STOP) is set only where it is set already: no change.
control_ProcessTimer(e) ==
  LET above == INP_SUP_COTA(SW_START_STOP, e)
  IN [e EXCEPT !.output = above, !.timer = above]

\* Below the limit the alarm is set only where it is set already: no change.
control_ObjectDetect(e) ==
  [e EXCEPT !.alarm = INP_INF_COTA(SL_OBJECT_DETECT, e) /\ @]

control_ModeFunction(e) ==
  [e EXCEPT !.output = INP_INF_COTA(SL_MODE_FUNCTION, e)]

\* A command for an output, or for the timer of the input with that number.
OutputCommand == [id : Output, set : BOOLEAN]
TimerMessage == [id : Timed, set : BOOLEAN]
Command == [id : Timed \cup Output, set : BOOLEAN]

\* What taskControl_Actions sends for the change of entry i from e to f, in
\* order.  An alarm is only ever reset here.
Commands(i, e, f) ==
     (IF e.alarm /\ ~f.alarm /\ Alarm(i) # NONE
      THEN <<[id |-> Alarm(i), set |-> FALSE]>> ELSE <<>>)
  \o (IF e.output # f.output /\ Out(i) # NONE
      THEN <<[id |-> Out(i), set |-> f.output]>> ELSE <<>>)
  \o (IF e.timer # f.timer /\ i \in Timed
      THEN <<[id |-> i, set |-> f.timer]>> ELSE <<>>)
=============================================================================
