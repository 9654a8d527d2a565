------------------------------ MODULE Debounce ------------------------------
(***************************************************************************)
(* The switches and the key, from their pins to the table of inputs: the   *)
(* timer daemon samples them in two callbacks, timerCB_InpDebounce (500    *)
(* ms) and timerCB_KeysDebounce (400 ms), and sends what it recognises in  *)
(* the last four samples to taskControlInputs, which keeps the status.     *)
(*                                                                         *)
(* A switch is reported by its level.  A key is not: each press asks for   *)
(* the complement of the status in the table when the press is seen.       *)
(*                                                                         *)
(* A sample finds either level: how pins move between samples is open.     *)
(***************************************************************************)
EXTENDS InputProcess, LastCommand

CONSTANTS
  Switches,    (* the inputs on a GPIO that are modelled                   *)
  InputQueue   (* MGR_INPUT_QUEUE_LENGT, 10 in the code                    *)

ASSUME DebounceAssumption ==
  /\ Switches \subseteq Digital \ {SW_START_STOP} /\ Switches # {}
  /\ InputQueue \in Nat \ {0}

VARIABLES
  test,     (* the samples Test3, Test2, Test1, Test0 of each input        *)
  at,       (* the switch timerCB_InpDebounce is at; NONE between callbacks*)
  message,  (* the message a callback is at its send with, as a queue      *)
  inq,      (* MGR_INPUT_QUEUE                                             *)
  status,   (* stateInputs[.].status                                       *)
  (* History *)
  held,     (* the level each pin last had in two samples in a row         *)
  bounced,  (* inputs with a sample unlike both its neighbours: of the key *)
            (* at any time, of a switch since its level was last reported  *)
  presses,  (* whether the key was pressed an odd number of times          *)
  hurried,  (* a press was seen while an earlier one was on its way        *)
  lost      (* the key if a press was lost, the switches whose last report *)
            (* was                                                         *)

history == <<held, bounced, presses, hurried, lost>>
vars == <<test, at, message, inq, status, history>>

Sampled == Switches \cup {SW_START_STOP}
Level == {GPIO_LOW_LEVEL, GPIO_HIGH_LEVEL}
TECL_PUSH == 0
TECL_FREE == 1

\* A report sets the status of its input to the high level, or to the low one;
\* a message of another sender (a reading, a status) has the name NONE.
Report == [id : Sampled, set : BOOLEAN]
Other == [id |-> NONE, set |-> FALSE]
Message == Report \cup {Other}

\* The callback goes through the table upwards and ends with its last input.
NextSwitch(i) ==
  LET later == {k \in Switches : k > i}
  IN IF later = {} THEN NONE ELSE CHOOSE k \in later : \A m \in later : k <= m

\* ciaaGPIO_DebounInit, ciaaTEC_DebounInit.
FirstLevel(i) == IF i = SW_START_STOP THEN TECL_FREE ELSE GPIO_LOW_LEVEL

Init ==
  /\ test = [i \in Sampled |-> [k \in 1 .. 4 |-> FirstLevel(i)]]
  /\ at = NONE
  /\ message = <<>> /\ inq = <<>>
  /\ status = [i \in Sampled |-> GPIO_LOW_LEVEL]
  /\ held = [i \in Sampled |-> FirstLevel(i)]
  /\ bounced = {} /\ lost = {}
  /\ presses = FALSE /\ hurried = FALSE
-----------------------------------------------------------------------------
(* The timer daemon *)

\* Faults: one sample of the new level is enough; only falling edges are seen.
ReportedAtOnce(t) == IF t[3] # t[4] THEN {t[4]} ELSE {}
ReportedFalling(t) == IF t = <<1, 1, 0, 0>> THEN {GPIO_LOW_LEVEL} ELSE {}

\* ciaaGPIO_DebounStatus: two samples of one level and two of the other; the
\* set of levels reported.
Reported(t) == {l \in Level : t = <<1 - l, 1 - l, l, l>>}

\* Fault: a key held down is pressed again and again.
PressedStill(t) == t[3] = TECL_PUSH /\ t[4] = TECL_PUSH

\* ciaaTEC_DebounStatus.
Pressed(t) == t = <<TECL_FREE, TECL_FREE, TECL_PUSH, TECL_PUSH>>

\* What is remembered of pin i, whose samples are now t.
Watch(i, t) ==
  /\ held' = [held EXCEPT ![i] = IF t[3] = t[4] THEN t[4] ELSE @]
  /\ bounced' =
       IF t[2] # t[3] /\ t[3] # t[4] THEN bounced \cup {i}
       ELSE IF i \in Switches /\ Reported(t) # {} THEN bounced \ {i}
       ELSE bounced

Samples(i, level) == <<test[i][2], test[i][3], test[i][4], level>>

\* The timer of the switches expires: timerCB_InpDebounce starts.
InpExpire ==
  /\ message = <<>> /\ at = NONE
  /\ at' = NextSwitch(-1)
  /\ UNCHANGED <<test, message, inq, status, history>>

\* timerCB_InpDebounce, for one switch up to its send.
InpDebounce(level) ==
  LET t == Samples(at, level)
  IN /\ message = <<>> /\ at # NONE
     /\ test' = [test EXCEPT ![at] = t]
     /\ message' = IF Reported(t) = {} THEN <<>>
                   ELSE <<[id |-> at, set |-> GPIO_HIGH_LEVEL \in Reported(t)]>>
     /\ at' = NextSwitch(at)
     /\ Watch(at, t)
     /\ UNCHANGED <<inq, status, presses, hurried, lost>>

\* Whether a press asks for the high level.
Complement == status[SW_START_STOP] # GPIO_HIGH_LEVEL

\* timerCB_KeysDebounce, up to its send.
KeysDebounce(level) ==
  LET t == Samples(SW_START_STOP, level)
      press == held[SW_START_STOP] = TECL_FREE /\ t[3] = t[4] /\ level = TECL_PUSH
  IN /\ message = <<>> /\ at = NONE
     /\ test' = [test EXCEPT ![SW_START_STOP] = t]
     /\ message' = IF Pressed(t)
                   THEN <<[id |-> SW_START_STOP, set |-> Complement]>> ELSE <<>>
     /\ Watch(SW_START_STOP, t)
     /\ presses' = (press # presses)
     /\ hurried' = (hurried \/ (press /\ \E k \in 1 .. Len(inq) :
                                          inq[k].id = SW_START_STOP))
     /\ UNCHANGED <<at, inq, status, lost>>

\* Fault: the queue has no limit.
SendUnlimited ==
  /\ message # <<>>
  /\ inq' = inq \o message
  /\ message' = <<>>
  /\ lost' = lost \ ({Head(message).id} \cap Switches)
  /\ UNCHANGED <<test, at, status, held, bounced, presses, hurried>>

Send ==
  /\ message # <<>> /\ Len(inq) < InputQueue
  /\ inq' = inq \o message
  /\ message' = <<>>
  /\ lost' = lost \ ({Head(message).id} \cap Switches)
  /\ UNCHANGED <<test, at, status, held, bounced, presses, hurried>>

\* The queue stayed full for TIMEOUT_QUEUE_MSG_OUT.
SendTimeout ==
  /\ message # <<>> /\ Len(inq) >= InputQueue
  /\ lost' = lost \cup {Head(message).id}
  /\ message' = <<>>
  /\ UNCHANGED <<test, at, inq, status, held, bounced, presses, hurried>>
-----------------------------------------------------------------------------
\* timerCB_Analog, timerCB_Report and the shell.
SendOther ==
  /\ Len(inq) < InputQueue
  /\ inq' = Append(inq, Other)
  /\ UNCHANGED <<test, at, message, status, history>>

\* taskControlInputs and sup_updateDInput.
Receive ==
  /\ inq # <<>>
  /\ inq' = Tail(inq)
  /\ status' = [i \in Sampled |->
                  IF i # Head(inq).id THEN status[i]
                  ELSE IF Head(inq).set THEN GPIO_HIGH_LEVEL ELSE GPIO_LOW_LEVEL]
  /\ UNCHANGED <<test, at, message, history>>

Next ==
  \/ InpExpire
  \/ \E level \in Level : InpDebounce(level)
  \/ \E level \in Level : KeysDebounce(level)
  \/ Send
  \/ SendTimeout
  \/ SendOther
  \/ Receive

Spec == Init /\ [][Next]_vars

\* The timer of the switches reloads itself and a wait ends by its timeout; the
\* input task keeps reading its queue.
Fairness ==
  /\ WF_vars(Send \/ SendTimeout) /\ WF_vars(Receive)
  /\ SF_vars(InpExpire) /\ WF_vars(\E level \in Level : InpDebounce(level))

FairSpec == Spec /\ Fairness
-----------------------------------------------------------------------------
(* Properties *)

\* The queue of the input task keeps to its length and a callback holds one
\* message at most (timerCB_InpDebounce, timerCB_KeysDebounce).
TypeOK ==
  /\ test \in [Sampled -> [1 .. 4 -> Level]]
  /\ at \in Switches \cup {NONE}
  /\ message \in Seq(Report) /\ Len(message) <= 1
  /\ inq \in Seq(Message) /\ Len(inq) <= InputQueue
  /\ status \in [Sampled -> Level] /\ held \in [Sampled -> Level]
  /\ bounced \subseteq Sampled /\ lost \subseteq Sampled
  /\ presses \in BOOLEAN /\ hurried \in BOOLEAN

\* Whether input i will be high once all that is on its way has been read.
SettledHigh(i) == LastFor(i, inq \o message, status[i] = GPIO_HIGH_LEVEL)

\* The table has, or will have, the level a switch last held for two samples,
\* although nothing but changes is ever reported, as long as no report was lost
\* and no sample since was unlike both its neighbours: that hides the change
\* it comes with, and the table is wrong until the switch moves twice more
\* (ciaaGPIO_DebounStatus, timerCB_InpDebounce, sup_updateDInput).
StatusFollowsSwitch ==
  \A i \in Switches :
    i \notin bounced \cup lost => (SettledHigh(i) <=> held[i] = GPIO_HIGH_LEVEL)

\* Every press of the key toggles the status once and exactly once: after an
\* odd number of presses it is HIGH.  Excepted are a key that bounced at a
\* sample, a press that was lost, and one seen before the table had the
\* previous one, which asks for the same level again (timerCB_KeysDebounce).
PressToggles ==
  SW_START_STOP \notin bounced \cup lost /\ ~hurried =>
    (SettledHigh(SW_START_STOP) <=> presses)

\* A switch that stays at a level for ever, and whose change was neither lost
\* nor hidden by a bounce, is at that level in the table for ever after some time:
\* its sample, its message and the queue get their turn whatever the key and
\* the other senders do.
SwitchArrives ==
  \A i \in Switches, l \in Level :
    <>[](test[i][4] = l /\ i \notin bounced \cup lost) => <>[](status[i] = l)
=============================================================================
