--------------------------- MODULE TerminalProofs ---------------------------
(***************************************************************************)
(* Theorems about the terminal, for every length of the queues, every set  *)
(* of senders and every table of inputs.                                   *)
(*                                                                         *)
(* Nothing has to be added to the properties: what a process is asked for  *)
(* is followed from the shell through its queue (and, for the monitor, the *)
(* queue of the timers) to what it does, and each step of a task moves one *)
(* command along.                                                          *)
(***************************************************************************)
EXTENDS Terminal, LastCommandProofs

IInv == TypeOK /\ MonitorObeys /\ ReadingObeys /\ NewestShown

\* The queues, without the rest of the type.
LEMMA Queues ==
  ASSUME TypeOK
  PROVE  /\ termq \in Seq(Message) /\ inq \in Seq(InputRequest)
         /\ logq \in Seq(LogRequest) /\ timerq \in Seq(BOOLEAN)
         /\ sending \in [Sender -> Seq(Message)]
         /\ \A s \in Sender : sending[s] \in Seq(Message)
  BY DEF TypeOK

LEMMA Requests ==
  /\ \A c \in InputRequest : c.set \in BOOLEAN
  /\ \A c \in LogRequest : c.set \in BOOLEAN
  BY DEF InputRequest, LogRequest

LEMMA Senders == "input" \in Sender /\ "service" \in Sender
  BY TerminalAssumption

LEMMA RoomIsNat ==
  /\ TerminalQueue \in Nat /\ InputQueue \in Nat
  /\ LogQueue \in Nat /\ TimerQueue \in Nat
  BY TerminalAssumption

\* Taking the first element of a queue, and adding one at the end.
LEMMA TailOf ==
  ASSUME NEW S, NEW q \in Seq(S), q # <<>>
  PROVE  /\ Tail(q) \in Seq(S) /\ Head(q) \in S
         /\ Len(q) \in Nat \ {0} /\ Len(Tail(q)) = Len(q) - 1
         /\ \A k \in 1 .. Len(q) - 1 : Tail(q)[k] = q[k + 1]
         /\ Head(q) = q[1]
  OBVIOUS

LEMMA AppendTo ==
  ASSUME NEW S, NEW q \in Seq(S), NEW e \in S
  PROVE  /\ Append(q, e) \in Seq(S) /\ Append(q, e) # <<>>
         /\ Len(q) \in Nat /\ Len(Append(q, e)) = Len(q) + 1
         /\ \A k \in 1 .. Len(q) : Append(q, e)[k] = q[k]
         /\ Append(q, e)[Len(q) + 1] = e
  OBVIOUS
LEMMA RoomFor ==
  ASSUME NEW S, NEW q \in Seq(S), NEW e \in S, NEW n \in Nat, Len(q) < n
  PROVE  Append(q, e) \in Seq(S) /\ Len(Append(q, e)) <= n
  OBVIOUS

LEMMA NoMore ==
  ASSUME NEW S, NEW q \in Seq(S), q # <<>>, NEW n \in Nat, Len(q) <= n
  PROVE  Tail(q) \in Seq(S) /\ Len(Tail(q)) <= n
  OBVIOUS

LEMMA OneMore ==
  ASSUME NEW S, NEW q \in Seq(S), NEW m \in Seq(S), m # <<>>, Len(m) <= 1,
         NEW n \in Nat, Len(q) < n
  PROVE  q \o m \in Seq(S) /\ Len(q \o m) <= n
  OBVIOUS
-----------------------------------------------------------------------------
(* The type *)

LEMMA TypeInit == Init => TypeOK
<1> SUFFICES ASSUME Init
             PROVE  TypeOK
  OBVIOUS
<1>1. /\ <<>> \in Seq(Message) /\ <<>> \in Seq(InputRequest)
      /\ <<>> \in Seq(LogRequest) /\ <<>> \in Seq(BOOLEAN) /\ Len(<<>>) = 0
  OBVIOUS
<1>2. /\ sending \in [Sender -> Seq(Message)]
      /\ \A s \in Sender : Len(sending[s]) <= 1
  BY <1>1 DEF Init
<1>3. data_arguments \in [destino : Process, arg1 : BOOLEAN]
  BY DEF Init, Process
<1>4. /\ asked \in [Process -> BOOLEAN] /\ lost \subseteq Process
      /\ unseen \subseteq Sender
  BY DEF Init
<1>5. next \in 0 .. InputsTotal /\ daemon \in Enabled \cup {NONE}
  BY TerminalAssumption DEF Init
<1>6. flag \in BOOLEAN /\ running \in BOOLEAN /\ modeMonitor \in BOOLEAN
  BY DEF Init
<1>7. /\ termq \in Seq(Message) /\ Len(termq) <= TerminalQueue
      /\ inq \in Seq(InputRequest) /\ Len(inq) <= InputQueue
      /\ logq \in Seq(LogRequest) /\ Len(logq) <= LogQueue
      /\ timerq \in Seq(BOOLEAN) /\ Len(timerq) <= TimerQueue
  BY <1>1, RoomIsNat DEF Init
<1> QED
  BY <1>2, <1>3, <1>4, <1>5, <1>6, <1>7 DEF TypeOK

\* The message of a sender at its send.
LEMMA SendingType ==
  ASSUME TypeOK, NEW s \in Sender, NEW m \in Seq(Message), Len(m) <= 1
  PROVE  LET next_sending == [sending EXCEPT ![s] = m]
         IN /\ next_sending \in [Sender -> Seq(Message)]
            /\ \A t \in Sender : Len(next_sending[t]) <= 1
  BY DEF TypeOK

LEMMA Texts ==
  ASSUME NEW s \in Sender, NEW b \in BOOLEAN
  PROVE  /\ <<[from |-> s, text |-> b]>> \in Seq(Message)
         /\ Len(<<[from |-> s, text |-> b]>>) <= 1
         /\ <<>> \in Seq(Message) /\ Len(<<>>) <= 1
<1>1. [from |-> s, text |-> b] \in Message
  BY DEF Message
<1> QED
  BY <1>1

LEMMA WriteTextType ==
  ASSUME TypeOK, NEW s \in Sender, WriteText(s)
  PROVE  /\ sending' \in [Sender -> Seq(Message)]
         /\ \A t \in Sender : Len(sending'[t]) <= 1
         /\ unseen' \subseteq Sender
<1>1. <<Text(s)>> \in Seq(Message) /\ Len(<<Text(s)>>) <= 1
  BY Texts DEF Text
<1>2. sending' = [sending EXCEPT ![s] = <<Text(s)>>]
  BY DEF WriteText
<1>3. /\ sending' \in [Sender -> Seq(Message)]
      /\ \A t \in Sender : Len(sending'[t]) <= 1
  BY <1>1, <1>2, SendingType
<1> QED
  BY <1>3 DEF WriteText, TypeOK

LEMMA TypeStep == TypeOK /\ [Next]_vars => TypeOK'
<1> SUFFICES ASSUME TypeOK, [Next]_vars
             PROVE  TypeOK'
  OBVIOUS
<1> USE RoomIsNat
<1>1. CASE Stop
  BY <1>1 DEF Stop, TypeOK, timers
<1>2. ASSUME NEW p \in Process, NEW all \in BOOLEAN, Start(p, all)
      PROVE  TypeOK'
  BY <1>2 DEF Start, TypeOK, timers
<1>3. CASE TakeMessage
  <2>1. termq' \in Seq(Message) /\ Len(termq') <= TerminalQueue
    BY <1>3, TailOf, Queues DEF TakeMessage, TypeOK
  <2>2. unseen' \subseteq Sender
    BY <1>3 DEF TakeMessage, TypeOK
  <2> QED
    BY <1>3, <2>1, <2>2 DEF TakeMessage, TypeOK, shell, timers
<1>4. CASE SendCommand
  <2>1. Read \in LogRequest /\ Config \in InputRequest
    BY DEF TypeOK, Read, Config, LogRequest, InputRequest
  <2>2. \/ Len(logq) < LogQueue /\ logq' = Append(logq, Read) /\ inq' = inq
        \/ Len(inq) < InputQueue /\ inq' = Append(inq, Config) /\ logq' = logq
    BY <1>4 DEF SendCommand
  <2>3. /\ inq' \in Seq(InputRequest) /\ Len(inq') <= InputQueue
        /\ logq' \in Seq(LogRequest) /\ Len(logq') <= LogQueue
    <3>1. CASE Len(logq) < LogQueue /\ logq' = Append(logq, Read) /\ inq' = inq
      BY <2>1, <3>1, RoomFor DEF TypeOK
    <3>2. CASE Len(inq) < InputQueue /\ inq' = Append(inq, Config) /\ logq' = logq
      BY <2>1, <3>2, RoomFor DEF TypeOK
    <3> QED
      BY <2>2, <3>1, <3>2
  <2> QED
    BY <1>4, <2>3 DEF SendCommand, TypeOK, timers
<1>5. CASE SendCommandTimeout
  BY <1>5 DEF SendCommandTimeout, TypeOK, timers
<1>6. ASSUME NEW s \in Sender, Put(s)
      PROVE  TypeOK'
  <2>1. sending[s] \in Seq(Message) /\ Len(sending[s]) <= 1
    BY DEF TypeOK
  <2>2. sending[s] # <<>> /\ Len(termq) < TerminalQueue /\ termq' = termq \o sending[s]
    BY <1>6 DEF Put
  <2>3. termq' \in Seq(Message) /\ Len(termq') <= TerminalQueue
    BY <2>1, <2>2, OneMore DEF TypeOK
  <2>4. <<>> \in Seq(Message) /\ Len(<<>>) <= 1
    OBVIOUS
  <2>5. /\ sending' \in [Sender -> Seq(Message)]
        /\ \A t \in Sender : Len(sending'[t]) <= 1
    BY <1>6, <2>4, SendingType DEF Put
  <2> QED
    BY <1>6, <2>3, <2>5 DEF Put, TypeOK, shell, timers
<1>7. ASSUME NEW s \in Sender, PutTimeout(s)
      PROVE  TypeOK'
  <2>1. /\ sending' \in [Sender -> Seq(Message)]
        /\ \A t \in Sender : Len(sending'[t]) <= 1
    <3>1. <<>> \in Seq(Message) /\ Len(<<>>) <= 1
      OBVIOUS
    <3> QED
      BY <1>7, <3>1, SendingType DEF PutTimeout
  <2>2. unseen' \subseteq Sender
    BY <1>7 DEF PutTimeout, TypeOK
  <2> QED
    BY <1>7, <2>1, <2>2 DEF PutTimeout, TypeOK, shell, timers
<1>8. CASE ReportStatus
  <2>1. inq' \in Seq(InputRequest) /\ Len(inq') <= InputQueue
    BY <1>8, TailOf, Queues DEF ReportStatus, TypeOK
  <2>2. WriteText("input")
    BY <1>8 DEF ReportStatus
  <2> QED
    BY <1>8, <2>1, <2>2, WriteTextType, Senders DEF ReportStatus, TypeOK, shell, timers
<1>9. CASE ReportConfig
  <2>1. /\ inq' \in Seq(InputRequest) /\ Len(inq') <= InputQueue
        /\ Head(inq) \in InputRequest
    BY <1>9, TailOf, Queues DEF ReportConfig, TypeOK
  <2>2. /\ sending' \in [Sender -> Seq(Message)]
        /\ \A t \in Sender : Len(sending'[t]) <= 1
    <3> DEFINE told == <<[from |-> "input", text |-> FALSE]>>
    <3>1. FALSE \in BOOLEAN
      OBVIOUS
    <3>2. \/ sending' = [sending EXCEPT !["input"] = told]
          \/ sending' = [sending EXCEPT !["input"] = <<>>]
      BY <1>9 DEF ReportConfig
    <3> QED
      BY <3>1, <3>2, Texts, SendingType, Senders
  <2>3. timerq' \in Seq(BOOLEAN) /\ Len(timerq') <= TimerQueue
    <3>1. Head(inq).set \in BOOLEAN
      BY <2>1, Requests
    <3>2. CASE timerq' = Append(timerq, Head(inq).set) /\ Len(timerq) < TimerQueue
      BY <3>1, <3>2, RoomFor DEF TypeOK
    <3> QED
      BY <1>9, <3>2 DEF ReportConfig, TypeOK
  <2>4. lost' \subseteq Process
    BY <1>9 DEF ReportConfig, TypeOK, Process
  <2> QED
    BY <1>9, <2>1, <2>2, <2>3, <2>4 DEF ReportConfig, TypeOK, shell
<1>10. CASE TimerCommand
  <2>1. timerq' \in Seq(BOOLEAN) /\ Len(timerq') <= TimerQueue /\ running' \in BOOLEAN
    BY <1>10, TailOf, Queues DEF TimerCommand, TypeOK
  <2> QED
    BY <1>10, <2>1 DEF TimerCommand, TypeOK, shell
<1>11. CASE Report
  <2>1. \/ \E i \in Enabled : daemon' = i /\ next' = i + 1
        \/ daemon' = NONE /\ next' = InputsTotal
    BY <1>11 DEF Report
  <2>2. next' \in 0 .. InputsTotal /\ daemon' \in Enabled \cup {NONE}
    BY <2>1, TerminalAssumption
  <2> QED
    BY <1>11, <2>2 DEF Report, TypeOK, shell
<1>12. CASE ReportSend
  <2>1. inq' \in Seq(InputRequest) /\ Len(inq') <= InputQueue
    <3>1. Status \in InputRequest
      BY DEF Status, InputRequest
    <3>2. CASE Len(inq) < InputQueue /\ inq' = Append(inq, Status)
      BY <3>1, <3>2, RoomFor DEF TypeOK
    <3> QED
      BY <1>12, <3>2 DEF ReportSend, TypeOK
  <2> QED
    BY <1>12, <2>1 DEF ReportSend, TypeOK, shell
<1>13. CASE ServiceTake
  <2>1. /\ logq' \in Seq(LogRequest) /\ Len(logq') <= LogQueue
        /\ Head(logq) \in LogRequest
    BY <1>13, TailOf, Queues DEF ServiceTake, TypeOK
  <2>2. modeMonitor' \in BOOLEAN
    BY <1>13, <2>1, Requests DEF ServiceTake, TypeOK
  <2> QED
    BY <1>13, <2>1, <2>2 DEF ServiceTake, TypeOK, shell, timers
<1>14. CASE ServiceTimeout
  <2>1. CASE WriteText("service") /\ UNCHANGED modeMonitor
    BY <1>14, <2>1, WriteTextType, Senders DEF ServiceTimeout, TypeOK, shell, timers
  <2>2. CASE modeMonitor' = FALSE /\ UNCHANGED <<sending, unseen>>
    BY <1>14, <2>2 DEF ServiceTimeout, TypeOK, shell, timers
  <2> QED
    BY <1>14, <2>1, <2>2 DEF ServiceTimeout
<1>15. CASE WritePage
  <2>1. logq' \in Seq(LogRequest) /\ Len(logq') <= LogQueue
    <3>1. Write \in LogRequest
      BY DEF Write, LogRequest
    <3> QED
      BY <1>15, <3>1, AppendTo, Queues DEF WritePage, TypeOK
  <2> QED
    BY <1>15, <2>1 DEF WritePage, TypeOK, shell, timers
<1>16. CASE OutputText
  <2>1. "output" \in Sender /\ WriteText("output")
    BY <1>16 DEF OutputText
  <2> QED
    BY <1>16, <2>1, WriteTextType DEF OutputText, TypeOK, shell, timers
<1>17. CASE UNCHANGED vars
  BY <1>17 DEF vars, shell, timers, TypeOK
<1> QED
  BY <1>1, <1>2, <1>3, <1>4, <1>5, <1>6, <1>7, <1>8, <1>9, <1>10, <1>11, <1>12,
     <1>13, <1>14, <1>15, <1>16, <1>17 DEF Next, Command
-----------------------------------------------------------------------------
(* The monitor *)

LEMMA TimerSettledType == TypeOK => TimerSettled \in BOOLEAN
  BY DEF TypeOK, TimerSettled

\* A timer that takes a command from its queue goes on to the same end.
LEMMA TimerTakes == TypeOK /\ TimerCommand => (TimerSettled' <=> TimerSettled)
<1> SUFFICES ASSUME TypeOK, TimerCommand
             PROVE  TimerSettled' <=> TimerSettled
  OBVIOUS
<1>1. /\ timerq' = Tail(timerq) /\ running' = Head(timerq) /\ timerq # <<>>
      /\ timerq \in Seq(BOOLEAN)
  BY DEF TimerCommand, TypeOK
<1>2. CASE Len(timerq) = 1
  <2>1. timerq' = <<>> /\ Head(timerq) = timerq[Len(timerq)]
    BY <1>1, <1>2
  <2> QED
    BY <1>1, <2>1 DEF TimerSettled
<1>3. CASE Len(timerq) > 1
  <2>1. /\ Len(timerq) \in Nat /\ Len(Tail(timerq)) = Len(timerq) - 1
        /\ \A k \in 1 .. Len(timerq) - 1 : Tail(timerq)[k] = timerq[k + 1]
    BY <1>1, TailOf
  <2>2. Len(timerq) - 1 \in 1 .. Len(timerq) - 1
    BY <1>3, <2>1
  <2>3. Tail(timerq)[Len(timerq) - 1] = timerq[Len(timerq) - 1 + 1]
    BY <2>1, <2>2
  <2>4. timerq' # <<>>
    <3>1. Len(timerq') # 0
      BY <1>1, <1>3, <2>1
    <3>2. Len(<<>>) = 0
      OBVIOUS
    <3> QED
      BY <3>1, <3>2
  <2>5. timerq'[Len(timerq')] = timerq[Len(timerq)]
    <3>1. Len(timerq) - 1 + 1 = Len(timerq)
      BY <2>1
    <3> QED
      BY <1>1, <2>1, <2>3, <3>1
  <2> QED
    BY <1>1, <2>4, <2>5 DEF TimerSettled
<1>4. Len(timerq) = 1 \/ Len(timerq) > 1
  <2>1. Len(timerq) \in Nat \ {0}
    BY <1>1
  <2>2. \A n \in Nat \ {0} : n = 1 \/ n > 1
    OBVIOUS
  <2> QED
    BY <2>1, <2>2
<1> QED
  BY <1>2, <1>3, <1>4

\* A new command for the timer is where it will end.
LEMMA TimerGets ==
  ASSUME TypeOK, NEW on \in BOOLEAN, timerq' = Append(timerq, on)
  PROVE  TimerSettled' <=> on
<1>1. timerq \in Seq(BOOLEAN)
  BY DEF TypeOK
<1>2. LET q == Append(timerq, on)
      IN q # <<>> /\ Len(q) = Len(timerq) + 1 /\ q[Len(timerq) + 1] = on
  BY <1>1
<1> QED
  BY <1>2 DEF TimerSettled

LEMMA MonitorSame ==
  ASSUME MonitorObeys,
         UNCHANGED <<data_arguments, flag, inq, timerq, running, asked, lost>>
  PROVE  MonitorObeys'
  BY DEF MonitorObeys, MonitorSettled, TimerSettled, Pending

LEMMA MonitorStep == TypeOK /\ MonitorObeys /\ [Next]_vars => MonitorObeys'
<1> SUFFICES ASSUME TypeOK, MonitorObeys, [Next]_vars
             PROVE  MonitorObeys'
  OBVIOUS
<1> DEFINE N == CMD_TASK_N2
           on == LastFor("config", inq, TimerSettled)
<1>1. N # CMD_TASK_N1 /\ N \in Process
  BY DEF CMD_TASK_N1, CMD_TASK_N2, Process
<1>2. /\ inq \in Seq(InputRequest) /\ TimerSettled \in BOOLEAN
      /\ \A c \in InputRequest : c.set \in BOOLEAN
  BY TimerSettledType, Requests DEF TypeOK
<1>3. /\ data_arguments.destino \in Process /\ data_arguments.arg1 \in BOOLEAN
      /\ data_arguments \in [destino : Process, arg1 : BOOLEAN]
      /\ asked \in [Process -> BOOLEAN] /\ flag \in BOOLEAN
  BY DEF TypeOK
<1>4. ASSUME UNCHANGED <<inq, timerq, running>>
      PROVE  LastFor("config", inq', TimerSettled') = on
  BY <1>4 DEF TimerSettled
<1>5. N \notin lost =>
        (IF flag /\ data_arguments.destino = N THEN data_arguments.arg1 ELSE on)
           <=> asked[N]
  BY DEF MonitorObeys, MonitorSettled, Pending
<1>6. ASSUME N \notin lost' =>
        (IF flag' /\ data_arguments'.destino = N THEN data_arguments'.arg1
           ELSE LastFor("config", inq', TimerSettled')) <=> asked'[N]
      PROVE  MonitorObeys'
  BY <1>6 DEF MonitorObeys, MonitorSettled, Pending
<1>7. CASE Stop
  <2>1. /\ ~flag /\ flag' = TRUE /\ data_arguments'.arg1 = FALSE
        /\ data_arguments'.destino = data_arguments.destino
        /\ asked' = [asked EXCEPT ![data_arguments.destino] = FALSE]
        /\ UNCHANGED <<inq, timerq, running, lost>>
    BY <1>3, <1>7 DEF Stop, timers
  <2>2. CASE data_arguments.destino = N
    <3>1. asked'[N] = FALSE
      BY <1>1, <1>3, <2>1, <2>2
    <3> QED
      BY <1>6, <2>1, <2>2, <3>1
  <2>3. CASE data_arguments.destino # N
    <3>1. asked'[N] = asked[N]
      BY <1>1, <1>3, <2>1, <2>3
    <3> QED
      BY <1>4, <1>5, <1>6, <2>1, <2>3, <3>1
  <2> QED
    BY <2>2, <2>3
<1>8. ASSUME NEW p \in Process, NEW all \in BOOLEAN, Start(p, all)
      PROVE  MonitorObeys'
  <2>1. /\ ~flag /\ flag' = all /\ (all => data_arguments'.arg1)
        /\ data_arguments'.arg1 \in BOOLEAN /\ data_arguments'.destino = p
        /\ asked' = [asked EXCEPT ![p] = @ \/ all]
        /\ UNCHANGED <<inq, timerq, running, lost>>
    BY <1>3, <1>8 DEF Start, timers
  <2>2. CASE p = N /\ all
    <3>1. asked'[N]
      BY <1>1, <1>3, <2>1, <2>2
    <3> QED
      BY <1>6, <2>1, <2>2, <3>1
  <2>3. CASE ~(p = N /\ all)
    <3>1. asked'[N] <=> asked[N]
      BY <1>1, <1>3, <2>1, <2>3
    <3> QED
      BY <1>4, <1>5, <1>6, <2>1, <2>3, <3>1
  <2> QED
    BY <2>2, <2>3
<1>9. CASE SendCommand
  <2>1. flag /\ ~flag' /\ UNCHANGED <<timerq, running, asked, lost>>
    BY <1>9 DEF SendCommand, timers
  <2>2. CASE data_arguments.destino = N
    <3>1. inq' = Append(inq, Config)
      BY <1>1, <1>9, <2>2 DEF SendCommand
    <3>2. /\ Config \in InputRequest /\ Config.id = "config"
          /\ Config.set = data_arguments.arg1
      BY <1>3 DEF Config, InputRequest
    <3>3. TimerSettled' = TimerSettled
      BY <2>1 DEF TimerSettled
    <3>4. LastFor("config", inq', TimerSettled') <=> data_arguments.arg1
      BY <1>2, <3>1, <3>2, <3>3, AppendOf
    <3> QED
      BY <1>5, <1>6, <2>1, <2>2, <3>4
  <2>3. CASE data_arguments.destino # N
    <3>1. inq' = inq
      BY <1>9, <2>3 DEF SendCommand
    <3> QED
      BY <1>4, <1>5, <1>6, <2>1, <2>3, <3>1
  <2> QED
    BY <2>2, <2>3
<1>10. CASE SendCommandTimeout
  <2>1. /\ flag /\ ~flag' /\ lost' = lost \cup {data_arguments.destino}
        /\ UNCHANGED <<inq, timerq, running, asked>>
    BY <1>10 DEF SendCommandTimeout, timers
  <2> QED
    BY <1>4, <1>5, <1>6, <2>1
<1>11. CASE ReportStatus
  <2>1. /\ inq # <<>> /\ Head(inq).id # "config" /\ inq' = Tail(inq)
        /\ UNCHANGED <<data_arguments, flag, timerq, running, asked, lost>>
    BY <1>11 DEF ReportStatus, shell, timers
  <2>2. TimerSettled' = TimerSettled
    BY <2>1 DEF TimerSettled
  <2>3. LastFor("config", inq, TimerSettled)
          <=> LastFor("config", Tail(inq),
                IF Head(inq).id = "config" THEN Head(inq).set ELSE TimerSettled)
    BY <1>2, <2>1, HeadOf
  <2>4. on <=> LastFor("config", inq', TimerSettled')
    BY <2>1, <2>2, <2>3
  <2> QED
    BY <1>5, <1>6, <2>1, <2>4
<1>12. CASE ReportConfig
  <2>1. /\ inq # <<>> /\ Head(inq).id = "config" /\ inq' = Tail(inq)
        /\ UNCHANGED <<data_arguments, flag, running, asked>>
    BY <1>12 DEF ReportConfig, shell
  <2>2. CASE N \in lost'
    BY <1>6, <2>2
  <2>3. CASE N \notin lost'
    <3>1. timerq' = Append(timerq, Head(inq).set) /\ lost' = lost
      BY <1>12, <2>3 DEF ReportConfig
    <3>2. Head(inq).set \in BOOLEAN
      BY <1>2, <2>1, TailOf
    <3>3. TimerSettled' <=> Head(inq).set
      BY <3>1, <3>2, TimerGets
    <3>4. TimerSettled' \in BOOLEAN
      <4>1. TypeOK'
        BY TypeStep
      <4> QED
        BY <4>1 DEF TypeOK, TimerSettled
    <3>5. TimerSettled' = Head(inq).set
      BY <3>2, <3>3, <3>4
    <3>6. LastFor("config", inq, TimerSettled)
            <=> LastFor("config", Tail(inq),
                  IF Head(inq).id = "config" THEN Head(inq).set ELSE TimerSettled)
      BY <1>2, <2>1, HeadOf
    <3>7. on <=> LastFor("config", inq', TimerSettled')
      BY <2>1, <3>5, <3>6
    <3> QED
      BY <1>5, <1>6, <2>1, <3>1, <3>7
  <2> QED
    BY <2>2, <2>3
<1>13. CASE TimerCommand
  <2>1. UNCHANGED <<data_arguments, flag, inq, asked, lost>>
    BY <1>13 DEF TimerCommand, shell
  <2>2. TimerSettled' <=> TimerSettled
    BY <1>13, TimerTakes
  <2>3. TimerSettled' \in BOOLEAN
    <3>1. TypeOK'
      BY TypeStep
    <3> QED
      BY <3>1 DEF TypeOK, TimerSettled
  <2>4. TimerSettled' = TimerSettled
    BY <1>2, <2>2, <2>3
  <2> QED
    BY <1>5, <1>6, <2>1, <2>4
<1>14. CASE ReportSend
  <2>1. UNCHANGED <<data_arguments, flag, timerq, running, asked, lost>>
    BY <1>14 DEF ReportSend, shell
  <2>2. TimerSettled' = TimerSettled
    BY <2>1 DEF TimerSettled
  <2>3. CASE inq' = Append(inq, Status)
    <3>1. Status \in InputRequest /\ Status.id # "config"
      BY DEF Status, InputRequest
    <3>2. LastFor("config", inq', TimerSettled') <=> on
      BY <1>2, <2>2, <2>3, <3>1, AppendOf
    <3> QED
      BY <1>5, <1>6, <2>1, <3>2
  <2>4. CASE inq' = inq
    BY <2>1, <2>4, MonitorSame
  <2> QED
    BY <1>14, <2>3, <2>4 DEF ReportSend
<1>15. CASE TakeMessage
  BY <1>15, MonitorSame DEF TakeMessage, shell, timers
<1>16. ASSUME NEW s \in Sender, Put(s) \/ PutTimeout(s)
       PROVE  MonitorObeys'
  BY <1>16, MonitorSame DEF Put, PutTimeout, shell, timers
<1>17. CASE Report
  BY <1>17, MonitorSame DEF Report, shell
<1>18. CASE ServiceTake \/ ServiceTimeout \/ WritePage \/ OutputText
  BY <1>18, MonitorSame
  DEF ServiceTake, ServiceTimeout, WritePage, OutputText, shell, timers
<1>19. CASE UNCHANGED vars
  BY <1>19, MonitorSame DEF vars, shell, timers
<1> QED
  BY <1>7, <1>8, <1>9, <1>10, <1>11, <1>12, <1>13, <1>14, <1>15, <1>16, <1>17,
     <1>18, <1>19 DEF Next, Command
-----------------------------------------------------------------------------
(* The reading of the log *)

LEMMA ReadingSame ==
  ASSUME ReadingObeys,
         UNCHANGED <<data_arguments, flag, logq, modeMonitor, asked, lost>>
  PROVE  ReadingObeys'
  BY DEF ReadingObeys, ReadingSettled, Pending

LEMMA ReadingStep == TypeOK /\ ReadingObeys /\ [Next]_vars => ReadingObeys'
<1> SUFFICES ASSUME TypeOK, ReadingObeys, [Next]_vars
             PROVE  ReadingObeys'
  OBVIOUS
<1> DEFINE N == CMD_TASK_N1
           on == LastFor("read", logq, modeMonitor)
<1>1. N # CMD_TASK_N2 /\ N \in Process
  BY DEF CMD_TASK_N1, CMD_TASK_N2, Process
<1>2. /\ logq \in Seq(LogRequest) /\ modeMonitor \in BOOLEAN
      /\ \A c \in LogRequest : c.set \in BOOLEAN
  BY Requests DEF TypeOK
<1>3. /\ data_arguments.destino \in Process /\ data_arguments.arg1 \in BOOLEAN
      /\ data_arguments \in [destino : Process, arg1 : BOOLEAN]
      /\ asked \in [Process -> BOOLEAN] /\ flag \in BOOLEAN
  BY DEF TypeOK
<1>4. N \notin lost /\ ~asked[N] =>
        ~(IF flag /\ data_arguments.destino = N THEN data_arguments.arg1 ELSE on)
  BY DEF ReadingObeys, ReadingSettled, Pending
<1>5. ASSUME N \notin lost' /\ ~asked'[N] =>
        ~(IF flag' /\ data_arguments'.destino = N THEN data_arguments'.arg1
            ELSE LastFor("read", logq', modeMonitor'))
      PROVE  ReadingObeys'
  BY <1>5 DEF ReadingObeys, ReadingSettled, Pending
<1>6. CASE Stop
  <2>1. /\ ~flag /\ flag' = TRUE /\ data_arguments'.arg1 = FALSE
        /\ data_arguments'.destino = data_arguments.destino
        /\ asked' = [asked EXCEPT ![data_arguments.destino] = FALSE]
        /\ UNCHANGED <<logq, modeMonitor, lost>>
    BY <1>3, <1>6 DEF Stop
  <2>2. CASE data_arguments.destino = N
    BY <1>5, <2>1, <2>2
  <2>3. CASE data_arguments.destino # N
    <3>1. asked'[N] = asked[N]
      BY <1>1, <1>3, <2>1, <2>3
    <3> QED
      BY <1>4, <1>5, <2>1, <2>3, <3>1
  <2> QED
    BY <2>2, <2>3
<1>7. ASSUME NEW p \in Process, NEW all \in BOOLEAN, Start(p, all)
      PROVE  ReadingObeys'
  <2>1. /\ ~flag /\ flag' = all /\ data_arguments'.destino = p
        /\ asked' = [asked EXCEPT ![p] = @ \/ all]
        /\ UNCHANGED <<logq, modeMonitor, lost>>
    BY <1>3, <1>7 DEF Start
  <2>2. CASE p = N /\ all
    <3>1. asked'[N]
      BY <1>1, <1>3, <2>1, <2>2
    <3> QED
      BY <1>5, <3>1
  <2>3. CASE ~(p = N /\ all)
    <3>1. asked'[N] <=> asked[N]
      BY <1>1, <1>3, <2>1, <2>3
    <3> QED
      BY <1>4, <1>5, <2>1, <2>3, <3>1
  <2> QED
    BY <2>2, <2>3
<1>8. CASE SendCommand
  <2>1. flag /\ ~flag' /\ UNCHANGED <<modeMonitor, asked, lost>>
    BY <1>8 DEF SendCommand
  <2>2. CASE data_arguments.destino = N
    <3>1. logq' = Append(logq, Read)
      BY <1>1, <1>8, <2>2 DEF SendCommand
    <3>2. Read \in LogRequest /\ Read.id = "read" /\ Read.set = data_arguments.arg1
      BY <1>3 DEF Read, LogRequest
    <3>3. LastFor("read", logq', modeMonitor') <=> data_arguments.arg1
      BY <1>2, <2>1, <3>1, <3>2, AppendOf
    <3> QED
      BY <1>4, <1>5, <2>1, <2>2, <3>3
  <2>3. CASE data_arguments.destino # N
    <3>1. logq' = logq
      BY <1>8, <2>3 DEF SendCommand
    <3> QED
      BY <1>4, <1>5, <2>1, <2>3, <3>1
  <2> QED
    BY <2>2, <2>3
<1>9. CASE SendCommandTimeout
  <2>1. /\ flag /\ ~flag' /\ lost' = lost \cup {data_arguments.destino}
        /\ UNCHANGED <<logq, modeMonitor, asked>>
    BY <1>9 DEF SendCommandTimeout
  <2> QED
    BY <1>4, <1>5, <2>1
<1>10. CASE ReportConfig
  <2>1. /\ UNCHANGED <<data_arguments, flag, logq, modeMonitor, asked>>
        /\ N \notin lost' => N \notin lost
    BY <1>10 DEF ReportConfig, shell
  <2> QED
    BY <1>4, <1>5, <2>1
<1>11. CASE ServiceTake
  <2>1. /\ logq # <<>> /\ logq' = Tail(logq)
        /\ modeMonitor' = IF Head(logq).id = "read" THEN Head(logq).set ELSE modeMonitor
        /\ UNCHANGED <<data_arguments, flag, asked, lost>>
    BY <1>11 DEF ServiceTake, shell
  <2>2. LastFor("read", logq, modeMonitor)
          <=> LastFor("read", Tail(logq),
                IF Head(logq).id = "read" THEN Head(logq).set ELSE modeMonitor)
    BY <1>2, <2>1, HeadOf
  <2>3. on <=> LastFor("read", logq', modeMonitor')
    BY <2>1, <2>2
  <2> QED
    BY <1>4, <1>5, <2>1, <2>3
<1>12. CASE ServiceTimeout
  <2>1. /\ logq = <<>> /\ UNCHANGED <<data_arguments, flag, logq, asked, lost>>
        /\ modeMonitor' = modeMonitor \/ modeMonitor' = FALSE
    BY <1>12 DEF ServiceTimeout, shell
  <2>2. CASE modeMonitor' = modeMonitor
    BY <2>1, <2>2, ReadingSame
  <2>3. CASE modeMonitor' = FALSE
    <3>1. ~LastFor("read", logq', modeMonitor')
      BY <2>1, <2>3, LastEmpty
    <3> QED
      BY <1>4, <1>5, <2>1, <3>1
  <2> QED
    BY <2>1, <2>2, <2>3
<1>13. CASE WritePage
  <2>1. /\ UNCHANGED <<data_arguments, flag, modeMonitor, asked, lost>>
        /\ logq' = Append(logq, Write)
    BY <1>13 DEF WritePage, shell
  <2>2. Write \in LogRequest /\ Write.id # "read"
    BY DEF Write, LogRequest
  <2>3. LastFor("read", logq', modeMonitor') <=> on
    BY <1>2, <2>1, <2>2, AppendOf
  <2> QED
    BY <1>4, <1>5, <2>1, <2>3
<1>14. CASE TakeMessage \/ ReportStatus \/ OutputText
  BY <1>14, ReadingSame DEF TakeMessage, ReportStatus, OutputText, shell
<1>15. ASSUME NEW s \in Sender, Put(s) \/ PutTimeout(s)
       PROVE  ReadingObeys'
  BY <1>15, ReadingSame DEF Put, PutTimeout, shell
<1>16. CASE TimerCommand \/ Report \/ ReportSend
  BY <1>16, ReadingSame DEF TimerCommand, Report, ReportSend, shell
<1>17. CASE UNCHANGED vars
  BY <1>17, ReadingSame DEF vars, shell
<1> QED
  BY <1>6, <1>7, <1>8, <1>9, <1>10, <1>11, <1>12, <1>13, <1>14, <1>15, <1>16,
     <1>17 DEF Next, Command
-----------------------------------------------------------------------------
(* The texts *)

LEMMA NewestSame ==
  ASSUME NewestShown, UNCHANGED <<unseen, sending, termq>>
  PROVE  NewestShown'
  BY DEF NewestShown

\* A new text is at its send, and the others stay where they are.
LEMMA NewestWritten ==
  ASSUME TypeOK, NewestShown, NEW s \in Sender, WriteText(s), UNCHANGED termq
  PROVE  NewestShown'
<1> SUFFICES ASSUME NEW t \in unseen'
             PROVE  \/ sending'[t] = <<Text(t)>>
                    \/ \E k \in 1 .. Len(termq') : termq'[k] = Text(t)
  BY DEF NewestShown
<1>1. CASE t = s
  BY <1>1 DEF WriteText, TypeOK
<1>2. CASE t # s
  <2>1. t \in unseen /\ t \in Sender /\ sending'[t] = sending[t]
    BY <1>2 DEF WriteText, TypeOK
  <2> QED
    BY <2>1 DEF NewestShown
<1> QED
  BY <1>1, <1>2

LEMMA NewestStep == TypeOK /\ NewestShown /\ [Next]_vars => NewestShown'
<1> SUFFICES ASSUME TypeOK, NewestShown, [Next]_vars
             PROVE  NewestShown'
  OBVIOUS
<1>1. /\ termq \in Seq(Message) /\ Len(termq) \in Nat
      /\ sending \in [Sender -> Seq(Message)] /\ unseen \subseteq Sender
  BY DEF TypeOK
<1>2. \A s \in Sender : Text(s).from = s /\ Text(s).text
  BY DEF Text
<1>3. CASE TakeMessage
  <2> SUFFICES ASSUME NEW t \in unseen'
               PROVE  \/ sending'[t] = <<Text(t)>>
                      \/ \E k \in 1 .. Len(termq') : termq'[k] = Text(t)
    BY DEF NewestShown
  <2>1. /\ termq # <<>> /\ termq' = Tail(termq) /\ sending' = sending
        /\ t \in unseen /\ (Head(termq).text => t # Head(termq).from)
    BY <1>3 DEF TakeMessage
  <2>2. CASE sending[t] = <<Text(t)>>
    BY <2>1, <2>2
  <2>3. CASE sending[t] # <<Text(t)>>
    <3>1. PICK k \in 1 .. Len(termq) : termq[k] = Text(t)
      BY <2>1, <2>3 DEF NewestShown
    <3>2. Head(termq) # Text(t) /\ Head(termq) = termq[1]
      BY <1>1, <1>2, <2>1
    <3>3. k # 1 /\ k - 1 \in 1 .. Len(termq) - 1 /\ k - 1 + 1 = k
      BY <1>1, <3>1, <3>2
    <3>4. Len(termq') = Len(termq) - 1 /\ termq'[k - 1] = termq[k]
      BY <1>1, <2>1, <3>3, TailOf
    <3> QED
      BY <3>1, <3>3, <3>4
  <2> QED
    BY <2>2, <2>3
<1>4. ASSUME NEW s \in Sender, Put(s)
      PROVE  NewestShown'
  <2> SUFFICES ASSUME NEW t \in unseen'
               PROVE  \/ sending'[t] = <<Text(t)>>
                      \/ \E k \in 1 .. Len(termq') : termq'[k] = Text(t)
    BY DEF NewestShown
  <2>1. /\ termq' = termq \o sending[s] /\ t \in unseen /\ t \in Sender
        /\ sending' = [sending EXCEPT ![s] = <<>>]
    BY <1>1, <1>4 DEF Put
  <2>2. sending[s] \in Seq(Message) /\ Len(sending[s]) \in Nat
    BY <1>1
  <2>3. /\ Len(termq') = Len(termq) + Len(sending[s])
        /\ \A k \in 1 .. Len(termq) : termq'[k] = termq[k]
        /\ \A k \in 1 .. Len(sending[s]) : termq'[Len(termq) + k] = sending[s][k]
    BY <1>1, <2>1, <2>2
  <2>4. CASE \E k \in 1 .. Len(termq) : termq[k] = Text(t)
    <3>1. PICK k \in 1 .. Len(termq) : termq[k] = Text(t)
      BY <2>4
    <3>2. k \in 1 .. Len(termq') /\ termq'[k] = Text(t)
      BY <1>1, <2>2, <2>3, <3>1
    <3> QED
      BY <3>2
  <2>5. CASE sending[t] = <<Text(t)>> /\ t # s
    BY <1>1, <2>1, <2>5
  <2>6. CASE sending[t] = <<Text(t)>> /\ t = s
    <3>1. sending[s] = <<Text(t)>>
      BY <2>6
    <3>2. 1 \in 1 .. Len(sending[s]) /\ sending[s][1] = Text(t) /\ Len(sending[s]) = 1
      BY <3>1
    <3>3. Len(termq) + 1 \in 1 .. Len(termq') /\ termq'[Len(termq) + 1] = Text(t)
      BY <1>1, <2>3, <3>2
    <3> QED
      BY <3>3
  <2> QED
    BY <2>1, <2>4, <2>5, <2>6 DEF NewestShown
<1>5. ASSUME NEW s \in Sender, PutTimeout(s)
      PROVE  NewestShown'
  <2> SUFFICES ASSUME NEW t \in unseen'
               PROVE  \/ sending'[t] = <<Text(t)>>
                      \/ \E k \in 1 .. Len(termq') : termq'[k] = Text(t)
    BY DEF NewestShown
  <2>1. /\ termq' = termq /\ t \in unseen /\ t \in Sender
        /\ sending' = [sending EXCEPT ![s] = <<>>]
        /\ (Head(sending[s]).text => t # s)
    BY <1>1, <1>5 DEF PutTimeout
  <2>2. CASE sending[t] = <<Text(t)>>
    <3>1. t # s
      BY <1>2, <2>1, <2>2
    <3> QED
      BY <1>1, <2>1, <2>2, <3>1
  <2>3. CASE sending[t] # <<Text(t)>>
    BY <2>1, <2>3 DEF NewestShown
  <2> QED
    BY <2>2, <2>3
<1>6. CASE ReportStatus
  BY <1>6, NewestWritten, Senders DEF ReportStatus
<1>7. CASE ReportConfig
  <2> SUFFICES ASSUME NEW t \in unseen'
               PROVE  \/ sending'[t] = <<Text(t)>>
                      \/ \E k \in 1 .. Len(termq') : termq'[k] = Text(t)
    BY DEF NewestShown
  <2>1. /\ termq' = termq /\ t \in unseen /\ t \in Sender /\ sending["input"] = <<>>
        /\ (t # "input" => sending'[t] = sending[t])
    BY <1>1, <1>7 DEF ReportConfig
  <2>2. t = "input" => sending[t] # <<Text(t)>>
    BY <2>1
  <2> QED
    BY <2>1, <2>2 DEF NewestShown
<1>8. CASE ServiceTimeout
  <2>1. CASE WriteText("service")
    BY <1>8, <2>1, NewestWritten, Senders DEF ServiceTimeout
  <2>2. CASE UNCHANGED <<sending, unseen>>
    BY <1>8, <2>2, NewestSame DEF ServiceTimeout
  <2> QED
    BY <1>8, <2>1, <2>2 DEF ServiceTimeout
<1>9. CASE OutputText
  BY <1>9, NewestWritten DEF OutputText
<1>10. CASE Command
  BY <1>10, NewestSame DEF Command, Stop, Start
<1>11. CASE SendCommand \/ SendCommandTimeout
  BY <1>11, NewestSame DEF SendCommand, SendCommandTimeout
<1>12. CASE TimerCommand \/ Report \/ ReportSend
  BY <1>12, NewestSame DEF TimerCommand, Report, ReportSend
<1>13. CASE ServiceTake \/ WritePage
  BY <1>13, NewestSame DEF ServiceTake, WritePage
<1>14. CASE UNCHANGED vars
  BY <1>14, NewestSame DEF vars
<1> QED
  BY <1>3, <1>4, <1>5, <1>6, <1>7, <1>8, <1>9, <1>10, <1>11, <1>12, <1>13, <1>14
  DEF Next
-----------------------------------------------------------------------------
(* The theorems *)

LEMMA InvInit == Init => IInv
<1> SUFFICES ASSUME Init
             PROVE  IInv
  OBVIOUS
<1>1. /\ ~flag /\ inq = <<>> /\ logq = <<>> /\ timerq = <<>> /\ running = FALSE
      /\ modeMonitor = FALSE /\ unseen = {}
  BY DEF Init
<1>2. ~asked[CMD_TASK_N2]
  BY DEF Init, Process
<1>3. TimerSettled = FALSE
  BY <1>1 DEF TimerSettled
<1>4. MonitorObeys
  BY <1>1, <1>2, <1>3, LastEmpty DEF MonitorObeys, MonitorSettled, Pending
<1>5. ReadingObeys
  BY <1>1, LastEmpty DEF ReadingObeys, ReadingSettled, Pending
<1>6. NewestShown
  BY <1>1 DEF NewestShown
<1> QED
  BY <1>4, <1>5, <1>6, TypeInit DEF IInv

LEMMA InvStep == IInv /\ [Next]_vars => IInv'
  BY TypeStep, MonitorStep, ReadingStep, NewestStep DEF IInv

\* Every queue keeps to its length, every task has one message at its send at
\* most, and the index of the monitor stays inside the table of the inputs.
THEOREM TerminalTypeCorrect == Spec => []TypeOK
<1>1. Init => TypeOK
  BY TypeInit
<1>2. TypeOK /\ [Next]_vars => TypeOK'
  BY TypeStep
<1> QED
  BY <1>1, <1>2, PTL DEF Spec

\* However full the three queues are on the way, the monitor follows the last
\* command for it when none was lost.
THEOREM MonitorFollows == Spec => []MonitorObeys
<1>1. IInv => MonitorObeys
  BY DEF IInv
<1> QED
  BY <1>1, InvInit, InvStep, PTL DEF Spec

\* The same of the reading of the log, which may also end by itself.
THEOREM ReadingFollows == Spec => []ReadingObeys
<1>1. IInv => ReadingObeys
  BY DEF IInv
<1> QED
  BY <1>1, InvInit, InvStep, PTL DEF Spec

\* With any number of tasks that share the terminal's queue, each with one
\* buffer for all of its messages, the newest text of none is passed over.
THEOREM NewestKept == Spec => []NewestShown
<1>1. IInv => NewestShown
  BY DEF IInv
<1> QED
  BY <1>1, InvInit, InvStep, PTL DEF Spec
-----------------------------------------------------------------------------
(* The two channels *)

MonitorWay == timerq \o CommandsFor("config", inq) \o Given(CMD_TASK_N2)
ReadingWay == CommandsFor("read", logq) \o Given(CMD_TASK_N1)

LEMMA WayType ==
  ASSUME TypeOK
  PROVE  /\ timerq \in Seq(BOOLEAN) /\ CommandsFor("config", inq) \in Seq(BOOLEAN)
         /\ CommandsFor("read", logq) \in Seq(BOOLEAN)
         /\ data_arguments.arg1 \in BOOLEAN
         /\ \A p \in Process : Given(p) \in Seq(BOOLEAN)
<1>1. /\ CommandsFor("config", inq) \in Seq(BOOLEAN)
      /\ CommandsFor("read", logq) \in Seq(BOOLEAN)
  BY Queues, Requests, CommandsType
<1>2. data_arguments.arg1 \in BOOLEAN
  BY DEF TypeOK
<1>3. ASSUME NEW p \in Process
      PROVE  Given(p) \in Seq(BOOLEAN)
  <2>1. \A b \in BOOLEAN : <<b>> \in Seq(BOOLEAN)
    OBVIOUS
  <2>2. <<data_arguments.arg1>> \in Seq(BOOLEAN) /\ <<>> \in Seq(BOOLEAN)
    BY <1>2, <2>1
  <2> QED
    BY <2>2 DEF Given
<1> QED
  BY <1>1, <1>2, <1>3, Queues

\* What a step of the monitor's channel is, in the terms of Terminal.
LEMMA MonitorChannelStep ==
  ASSUME \/ /\ MonitorWay' = MonitorWay /\ running' = running
            /\ (CMD_TASK_N2 \in lost)' = (CMD_TASK_N2 \in lost)
         \/ /\ \E b \in BOOLEAN : MonitorWay' = Append(MonitorWay, b)
            /\ running' = running
            /\ (CMD_TASK_N2 \in lost)' = (CMD_TASK_N2 \in lost)
         \/ /\ MonitorWay # <<>> /\ MonitorWay' = Tail(MonitorWay)
            /\ running' = Head(MonitorWay)
            /\ (CMD_TASK_N2 \in lost)' = (CMD_TASK_N2 \in lost)
         \/ /\ \E k \in 1 .. Len(MonitorWay) :
                 MonitorWay' = SubSeq(MonitorWay, 1, k - 1)
                                 \o SubSeq(MonitorWay, k + 1, Len(MonitorWay))
            /\ running' = running /\ CMD_TASK_N2 \in lost'
  PROVE  [MonitorChannel!Next]_(MonitorChannel!vars)
  BY DEF MonitorChannel!Next, MonitorChannel!Give, MonitorChannel!Obey,
         MonitorChannel!Lose, MonitorChannel!Without, MonitorChannel!vars,
         MonitorWay

LEMMA ReadingChannelStep ==
  ASSUME \/ /\ ReadingWay' = ReadingWay /\ modeMonitor' = modeMonitor
            /\ (CMD_TASK_N1 \in lost)' = (CMD_TASK_N1 \in lost)
         \/ /\ \E b \in BOOLEAN : ReadingWay' = Append(ReadingWay, b)
            /\ modeMonitor' = modeMonitor
            /\ (CMD_TASK_N1 \in lost)' = (CMD_TASK_N1 \in lost)
         \/ /\ ReadingWay # <<>> /\ ReadingWay' = Tail(ReadingWay)
            /\ modeMonitor' = Head(ReadingWay)
            /\ (CMD_TASK_N1 \in lost)' = (CMD_TASK_N1 \in lost)
         \/ /\ ReadingWay' = ReadingWay /\ modeMonitor' = FALSE
            /\ (CMD_TASK_N1 \in lost)' = (CMD_TASK_N1 \in lost)
         \/ /\ \E k \in 1 .. Len(ReadingWay) :
                 ReadingWay' = SubSeq(ReadingWay, 1, k - 1)
                                 \o SubSeq(ReadingWay, k + 1, Len(ReadingWay))
            /\ modeMonitor' = modeMonitor /\ CMD_TASK_N1 \in lost'
  PROVE  [ReadingChannel!Next]_(ReadingChannel!vars)
  BY DEF ReadingChannel!Next, ReadingChannel!Give, ReadingChannel!Obey,
         ReadingChannel!End, ReadingChannel!Lose, ReadingChannel!Without,
         ReadingChannel!vars, ReadingWay

LEMMA MonitorChannelStays ==
  ASSUME UNCHANGED <<timerq, inq, shell, running, lost>>
  PROVE  [MonitorChannel!Next]_(MonitorChannel!vars)
<1>1. /\ MonitorWay' = MonitorWay /\ running' = running
      /\ (CMD_TASK_N2 \in lost)' = (CMD_TASK_N2 \in lost)
  BY DEF MonitorWay, Given, shell
<1> QED
  BY <1>1, MonitorChannelStep

LEMMA MonitorOperated ==
  ASSUME TypeOK, [Next]_vars
  PROVE  [MonitorChannel!Next]_(MonitorChannel!vars)
<1> DEFINE C == CommandsFor("config", inq)
           G == Given(CMD_TASK_N2)
<1>1. /\ timerq \in Seq(BOOLEAN) /\ C \in Seq(BOOLEAN) /\ G \in Seq(BOOLEAN)
      /\ data_arguments.arg1 \in BOOLEAN /\ CMD_TASK_N2 \in Process
  BY WayType DEF Process
<1>2. MonitorWay = timerq \o C \o G /\ timerq \o C \in Seq(BOOLEAN)
  BY <1>1 DEF MonitorWay
<1>3. /\ ~flag => G = <<>> /\ MonitorWay = timerq \o C
      /\ flag /\ data_arguments.destino # CMD_TASK_N2 => G = <<>>
  BY <1>1, <1>2, JoinEmpty DEF Given
<1>4. /\ inq \in Seq(InputRequest)
      /\ \A c \in InputRequest : c.set \in BOOLEAN
  BY Queues, Requests
<1> HIDE DEF C, G
<1>5. ASSUME NEW b \in BOOLEAN, ~flag, UNCHANGED <<timerq, inq, running, lost>>,
             G' = <<>> \/ G' = <<b>>
      PROVE  [MonitorChannel!Next]_(MonitorChannel!vars)
  <2>1. MonitorWay' = timerq \o C \o G'
    BY <1>5 DEF MonitorWay, C, G
  <2>2. MonitorWay' = MonitorWay \/ MonitorWay' = Append(MonitorWay, b)
    <3> DEFINE s == timerq \o C
    <3>1. s \in Seq(BOOLEAN) /\ MonitorWay = s /\ MonitorWay' = s \o G'
      BY <1>2, <1>3, <1>5, <2>1
    <3> HIDE DEF s
    <3>2. s \o <<>> = s /\ s \o <<b>> = Append(s, b)
      BY <3>1, JoinEmpty, JoinAppend
    <3> QED
      BY <1>5, <3>1, <3>2
  <2> QED
    BY <1>5, <2>2, MonitorChannelStep
<1>6. CASE Stop
  <2>1. /\ ~flag /\ UNCHANGED <<timerq, inq, running, lost>>
        /\ G' = <<>> \/ G' = <<FALSE>>
    BY <1>6 DEF Stop, Given, timers, G, TypeOK
  <2> QED
    BY <1>5, <2>1
<1>7. ASSUME NEW p \in Process, NEW all \in BOOLEAN, Start(p, all)
      PROVE  [MonitorChannel!Next]_(MonitorChannel!vars)
  <2>1. /\ ~flag /\ UNCHANGED <<timerq, inq, running, lost>>
        /\ G' = <<>> \/ G' = <<TRUE>>
    BY <1>7 DEF Start, Given, timers, G
  <2> QED
    BY <1>5, <2>1
<1>8. CASE SendCommand
  <2>1. flag /\ ~flag' /\ UNCHANGED <<timerq, running, lost>> /\ G' = <<>>
    BY <1>8 DEF SendCommand, timers, Given, G
  <2>2. CASE data_arguments.destino = CMD_TASK_N2 /\ inq' = Append(inq, Config)
    <3>1. Config \in InputRequest /\ Config.id = "config"
          /\ Config.set = data_arguments.arg1
      BY <1>1 DEF Config, InputRequest
    <3>2. C' = Append(C, data_arguments.arg1)
      BY <1>4, <2>2, <3>1, CommandsAppend DEF C
    <3>3. G = <<data_arguments.arg1>>
      BY <2>1, <2>2 DEF Given, G
    <3>4. MonitorWay' = timerq \o Append(C, data_arguments.arg1) \o <<>>
      BY <2>1, <3>2 DEF MonitorWay, C, G
    <3>5. MonitorWay' = MonitorWay
      <4>1. timerq \o Append(C, data_arguments.arg1)
              = Append(timerq \o C, data_arguments.arg1)
        BY <1>1, JoinAppend
      <4>2. (timerq \o C) \o G = Append(timerq \o C, data_arguments.arg1)
        BY <1>1, <1>2, <3>3, JoinAppend
      <4>3. MonitorWay \in Seq(BOOLEAN) /\ MonitorWay \o <<>> = MonitorWay
        BY <1>1, <1>2
      <4> QED
        BY <1>2, <3>4, <4>1, <4>2, <4>3
    <3> QED
      BY <2>1, <3>5, MonitorChannelStep
  <2>3. CASE data_arguments.destino = CMD_TASK_N1 /\ inq' = inq
    <3>1. G = <<>>
      BY <1>3, <2>1, <2>3 DEF CMD_TASK_N1, CMD_TASK_N2
    <3>2. MonitorWay' = MonitorWay
      BY <2>1, <2>3, <3>1 DEF MonitorWay, C, G
    <3> QED
      BY <2>1, <3>2, MonitorChannelStep
  <2> QED
    BY <1>8, <2>2, <2>3 DEF SendCommand
<1>9. CASE SendCommandTimeout
  <2>1. flag /\ ~flag' /\ UNCHANGED <<timerq, inq, running>> /\ G' = <<>>
        /\ lost' = lost \cup {data_arguments.destino}
        /\ data_arguments.destino \in Process
    BY <1>9 DEF SendCommandTimeout, timers, Given, G, TypeOK
  <2>2. MonitorWay' = timerq \o C
    BY <1>2, <2>1, JoinEmpty DEF MonitorWay, C, G
  <2>3. CASE data_arguments.destino = CMD_TASK_N2
    <3>1. G = <<data_arguments.arg1>>
      BY <2>1, <2>3 DEF Given, G
    <3>2. <<>> \in Seq(BOOLEAN) /\ (timerq \o C) \o <<>> = timerq \o C
      BY <1>2, JoinEmpty
    <3> DEFINE s == timerq \o C
               k == Len(s) + 1
    <3>3. MonitorWay = s \o G /\ s \in Seq(BOOLEAN)
      BY <1>2
    <3> HIDE DEF s
    <3>4. /\ k \in 1 .. Len(MonitorWay)
          /\ SubSeq(MonitorWay, 1, k - 1)
               \o SubSeq(MonitorWay, k + 1, Len(MonitorWay)) = s \o Tail(G)
      <4>1. G # <<>>
        BY <3>1
      <4> QED
        BY <1>1, <3>3, <4>1, CutOut
    <3> HIDE DEF k
    <3>5. MonitorWay' = s \o Tail(G)
      BY <2>2, <3>1, <3>2 DEF s
    <3>6. running' = running /\ CMD_TASK_N2 \in lost'
      BY <2>1, <2>3
    <3> QED
      BY <3>4, <3>5, <3>6, MonitorChannelStep
  <2>4. CASE data_arguments.destino = CMD_TASK_N1
    <3>1. MonitorWay' = MonitorWay
      BY <1>2, <1>3, <2>1, <2>2, <2>4, JoinEmpty DEF CMD_TASK_N1, CMD_TASK_N2
    <3>2. (CMD_TASK_N2 \in lost)' = (CMD_TASK_N2 \in lost)
      BY <2>1, <2>4 DEF CMD_TASK_N1, CMD_TASK_N2
    <3> QED
      BY <2>1, <3>1, <3>2, MonitorChannelStep
  <2> QED
    BY <2>1, <2>3, <2>4 DEF Process
<1>10. CASE ReportStatus
  <2>1. /\ inq # <<>> /\ Head(inq).id # "config" /\ inq' = Tail(inq)
        /\ UNCHANGED <<timerq, shell, running, lost>>
    BY <1>10 DEF ReportStatus, timers
  <2>2. C' = C /\ G' = G
    BY <1>4, <2>1, TakenOther DEF C, G, Given, shell
  <2>3. MonitorWay' = MonitorWay
    BY <2>1, <2>2 DEF MonitorWay, C, G
  <2> QED
    BY <2>1, <2>3, MonitorChannelStep
<1>11. CASE ReportConfig
  <2> DEFINE e == Head(inq).set
             D == CommandsFor("config", Tail(inq))
  <2>1. /\ inq # <<>> /\ Head(inq).id = "config" /\ inq' = Tail(inq)
        /\ UNCHANGED <<shell, running>>
    BY <1>11 DEF ReportConfig
  <2>2. Head(inq) \in InputRequest /\ Tail(inq) \in Seq(InputRequest)
    BY <1>4, <2>1, TailOf
  <2>3. e \in BOOLEAN /\ D \in Seq(BOOLEAN) /\ C = <<e>> \o D
    BY <1>4, <2>1, <2>2, CommandsHead, CommandsType DEF C
  <2>4. C' = D /\ G' = G
    BY <2>1 DEF C, G, Given, shell
  <2>5. \/ timerq' = Append(timerq, e) /\ lost' = lost
        \/ timerq' = timerq /\ lost' = lost \cup {CMD_TASK_N2}
    BY <1>11 DEF ReportConfig
  <2> HIDE DEF e, D
  <2>6. <<e>> \o D \in Seq(BOOLEAN)
    BY <2>3
  <2>7. MonitorWay = (timerq \o (<<e>> \o D)) \o G
    BY <1>2, <2>3
  <2>8. CASE timerq' = Append(timerq, e) /\ lost' = lost
    <3>1. MonitorWay' = Append(timerq, e) \o D \o G
      BY <2>4, <2>8 DEF MonitorWay, C, G
    <3>2. Append(timerq, e) \o D = timerq \o (<<e>> \o D)
      BY <1>1, <2>3, JoinAppend
    <3> QED
      BY <2>1, <2>7, <2>8, <3>1, <3>2, MonitorChannelStep
  <2>9. CASE timerq' = timerq /\ lost' = lost \cup {CMD_TASK_N2}
    <3>1. MonitorWay' = timerq \o D \o G
      BY <2>4, <2>9 DEF MonitorWay, C, G
    <3>2. timerq \o D \o G = timerq \o (D \o G) /\ D \o G \in Seq(BOOLEAN)
      BY <1>1, <2>3, JoinAssociative
    <3>3. <<e>> \in Seq(BOOLEAN)
      BY <2>3
    <3>4. MonitorWay = timerq \o (<<e>> \o (D \o G))
      <4>1. (timerq \o (<<e>> \o D)) \o G = timerq \o ((<<e>> \o D) \o G)
        BY <1>1, <2>6, JoinAssociative
      <4>2. (<<e>> \o D) \o G = <<e>> \o (D \o G)
        BY <1>1, <2>3, <3>3, JoinAssociative
      <4> QED
        BY <2>7, <4>1, <4>2
    <3> DEFINE k == Len(timerq) + 1
               u == <<e>> \o (D \o G)
    <3>5. /\ MonitorWay = timerq \o u /\ u \in Seq(BOOLEAN) /\ u # <<>>
          /\ Tail(u) = D \o G
      <4>1. \A x \in BOOLEAN, y \in Seq(BOOLEAN) :
              /\ <<x>> \o y \in Seq(BOOLEAN) /\ <<x>> \o y # <<>>
              /\ Tail(<<x>> \o y) = y
        OBVIOUS
      <4> QED
        BY <2>3, <3>2, <3>4, <4>1
    <3>6. MonitorWay' = timerq \o (D \o G)
      BY <3>1, <3>2
    <3> HIDE DEF u
    <3>7. /\ k \in 1 .. Len(MonitorWay)
          /\ SubSeq(MonitorWay, 1, k - 1)
               \o SubSeq(MonitorWay, k + 1, Len(MonitorWay)) = timerq \o Tail(u)
      BY <1>1, <3>5, CutOut
    <3> HIDE DEF k
    <3>8. running' = running /\ CMD_TASK_N2 \in lost'
      BY <2>1, <2>9
    <3> QED
      BY <3>5, <3>6, <3>7, <3>8, MonitorChannelStep
  <2> QED
    BY <2>5, <2>8, <2>9
<1>12. CASE TimerCommand
  <2>1. /\ timerq # <<>> /\ timerq' = Tail(timerq) /\ running' = Head(timerq)
        /\ UNCHANGED <<inq, shell, lost>>
    BY <1>12 DEF TimerCommand
  <2>2. MonitorWay' = Tail(timerq) \o C \o G
    BY <2>1 DEF MonitorWay, C, G, Given, shell
  <2>3. /\ timerq \o C # <<>> /\ Head(timerq \o C) = Head(timerq)
        /\ Tail(timerq \o C) = Tail(timerq) \o C
    BY <1>1, <2>1, JoinHead
  <2>4. /\ MonitorWay # <<>> /\ Head(MonitorWay) = Head(timerq)
        /\ Tail(MonitorWay) = Tail(timerq) \o C \o G
    <3> DEFINE s == timerq \o C
    <3>1. s \in Seq(BOOLEAN) /\ s # <<>> /\ MonitorWay = s \o G
      BY <1>2, <2>3
    <3> HIDE DEF s
    <3>2. /\ MonitorWay # <<>> /\ Head(MonitorWay) = Head(s)
          /\ Tail(MonitorWay) = Tail(s) \o G
      BY <1>1, <3>1, JoinHead
    <3> QED
      BY <2>3, <3>2 DEF s
  <2> QED
    BY <2>1, <2>2, <2>4, MonitorChannelStep
<1>13. CASE ReportSend
  <2>1. /\ inq' = Append(inq, Status) \/ inq' = inq
        /\ UNCHANGED <<timerq, shell, running, lost>>
    BY <1>13 DEF ReportSend
  <2>2. Status \in InputRequest /\ Status.id # "config"
    BY DEF Status, InputRequest
  <2>3. C' = C /\ G' = G
    <3>1. CommandsFor("config", Append(inq, Status)) = CommandsFor("config", inq)
      BY <1>4, <2>2, AddedOther
    <3> QED
      BY <2>1, <3>1 DEF C, G, Given, shell
  <2>4. MonitorWay' = MonitorWay
    BY <2>1, <2>3 DEF MonitorWay, C, G
  <2> QED
    BY <2>1, <2>4, MonitorChannelStep
<1>14. CASE TakeMessage \/ \E s \in Sender : Put(s) \/ PutTimeout(s)
  BY <1>14, MonitorChannelStays DEF TakeMessage, Put, PutTimeout, timers
<1>15. CASE Report \/ ServiceTake \/ ServiceTimeout
  BY <1>15, MonitorChannelStays DEF Report, ServiceTake, ServiceTimeout, timers
<1>16. CASE WritePage \/ OutputText \/ UNCHANGED vars
  BY <1>16, MonitorChannelStays DEF WritePage, OutputText, vars, timers
<1> QED
  BY <1>6, <1>7, <1>8, <1>9, <1>10, <1>11, <1>12, <1>13, <1>14, <1>15, <1>16
  DEF Next, Command

LEMMA ReadingChannelStays ==
  ASSUME UNCHANGED <<logq, shell, modeMonitor>>,
         (CMD_TASK_N1 \in lost)' = (CMD_TASK_N1 \in lost)
  PROVE  [ReadingChannel!Next]_(ReadingChannel!vars)
<1>1. ReadingWay' = ReadingWay
  BY DEF ReadingWay, Given, shell
<1> QED
  BY <1>1, ReadingChannelStep

LEMMA ReadingOperated ==
  ASSUME TypeOK, [Next]_vars
  PROVE  [ReadingChannel!Next]_(ReadingChannel!vars)
<1> DEFINE C == CommandsFor("read", logq)
           G == Given(CMD_TASK_N1)
<1>1. /\ C \in Seq(BOOLEAN) /\ G \in Seq(BOOLEAN)
      /\ data_arguments.arg1 \in BOOLEAN /\ CMD_TASK_N1 \in Process
  BY WayType DEF Process
<1>2. ReadingWay = C \o G
  BY DEF ReadingWay
<1>3. /\ ~flag => G = <<>> /\ ReadingWay = C
      /\ flag /\ data_arguments.destino # CMD_TASK_N1 => G = <<>>
  BY <1>1, <1>2, JoinEmpty DEF Given
<1>4. /\ logq \in Seq(LogRequest)
      /\ \A c \in LogRequest : c.set \in BOOLEAN
  BY Queues, Requests
<1> HIDE DEF C, G
<1>5. ASSUME NEW b \in BOOLEAN, ~flag, UNCHANGED <<logq, modeMonitor, lost>>,
             G' = <<>> \/ G' = <<b>>
      PROVE  [ReadingChannel!Next]_(ReadingChannel!vars)
  <2>1. ReadingWay' = C \o G' /\ ReadingWay = C
    BY <1>3, <1>5 DEF ReadingWay, C, G
  <2>2. ReadingWay' = ReadingWay \/ ReadingWay' = Append(ReadingWay, b)
    <3>1. C \o <<>> = C /\ C \o <<b>> = Append(C, b)
      BY <1>1, JoinEmpty, JoinAppend
    <3> QED
      BY <1>5, <2>1, <3>1
  <2> QED
    BY <1>5, <2>2, ReadingChannelStep
<1>6. CASE Stop
  <2>1. /\ ~flag /\ UNCHANGED <<logq, modeMonitor, lost>>
        /\ G' = <<>> \/ G' = <<FALSE>>
    BY <1>6 DEF Stop, Given, timers, G, TypeOK
  <2> QED
    BY <1>5, <2>1
<1>7. ASSUME NEW p \in Process, NEW all \in BOOLEAN, Start(p, all)
      PROVE  [ReadingChannel!Next]_(ReadingChannel!vars)
  <2>1. /\ ~flag /\ UNCHANGED <<logq, modeMonitor, lost>>
        /\ G' = <<>> \/ G' = <<TRUE>>
    BY <1>7 DEF Start, Given, timers, G
  <2> QED
    BY <1>5, <2>1
<1>8. CASE SendCommand
  <2>1. flag /\ ~flag' /\ UNCHANGED <<modeMonitor, lost>> /\ G' = <<>>
    BY <1>8 DEF SendCommand, Given, G
  <2>2. CASE data_arguments.destino = CMD_TASK_N1 /\ logq' = Append(logq, Read)
    <3>1. Read \in LogRequest /\ Read.id = "read"
          /\ Read.set = data_arguments.arg1
      BY <1>1 DEF Read, LogRequest
    <3>2. C' = Append(C, data_arguments.arg1)
      BY <1>4, <2>2, <3>1, CommandsAppend DEF C
    <3>3. G = <<data_arguments.arg1>>
      BY <2>1, <2>2 DEF Given, G
    <3>4. ReadingWay' = Append(C, data_arguments.arg1) \o <<>>
      BY <2>1, <3>2 DEF ReadingWay, C, G
    <3>5. ReadingWay' = ReadingWay
      <4>1. C \o G = Append(C, data_arguments.arg1)
        BY <1>1, <3>3, JoinAppend
      <4>2. ReadingWay \in Seq(BOOLEAN) /\ ReadingWay \o <<>> = ReadingWay
        BY <1>1, <1>2
      <4> QED
        BY <1>2, <3>4, <4>1, <4>2
    <3> QED
      BY <2>1, <3>5, ReadingChannelStep
  <2>3. CASE data_arguments.destino = CMD_TASK_N2 /\ logq' = logq
    <3>1. G = <<>>
      BY <1>3, <2>1, <2>3 DEF CMD_TASK_N1, CMD_TASK_N2
    <3>2. ReadingWay' = ReadingWay
      BY <2>1, <2>3, <3>1 DEF ReadingWay, C, G
    <3> QED
      BY <2>1, <3>2, ReadingChannelStep
  <2> QED
    BY <1>8, <2>2, <2>3 DEF SendCommand
<1>9. CASE SendCommandTimeout
  <2>1. flag /\ ~flag' /\ UNCHANGED <<logq, modeMonitor>> /\ G' = <<>>
        /\ lost' = lost \cup {data_arguments.destino}
        /\ data_arguments.destino \in Process
    BY <1>9 DEF SendCommandTimeout, Given, G, TypeOK
  <2>2. ReadingWay' = C /\ C \o <<>> = C
    BY <1>1, <2>1, JoinEmpty DEF ReadingWay, C, G
  <2>3. CASE data_arguments.destino = CMD_TASK_N1
    <3>1. G = <<data_arguments.arg1>>
      BY <2>1, <2>3 DEF Given, G
    <3> DEFINE k == Len(C) + 1
    <3>2. /\ k \in 1 .. Len(ReadingWay)
          /\ SubSeq(ReadingWay, 1, k - 1)
               \o SubSeq(ReadingWay, k + 1, Len(ReadingWay)) = C \o Tail(G)
      <4>1. G # <<>>
        BY <3>1
      <4> QED
        BY <1>1, <1>2, <4>1, CutOut
    <3> HIDE DEF k
    <3>3. ReadingWay' = C \o Tail(G)
      <4>1. Tail(G) = <<>>
        BY <1>1, <3>1
      <4> QED
        BY <2>2, <4>1
    <3>4. modeMonitor' = modeMonitor /\ CMD_TASK_N1 \in lost'
      BY <2>1, <2>3
    <3> QED
      BY <3>2, <3>3, <3>4, ReadingChannelStep
  <2>4. CASE data_arguments.destino = CMD_TASK_N2
    <3>1. ReadingWay' = ReadingWay
      <4>1. G = <<>>
        BY <1>3, <2>1, <2>4 DEF CMD_TASK_N1, CMD_TASK_N2
      <4> QED
        BY <1>2, <2>2, <4>1
    <3>2. (CMD_TASK_N1 \in lost)' = (CMD_TASK_N1 \in lost)
      BY <2>1, <2>4 DEF CMD_TASK_N1, CMD_TASK_N2
    <3> QED
      BY <2>1, <3>1, <3>2, ReadingChannelStep
  <2> QED
    BY <2>1, <2>3, <2>4 DEF Process
<1>10. CASE ServiceTake
  <2>1. /\ logq # <<>> /\ logq' = Tail(logq) /\ UNCHANGED <<shell, lost>>
        /\ modeMonitor' = IF Head(logq).id = "read" THEN Head(logq).set
                          ELSE modeMonitor
    BY <1>10 DEF ServiceTake
  <2>2. ReadingWay' = CommandsFor("read", Tail(logq)) \o G
    BY <2>1 DEF ReadingWay, G, Given, shell
  <2>3. CASE Head(logq).id # "read"
    <3>1. CommandsFor("read", Tail(logq)) = C
      BY <1>4, <2>1, <2>3, TakenOther DEF C
    <3> QED
      BY <1>2, <2>1, <2>2, <2>3, <3>1, ReadingChannelStep
  <2>4. CASE Head(logq).id = "read"
    <3> DEFINE e == Head(logq).set
               D == CommandsFor("read", Tail(logq))
    <3>1. Head(logq) \in LogRequest /\ Tail(logq) \in Seq(LogRequest)
      BY <1>4, <2>1, TailOf
    <3>2. e \in BOOLEAN /\ D \in Seq(BOOLEAN) /\ C = <<e>> \o D
      BY <1>4, <2>1, <2>4, <3>1, CommandsHead, CommandsType DEF C
    <3> HIDE DEF e, D
    <3>3. C # <<>> /\ Head(C) = e /\ Tail(C) = D
      BY <3>2
    <3>4. /\ ReadingWay # <<>> /\ Head(ReadingWay) = e
          /\ Tail(ReadingWay) = D \o G
      BY <1>1, <1>2, <3>3, JoinHead
    <3>5. modeMonitor' = e /\ ReadingWay' = D \o G
      BY <2>1, <2>2, <2>4 DEF e, D
    <3> QED
      BY <2>1, <3>4, <3>5, ReadingChannelStep
  <2> QED
    BY <2>3, <2>4
<1>11. CASE ServiceTimeout
  <2>1. /\ UNCHANGED <<logq, shell, lost>>
        /\ modeMonitor' = modeMonitor \/ modeMonitor' = FALSE
    BY <1>11 DEF ServiceTimeout
  <2>2. ReadingWay' = ReadingWay
    BY <2>1 DEF ReadingWay, Given, shell
  <2> QED
    BY <2>1, <2>2, ReadingChannelStep
<1>12. CASE WritePage
  <2>1. /\ logq' = Append(logq, Write) /\ UNCHANGED <<shell, modeMonitor, lost>>
    BY <1>12 DEF WritePage
  <2>2. Write \in LogRequest /\ Write.id # "read"
    BY DEF Write, LogRequest
  <2>3. CommandsFor("read", Append(logq, Write)) = CommandsFor("read", logq)
    BY <1>4, <2>2, AddedOther
  <2>4. ReadingWay' = ReadingWay
    BY <2>1, <2>3 DEF ReadingWay, Given, shell
  <2> QED
    BY <2>1, <2>4, ReadingChannelStep
<1>13. CASE ReportConfig
  <2>1. lost' \subseteq lost \cup {CMD_TASK_N2} /\ lost \subseteq lost'
        /\ UNCHANGED <<logq, shell, modeMonitor>>
    BY <1>13 DEF ReportConfig
  <2>2. (CMD_TASK_N1 \in lost)' = (CMD_TASK_N1 \in lost)
    BY <2>1 DEF CMD_TASK_N1, CMD_TASK_N2
  <2> QED
    BY <2>1, <2>2, ReadingChannelStays
<1>14. CASE TakeMessage \/ \E s \in Sender : Put(s) \/ PutTimeout(s)
  BY <1>14, ReadingChannelStays DEF TakeMessage, Put, PutTimeout
<1>15. CASE Report \/ ReportSend \/ ReportStatus \/ TimerCommand
  BY <1>15, ReadingChannelStays DEF Report, ReportSend, ReportStatus, TimerCommand
<1>16. CASE OutputText \/ UNCHANGED vars
  BY <1>16, ReadingChannelStays DEF OutputText, vars
<1> QED
  BY <1>6, <1>7, <1>8, <1>9, <1>10, <1>11, <1>12, <1>13, <1>14, <1>15, <1>16
  DEF Next, Command

\* For every table, every set of senders and every length of the queues: the
\* two and three queues between the shell and a process, and the timer daemon,
\* are one channel of commands, which come late, in order, once or not at all;
\* none vanishes that is not counted as lost (SendCommand, ReportConfig,
\* TimerCommand, ServiceTake).
THEOREM ProcessesImplemented == Spec => ProcessesOperated
<1>1. Init => MonitorChannel!Init /\ ReadingChannel!Init
  <2> SUFFICES ASSUME Init
               PROVE  MonitorChannel!Init /\ ReadingChannel!Init
    OBVIOUS
  <2>1. /\ ~flag /\ inq = <<>> /\ logq = <<>> /\ timerq = <<>>
        /\ running = FALSE /\ modeMonitor = FALSE /\ lost = {}
    BY DEF Init
  <2>2. CommandsFor("config", inq) = <<>> /\ CommandsFor("read", logq) = <<>>
    BY <2>1, CommandsEmpty
  <2>3. Given(CMD_TASK_N1) = <<>> /\ Given(CMD_TASK_N2) = <<>>
    BY <2>1 DEF Given
  <2>4. <<>> \o <<>> = <<>>
    OBVIOUS
  <2> QED
    BY <2>1, <2>2, <2>3, <2>4 DEF MonitorChannel!Init, ReadingChannel!Init
<1>2. TypeOK /\ [Next]_vars => /\ [MonitorChannel!Next]_(MonitorChannel!vars)
                               /\ [ReadingChannel!Next]_(ReadingChannel!vars)
  BY MonitorOperated, ReadingOperated
<1> QED
  BY <1>1, <1>2, TerminalTypeCorrect, PTL
  DEF Spec, ProcessesOperated, MonitorChannel!Spec, ReadingChannel!Spec
=============================================================================
