--------------------------- MODULE DebounceProofs ---------------------------
(***************************************************************************)
(* Theorems about the switches and the key, for every set of switches and  *)
(* every length of the queue, and however the pins move.                   *)
(*                                                                         *)
(* What holds the two properties up is the memory of the last samples:     *)
(* `held' is the level the last two samples agree on, or the one before    *)
(* them did, so a level that is new for two samples has either been seen   *)
(* as the pattern that is reported, or the input has bounced.              *)
(***************************************************************************)
EXTENDS Debounce, LastCommandProofs

\* What the samples of input i say of its level.
Watched(i) ==
  /\ test[i][3] = test[i][4] => held[i] = test[i][4]
  /\ test[i][2] = test[i][3] /\ test[i][3] # test[i][4] => held[i] = test[i][3]
  /\ test[i][2] # test[i][3] /\ test[i][3] # test[i][4] => i \in bounced

\* A report at its send is of the level the switch holds now.
Current ==
  message # <<>> /\ Head(message).id \in Switches
    => (Head(message).set <=> held[Head(message).id] = GPIO_HIGH_LEVEL)

IInv ==
  /\ TypeOK /\ Current
  /\ \A i \in Sampled : Watched(i)
  /\ StatusFollowsSwitch /\ PressToggles

LEMMA Names ==
  /\ Switches \subseteq {4, 6, 7} /\ SW_START_STOP \notin Switches
  /\ SW_START_STOP \in Sampled /\ NONE \notin Sampled
  /\ InputQueue \in Nat
  BY DebounceAssumption
  DEF Digital, WATER_LEVEL, SW_START_STOP, SL_MODE_FUNCTION, Sampled, NONE

\* The callback goes to a switch or ends.
LEMMA NextSwitchType ==
  ASSUME NEW i \in Int
  PROVE  NextSwitch(i) \in Switches \cup {NONE}
<1> DEFINE later == {k \in Switches : k > i}
<1>1. later \subseteq {4, 6, 7}
  BY Names
<1>2. ASSUME later # {}
      PROVE  \E k \in later : \A m \in later : k <= m
  <2>1. CASE 4 \in later
    BY <1>1, <2>1
  <2>2. CASE 4 \notin later /\ 6 \in later
    BY <1>1, <2>2
  <2>3. CASE 4 \notin later /\ 6 \notin later
    BY <1>1, <1>2, <2>3
  <2> QED
    BY <2>1, <2>2, <2>3
<1>3. ASSUME later # {}
      PROVE  (CHOOSE k \in later : \A m \in later : k <= m) \in later
  BY <1>2, <1>3
<1> QED
  BY <1>3 DEF NextSwitch

\* Four levels in a row, and which of them are a report or a press.
LEMMA ReportedIs ==
  ASSUME NEW a \in Level, NEW b \in Level, NEW c \in Level, NEW d \in Level
  PROVE  /\ Reported(<<a, b, c, d>>) # {} <=> a = b /\ b # c /\ c = d
         /\ GPIO_HIGH_LEVEL \in Reported(<<a, b, c, d>>)
              <=> a = b /\ b # c /\ c = d /\ d = GPIO_HIGH_LEVEL
         /\ Pressed(<<a, b, c, d>>)
              <=> a = TECL_FREE /\ b = TECL_FREE /\ c = TECL_PUSH /\ d = TECL_PUSH
<1>1. \A l \in Level : <<a, b, c, d>> = <<1 - l, 1 - l, l, l>>
        <=> a = 1 - l /\ b = 1 - l /\ c = l /\ d = l
  OBVIOUS
<1>2. \A l \in Level : l \in Reported(<<a, b, c, d>>)
        <=> a = b /\ b # c /\ c = d /\ d = l
  BY <1>1 DEF Reported, Level, GPIO_LOW_LEVEL, GPIO_HIGH_LEVEL
<1>3. GPIO_HIGH_LEVEL \in Level /\ Reported(<<a, b, c, d>>) \subseteq Level
  BY DEF Level, Reported
<1>4. Reported(<<a, b, c, d>>) # {} <=> a = b /\ b # c /\ c = d
  BY <1>2, <1>3
<1>5. GPIO_HIGH_LEVEL \in Reported(<<a, b, c, d>>)
              <=> a = b /\ b # c /\ c = d /\ d = GPIO_HIGH_LEVEL
  BY <1>2, <1>3
<1>6. Pressed(<<a, b, c, d>>)
        <=> a = TECL_FREE /\ b = TECL_FREE /\ c = TECL_PUSH /\ d = TECL_PUSH
  BY DEF Pressed
<1> QED
  BY <1>4, <1>5, <1>6

LEMMA SamplesOf ==
  ASSUME TypeOK, NEW i \in Sampled, NEW level \in Level
  PROVE  LET t == Samples(i, level)
         IN /\ t \in [1 .. 4 -> Level]
            /\ t[1] = test[i][2] /\ t[2] = test[i][3] /\ t[3] = test[i][4]
            /\ t[4] = level
            /\ {t[1], t[2], t[3], t[4]} \subseteq Level
            /\ t = <<t[1], t[2], t[3], t[4]>>
<1>1. test[i] \in [1 .. 4 -> Level]
  BY DEF TypeOK
<1>2. test[i][2] \in Level /\ test[i][3] \in Level /\ test[i][4] \in Level
  BY <1>1
<1> QED
  BY <1>2 DEF Samples
-----------------------------------------------------------------------------
(* What will be in the table: the queue first, then the message at its send. *)

LEMMA Reports ==
  ASSUME TypeOK
  PROVE  message \in Seq(Message)
<1>1. Report \subseteq Message /\ message \in Seq(Report)
  BY DEF TypeOK, Message
<1>2. \A k \in 1 .. Len(message) : message[k] \in Message
  BY <1>1
<1> QED
  BY <1>1, <1>2

LEMMA Sets == \A c \in Message : c.set \in BOOLEAN
<1> SUFFICES ASSUME NEW c \in Message
             PROVE  c.set \in BOOLEAN
  OBVIOUS
<1>1. CASE c \in Report
  BY <1>1 DEF Report
<1>2. CASE c = Other
  BY <1>2 DEF Other
<1> QED
  BY <1>1, <1>2 DEF Message

\* One message.
LEMMA OneMessage ==
  ASSUME NEW m \in Message, NEW i, NEW d \in BOOLEAN
  PROVE  LastFor(i, <<m>>, d) <=> IF m.id = i THEN m.set ELSE d
<1>1. <<m>> \in Seq(Message) /\ <<m>> # <<>> /\ Head(<<m>>) = m /\ Tail(<<m>>) = <<>>
  OBVIOUS
<1>2. m.set \in BOOLEAN /\ \A c \in Message : c.set \in BOOLEAN
  BY Sets
<1>3. LastFor(i, <<m>>, d) <=> LastFor(i, <<>>, IF m.id = i THEN m.set ELSE d)
  BY <1>1, <1>2, HeadOf
<1> QED
  BY <1>2, <1>3, LastEmpty

\* A queue and at most one message behind it.
LEMMA SettledOf ==
  ASSUME NEW q \in Seq(Message), NEW m \in Seq(Message), Len(m) <= 1, NEW i,
         NEW d \in BOOLEAN
  PROVE  /\ m = <<>> => (LastFor(i, q \o m, d) <=> LastFor(i, q, d))
         /\ m # <<>> => (LastFor(i, q \o m, d)
                           <=> IF Head(m).id = i THEN Head(m).set
                               ELSE LastFor(i, q, d))
<1>1. LastFor(i, q \o m, d) <=> LastFor(i, m, LastFor(i, q, d))
  BY Sets, ConcatOf
<1>2. LastFor(i, q, d) \in BOOLEAN
  BY LastType
<1>3. CASE m = <<>>
  BY <1>1, <1>2, <1>3, LastEmpty
<1>4. CASE m # <<>>
  <2>1. Head(m) \in Message /\ m = <<Head(m)>>
    <3>1. Len(m) \in Nat \ {0} /\ Head(m) \in Message /\ Head(m) = m[1]
      BY <1>4
    <3>2. Len(m) = 1 /\ <<Head(m)>> \in Seq(Message) /\ Len(<<Head(m)>>) = 1
      <4>1. \A n \in Nat \ {0} : n <= 1 => n = 1
        OBVIOUS
      <4>2. Len(m) = 1
        BY <3>1, <4>1
      <4> QED
        BY <3>1, <4>2
    <3>3. \A k \in 1 .. 1 : m[k] = <<Head(m)>>[k]
      BY <3>1
    <3> QED
      BY <3>1, <3>2, <3>3, SeqEqual
  <2>2. LastFor(i, <<Head(m)>>, LastFor(i, q, d))
          <=> IF Head(m).id = i THEN Head(m).set ELSE LastFor(i, q, d)
    BY <1>2, <2>1, OneMessage
  <2> QED
    BY <1>1, <1>4, <2>1, <2>2
<1> QED
  BY <1>3, <1>4
-----------------------------------------------------------------------------
(* The type *)

LEMMA TypeInit == Init => TypeOK
<1> SUFFICES ASSUME Init
             PROVE  TypeOK
  OBVIOUS
<1>1. \A i \in Sampled : FirstLevel(i) \in Level
  BY DEF FirstLevel, Level, TECL_FREE, GPIO_LOW_LEVEL, GPIO_HIGH_LEVEL
<1>2. /\ test \in [Sampled -> [1 .. 4 -> Level]]
      /\ held \in [Sampled -> Level] /\ status \in [Sampled -> Level]
  BY <1>1 DEF Init, Level
<1>3. /\ message \in Seq(Report) /\ Len(message) <= 1
      /\ inq \in Seq(Message) /\ Len(inq) <= InputQueue
  BY Names DEF Init
<1>4. /\ at \in Switches \cup {NONE} /\ bounced \subseteq Sampled
      /\ lost \subseteq Sampled
  BY DEF Init
<1>5. presses \in BOOLEAN /\ hurried \in BOOLEAN
  BY DEF Init
<1> QED
  BY <1>2, <1>3, <1>4, <1>5 DEF TypeOK

LEMMA WatchType ==
  ASSUME TypeOK, NEW i \in Sampled, NEW level \in Level,
         Watch(i, Samples(i, level)),
         test' = [test EXCEPT ![i] = Samples(i, level)]
  PROVE  /\ test' \in [Sampled -> [1 .. 4 -> Level]]
         /\ held' \in [Sampled -> Level] /\ bounced' \subseteq Sampled
<1> DEFINE t == Samples(i, level)
<1>1. t \in [1 .. 4 -> Level] /\ t[4] \in Level
  BY SamplesOf
<1> HIDE DEF t
<1>2. Watch(i, t) /\ test' = [test EXCEPT ![i] = t]
  BY DEF t
<1>3. test' \in [Sampled -> [1 .. 4 -> Level]]
  BY <1>1, <1>2 DEF TypeOK
<1>4. held' \in [Sampled -> Level]
  BY <1>1, <1>2 DEF TypeOK, Watch
<1>5. bounced' \subseteq Sampled
  BY <1>2 DEF TypeOK, Watch
<1> QED
  BY <1>3, <1>4, <1>5

LEMMA MessageType ==
  ASSUME NEW i \in Sampled, NEW b \in BOOLEAN
  PROVE  /\ [id |-> i, set |-> b] \in Report
         /\ <<[id |-> i, set |-> b]>> \in Seq(Report)
         /\ Len(<<[id |-> i, set |-> b]>>) <= 1
<1>1. [id |-> i, set |-> b] \in Report
  BY DEF Report
<1> QED
  BY <1>1

LEMMA TypeStep == TypeOK /\ [Next]_vars => TypeOK'
<1> SUFFICES ASSUME TypeOK, [Next]_vars
             PROVE  TypeOK'
  OBVIOUS
<1>1. CASE InpExpire
  <2>1. at' \in Switches \cup {NONE}
    BY <1>1, NextSwitchType DEF InpExpire
  <2> QED
    BY <1>1, <2>1 DEF InpExpire, TypeOK, history
<1>2. ASSUME NEW level \in Level, InpDebounce(level)
      PROVE  TypeOK'
  <2>1. at \in Sampled /\ at \in Int
    BY <1>2, Names DEF InpDebounce, TypeOK, Sampled
  <2>2. /\ test' \in [Sampled -> [1 .. 4 -> Level]]
        /\ held' \in [Sampled -> Level] /\ bounced' \subseteq Sampled
    BY <1>2, <2>1, WatchType DEF InpDebounce
  <2>3. message' \in Seq(Report) /\ Len(message') <= 1
    <3> DEFINE b == GPIO_HIGH_LEVEL \in Reported(Samples(at, level))
    <3>1. message' = <<>> \/ message' = <<[id |-> at, set |-> b]>>
      BY <1>2 DEF InpDebounce
    <3>3. b \in BOOLEAN
      OBVIOUS
    <3> HIDE DEF b
    <3>2. <<>> \in Seq(Report) /\ Len(<<>>) <= 1
      OBVIOUS
    <3> QED
      BY <2>1, <3>1, <3>2, <3>3, MessageType
  <2>4. at' \in Switches \cup {NONE}
    BY <1>2, <2>1, NextSwitchType DEF InpDebounce
  <2> QED
    BY <1>2, <2>2, <2>3, <2>4 DEF InpDebounce, TypeOK
<1>3. ASSUME NEW level \in Level, KeysDebounce(level)
      PROVE  TypeOK'
  <2>1. /\ test' \in [Sampled -> [1 .. 4 -> Level]]
        /\ held' \in [Sampled -> Level] /\ bounced' \subseteq Sampled
    BY <1>3, WatchType, Names DEF KeysDebounce
  <2>2. message' \in Seq(Report) /\ Len(message') <= 1
    <3>1. \/ message' = <<>>
          \/ message' = <<[id |-> SW_START_STOP, set |-> Complement]>>
      BY <1>3 DEF KeysDebounce
    <3>2. <<>> \in Seq(Report) /\ Len(<<>>) <= 1
      OBVIOUS
    <3>3. Complement \in BOOLEAN
      BY DEF Complement
    <3> QED
      BY <3>1, <3>2, <3>3, MessageType, Names
  <2>3. presses' \in BOOLEAN /\ hurried' \in BOOLEAN
    BY <1>3 DEF KeysDebounce, TypeOK
  <2> QED
    BY <1>3, <2>1, <2>2, <2>3 DEF KeysDebounce, TypeOK
<1>4. CASE Send
  <2>1. inq' \in Seq(Message) /\ Len(inq') <= InputQueue
    <3>1. /\ inq' = inq \o message /\ message # <<>> /\ Len(inq) < InputQueue
          /\ inq \in Seq(Message) /\ message \in Seq(Message) /\ Len(message) <= 1
      BY <1>4, Reports DEF Send, TypeOK
    <3>2. Len(inq \o message) = Len(inq) + Len(message) /\ inq \o message \in Seq(Message)
      BY <3>1
    <3> QED
      BY <3>1, <3>2, Names
  <2>2. message' \in Seq(Report) /\ Len(message') <= 1
    BY <1>4 DEF Send
  <2>3. lost' \subseteq Sampled
    BY <1>4 DEF Send, TypeOK
  <2> QED
    BY <1>4, <2>1, <2>2, <2>3 DEF Send, TypeOK
<1>5. CASE SendTimeout
  <2>1. message' \in Seq(Report) /\ Len(message') <= 1
    BY <1>5 DEF SendTimeout
  <2>2. Head(message) \in Report
    BY <1>5 DEF SendTimeout, TypeOK
  <2>3. Head(message).id \in Sampled
    BY <2>2 DEF Report
  <2> QED
    BY <1>5, <2>1, <2>3 DEF SendTimeout, TypeOK
<1>6. CASE SendOther
  <2>1. Other \in Message
    BY DEF Other, Message
  <2>2. inq' \in Seq(Message) /\ Len(inq') <= InputQueue
    BY <1>6, <2>1, Names DEF SendOther, TypeOK
  <2> QED
    BY <1>6, <2>2 DEF SendOther, TypeOK, history
<1>7. CASE Receive
  <2>1. inq' \in Seq(Message) /\ Len(inq') <= InputQueue
    BY <1>7, Names DEF Receive, TypeOK
  <2>2. status' \in [Sampled -> Level]
    BY <1>7 DEF Receive, TypeOK, Level
  <2> QED
    BY <1>7, <2>1, <2>2 DEF Receive, TypeOK, history
<1>8. CASE UNCHANGED vars
  BY <1>8 DEF vars, history, TypeOK
<1> QED
  BY <1>1, <1>2, <1>3, <1>4, <1>5, <1>6, <1>7, <1>8 DEF Next
-----------------------------------------------------------------------------
(* The samples *)

\* One more sample of input i: what `held' becomes, and when the level is one
\* that is reported.  A change of `held' that is not reported is a bounce.
LEMMA NewSample ==
  ASSUME TypeOK, NEW i \in Sampled, NEW level \in Level, Watched(i),
         Watch(i, Samples(i, level)),
         test' = [test EXCEPT ![i] = Samples(i, level)]
  PROVE  LET t == Samples(i, level)
         IN /\ Watched(i)'
            /\ t[4] = level /\ t[3] \in Level
            /\ Reported(t) # {} => t[3] = level /\ held'[i] = level /\ held[i] # level
            /\ i \notin bounced' => \/ i \notin bounced /\ held'[i] = held[i]
                                    \/ Reported(t) # {}
            /\ Pressed(t) => held[i] = TECL_FREE /\ t[3] = TECL_PUSH /\ level = TECL_PUSH
            /\ held[i] = TECL_FREE /\ t[3] = TECL_PUSH /\ level = TECL_PUSH
                 => Pressed(t) \/ i \in bounced
            /\ GPIO_HIGH_LEVEL \in Reported(t)
                 <=> Reported(t) # {} /\ level = GPIO_HIGH_LEVEL
<1> DEFINE t == Samples(i, level)
           a == test[i][2]
           b == test[i][3]
           c == test[i][4]
<1>1. /\ t[1] = a /\ t[2] = b /\ t[3] = c /\ t[4] = level
      /\ a \in Level /\ b \in Level /\ c \in Level
      /\ t = <<a, b, c, level>>
  BY SamplesOf DEF Samples
<1>2. /\ c = b => held[i] = c
      /\ a = b /\ b # c => held[i] = b
      /\ a # b /\ b # c => i \in bounced
      /\ held[i] \in Level
  BY DEF Watched, TypeOK
<1>3. /\ Reported(t) # {} <=> a = b /\ b # c /\ c = level
      /\ GPIO_HIGH_LEVEL \in Reported(t)
           <=> a = b /\ b # c /\ c = level /\ level = GPIO_HIGH_LEVEL
      /\ Pressed(t) <=> a = TECL_FREE /\ b = TECL_FREE /\ c = TECL_PUSH
                         /\ level = TECL_PUSH
  BY <1>1, ReportedIs
<1>4. /\ test'[i] = t
      /\ held'[i] = IF c = level THEN level ELSE held[i]
  BY <1>1 DEF TypeOK, Watch
<1>5. bounced' = IF b # c /\ c # level THEN bounced \cup {i}
                 ELSE IF i \in Switches /\ Reported(t) # {} THEN bounced \ {i}
                 ELSE bounced
  BY <1>1 DEF Watch
<1>6. TECL_FREE # TECL_PUSH /\ Level = {TECL_FREE, TECL_PUSH}
  BY DEF TECL_FREE, TECL_PUSH, Level, GPIO_LOW_LEVEL, GPIO_HIGH_LEVEL
<1> HIDE DEF t, a, b, c
<1>7. Watched(i)'
  BY <1>1, <1>2, <1>4, <1>5 DEF Watched
<1>8. Reported(t) # {} => t[3] = level /\ held'[i] = level /\ held[i] # level
  BY <1>1, <1>2, <1>3, <1>4
<1>9. i \notin bounced' => \/ i \notin bounced /\ held'[i] = held[i]
                           \/ Reported(t) # {}
  <2> SUFFICES ASSUME i \notin bounced', Reported(t) = {}
               PROVE  i \notin bounced /\ held'[i] = held[i]
    OBVIOUS
  <2>1. i \notin bounced /\ (c = level \/ b = c)
    BY <1>5
  <2>2. CASE c = level
    <3>1. b = c
      BY <1>2, <1>3, <2>1, <2>2
    <3> QED
      BY <1>2, <1>4, <2>1, <2>2, <3>1
  <2>3. CASE c # level
    BY <1>4, <2>1, <2>3
  <2> QED
    BY <2>2, <2>3
<1>10. Pressed(t) => held[i] = TECL_FREE /\ t[3] = TECL_PUSH /\ level = TECL_PUSH
  BY <1>1, <1>2, <1>3, <1>6
<1>11. held[i] = TECL_FREE /\ t[3] = TECL_PUSH /\ level = TECL_PUSH
         => Pressed(t) \/ i \in bounced
  BY <1>1, <1>2, <1>3, <1>6
<1> QED
  BY <1>1, <1>3, <1>7, <1>8, <1>9, <1>10, <1>11 DEF t

\* The samples of the others stay as they are.
LEMMA OtherSample ==
  ASSUME TypeOK, NEW i \in Sampled, NEW level \in Level,
         Watch(i, Samples(i, level)),
         test' = [test EXCEPT ![i] = Samples(i, level)],
         NEW j \in Sampled, j # i, Watched(j)
  PROVE  Watched(j)' /\ held'[j] = held[j] /\ (j \in bounced' <=> j \in bounced)
<1>1. test'[j] = test[j]
  BY DEF TypeOK
<1>2. held'[j] = held[j]
  BY DEF TypeOK, Watch
<1>3. j \in bounced' <=> j \in bounced
  BY DEF Watch
<1> QED
  BY <1>1, <1>2, <1>3 DEF Watched

LEMMA WatchedStep ==
  TypeOK /\ (\A i \in Sampled : Watched(i)) /\ [Next]_vars
    => (\A i \in Sampled : Watched(i))'
<1> SUFFICES ASSUME TypeOK, \A i \in Sampled : Watched(i), [Next]_vars
             PROVE  \A i \in Sampled : Watched(i)'
  OBVIOUS
<1>1. ASSUME NEW level \in Level, InpDebounce(level)
      PROVE  \A i \in Sampled : Watched(i)'
  <2>1. /\ at \in Sampled /\ Watch(at, Samples(at, level))
        /\ test' = [test EXCEPT ![at] = Samples(at, level)]
    BY <1>1 DEF InpDebounce, TypeOK, Sampled
  <2> TAKE i \in Sampled
  <2>2. Watched(at) /\ Watched(i)
    BY <2>1
  <2>3. CASE i = at
    <3>1. /\ Watch(i, Samples(i, level))
          /\ test' = [test EXCEPT ![i] = Samples(i, level)]
      BY <2>1, <2>3
    <3> QED
      BY <2>2, <3>1, NewSample
  <2>4. CASE i # at
    BY <2>1, <2>2, <2>4, OtherSample
  <2> QED
    BY <2>3, <2>4
<1>2. ASSUME NEW level \in Level, KeysDebounce(level)
      PROVE  \A i \in Sampled : Watched(i)'
  <2>1. /\ Watch(SW_START_STOP, Samples(SW_START_STOP, level))
        /\ test' = [test EXCEPT ![SW_START_STOP] = Samples(SW_START_STOP, level)]
    BY <1>2 DEF KeysDebounce
  <2> TAKE i \in Sampled
  <2>2. Watched(SW_START_STOP) /\ Watched(i) /\ SW_START_STOP \in Sampled
    BY Names
  <2>3. CASE i = SW_START_STOP
    BY <2>1, <2>2, <2>3, NewSample
  <2>4. CASE i # SW_START_STOP
    BY <2>1, <2>2, <2>4, OtherSample
  <2> QED
    BY <2>3, <2>4
<1>3. ASSUME UNCHANGED <<test, held, bounced>>
      PROVE  \A i \in Sampled : Watched(i)'
  BY <1>3 DEF Watched
<1>4. CASE InpExpire \/ Send \/ SendTimeout \/ SendOther \/ Receive \/ UNCHANGED vars
  BY <1>3, <1>4
  DEF InpExpire, Send, SendTimeout, SendOther, Receive, vars, history
<1> QED
  BY <1>1, <1>2, <1>4 DEF Next
-----------------------------------------------------------------------------
(* What becomes of the table in each step *)

LEMMA SettledSample ==
  ASSUME TypeOK, TypeOK', NEW i, message = <<>>, UNCHANGED <<inq, status>>
  PROVE  /\ message' = <<>> => (SettledHigh(i)' <=> SettledHigh(i))
         /\ message' # <<>> =>
              (SettledHigh(i)' <=> IF Head(message').id = i THEN Head(message').set
                                   ELSE SettledHigh(i))
<1> DEFINE d == (status[i] = GPIO_HIGH_LEVEL)
<1>1. /\ inq \in Seq(Message) /\ message' \in Seq(Message) /\ Len(message') <= 1
      /\ <<>> \in Seq(Message) /\ Len(<<>>) <= 1
  <2>1. message' \in Seq(Report) /\ Report \subseteq Message
    BY DEF TypeOK, Message
  <2>2. \A k \in 1 .. Len(message') : message'[k] \in Message
    BY <2>1
  <2>3. message' \in Seq(Message)
    BY <2>1, <2>2
  <2> QED
    BY <2>3 DEF TypeOK
<1>2. SettledHigh(i) <=> LastFor(i, inq, d)
  BY <1>1, SettledOf DEF SettledHigh
<1>3. SettledHigh(i)' <=> LastFor(i, inq \o message', d)
  BY DEF SettledHigh
<1>4. d \in BOOLEAN
  OBVIOUS
<1> HIDE DEF d
<1> QED
  BY <1>1, <1>2, <1>3, <1>4, SettledOf

LEMMA SettledSend ==
  ASSUME TypeOK, NEW i, Send
  PROVE  SettledHigh(i)' <=> SettledHigh(i)
<1>1. inq' = inq \o message /\ message' = <<>> /\ status' = status
  BY DEF Send
<1>2. inq \o message \in Seq(Message)
  BY Reports DEF TypeOK
<1>3. (inq \o message) \o <<>> = inq \o message
  BY <1>2
<1> QED
  BY <1>1, <1>3 DEF SettledHigh

LEMMA SettledTimeout ==
  ASSUME TypeOK, NEW i, SendTimeout, Head(message).id # i
  PROVE  SettledHigh(i)' <=> SettledHigh(i)
<1> DEFINE d == (status[i] = GPIO_HIGH_LEVEL)
<1>1. /\ inq \in Seq(Message) /\ message \in Seq(Message) /\ Len(message) <= 1
      /\ <<>> \in Seq(Message) /\ Len(<<>>) <= 1
  BY Reports DEF TypeOK
<1>2. message # <<>> /\ message' = <<>> /\ inq' = inq /\ status' = status
  BY DEF SendTimeout
<1>3. d \in BOOLEAN
  OBVIOUS
<1>4. SettledHigh(i) <=> LastFor(i, inq \o message, d)
  BY DEF SettledHigh
<1>5. SettledHigh(i)' <=> LastFor(i, inq \o <<>>, d)
  BY <1>2 DEF SettledHigh
<1> HIDE DEF d
<1>6. LastFor(i, inq \o message, d) <=> LastFor(i, inq, d)
  BY <1>1, <1>2, <1>3, SettledOf
<1>7. LastFor(i, inq \o <<>>, d) <=> LastFor(i, inq, d)
  BY <1>1, <1>3, SettledOf
<1> QED
  BY <1>4, <1>5, <1>6, <1>7

LEMMA SettledOther ==
  ASSUME TypeOK, NEW i \in Sampled, SendOther
  PROVE  SettledHigh(i)' <=> SettledHigh(i)
<1> DEFINE d == (status[i] = GPIO_HIGH_LEVEL)
<1>1. /\ inq \in Seq(Message) /\ message \in Seq(Message)
      /\ Other \in Message /\ Append(inq, Other) \in Seq(Message)
  BY Reports DEF TypeOK, Message
<1>2. d \in BOOLEAN
  OBVIOUS
<1>3. SettledHigh(i) <=> LastFor(i, inq \o message, d)
  BY DEF SettledHigh
<1>4. SettledHigh(i)' <=> LastFor(i, Append(inq, Other) \o message, d)
  BY DEF SettledHigh, SendOther
<1>5. Other.id # i
  BY Names DEF Other
<1> HIDE DEF d
<1>6. LastFor(i, Append(inq, Other), d) <=> LastFor(i, inq, d)
  BY <1>1, <1>2, <1>5, Sets, AppendOf
<1>7. LastFor(i, Append(inq, Other), d) = LastFor(i, inq, d)
  BY <1>6, LastType
<1>8. LastFor(i, inq \o message, d) <=> LastFor(i, message, LastFor(i, inq, d))
  BY <1>1, <1>2, Sets, ConcatOf
<1>9. LastFor(i, Append(inq, Other) \o message, d)
        <=> LastFor(i, message, LastFor(i, Append(inq, Other), d))
  BY <1>1, <1>2, Sets, ConcatOf
<1> QED
  BY <1>3, <1>4, <1>7, <1>8, <1>9

LEMMA SettledReceive ==
  ASSUME TypeOK, NEW i \in Sampled, Receive
  PROVE  SettledHigh(i)' <=> SettledHigh(i)
<1> DEFINE d == (status[i] = GPIO_HIGH_LEVEL)
           e == (status'[i] = GPIO_HIGH_LEVEL)
<1>1. /\ inq \in Seq(Message) /\ message \in Seq(Message) /\ inq # <<>>
      /\ inq' = Tail(inq) /\ Tail(inq) \in Seq(Message) /\ Head(inq) \in Message
  BY Reports DEF TypeOK, Receive
<1>2. d \in BOOLEAN /\ e \in BOOLEAN /\ Head(inq).set \in BOOLEAN
  BY <1>1, Sets
<1>3. SettledHigh(i) <=> LastFor(i, inq \o message, d)
  BY DEF SettledHigh
<1>4. SettledHigh(i)' <=> LastFor(i, Tail(inq) \o message, e)
  BY <1>1 DEF SettledHigh, Receive
<1>5. e = IF Head(inq).id = i THEN Head(inq).set ELSE d
  <2>1. status'[i] = IF i # Head(inq).id THEN status[i]
                     ELSE IF Head(inq).set THEN GPIO_HIGH_LEVEL ELSE GPIO_LOW_LEVEL
    BY DEF Receive
  <2>2. GPIO_HIGH_LEVEL # GPIO_LOW_LEVEL
    BY DEF GPIO_HIGH_LEVEL, GPIO_LOW_LEVEL
  <2>3. CASE i # Head(inq).id
    BY <2>1, <2>3
  <2>4. CASE i = Head(inq).id
    BY <1>2, <2>1, <2>2, <2>4
  <2> QED
    BY <2>3, <2>4
<1> HIDE DEF d, e
<1>6. LastFor(i, inq, d)
        <=> LastFor(i, Tail(inq), IF Head(inq).id = i THEN Head(inq).set ELSE d)
  BY <1>1, <1>2, Sets, HeadOf
<1>7. LastFor(i, inq, d) = LastFor(i, Tail(inq), e)
  BY <1>5, <1>6, LastType
<1>8. LastFor(i, inq \o message, d) <=> LastFor(i, message, LastFor(i, inq, d))
  BY <1>1, <1>2, Sets, ConcatOf
<1>9. LastFor(i, Tail(inq) \o message, e)
        <=> LastFor(i, message, LastFor(i, Tail(inq), e))
  BY <1>1, <1>2, Sets, ConcatOf
<1> QED
  BY <1>3, <1>4, <1>7, <1>8, <1>9
-----------------------------------------------------------------------------
(* The switches and the key *)

\* A sample of input j, for another input.
LEMMA SampleOfAnother ==
  ASSUME TypeOK, TypeOK', NEW i, NEW j, i # j, message = <<>>,
         UNCHANGED <<inq, status>>,
         message' = <<>> \/ Head(message').id = j
  PROVE  SettledHigh(i)' <=> SettledHigh(i)
  BY SettledSample

LEMMA CurrentStep ==
  ASSUME IInv, [Next]_vars
  PROVE  Current'
<1>1. TypeOK /\ TypeOK' /\ Current /\ \A i \in Sampled : Watched(i)
  BY TypeStep DEF IInv
<1>2. ASSUME NEW level \in Level, InpDebounce(level)
      PROVE  Current'
  <2> DEFINE t == Samples(at, level)
  <2>1. /\ at \in Sampled /\ Watch(at, t) /\ test' = [test EXCEPT ![at] = t]
        /\ Watched(at)
    BY <1>1, <1>2 DEF InpDebounce, TypeOK, Sampled
  <2>2. /\ Reported(t) # {} => held'[at] = level
        /\ GPIO_HIGH_LEVEL \in Reported(t) <=> Reported(t) # {} /\ level = GPIO_HIGH_LEVEL
    BY <1>1, <2>1, NewSample
  <2>3. message' = IF Reported(t) = {} THEN <<>>
                   ELSE <<[id |-> at, set |-> GPIO_HIGH_LEVEL \in Reported(t)]>>
    BY <1>2 DEF InpDebounce
  <2> HIDE DEF t
  <2>4. CASE Reported(t) = {}
    BY <2>3, <2>4 DEF Current
  <2>5. CASE Reported(t) # {}
    <3>1. /\ Head(message').id = at
          /\ Head(message').set = (GPIO_HIGH_LEVEL \in Reported(t))
      BY <2>3, <2>5
    <3>2. Head(message').set <=> held'[Head(message').id] = GPIO_HIGH_LEVEL
      BY <2>2, <2>5, <3>1
    <3> QED
      BY <3>2 DEF Current
  <2> QED
    BY <2>4, <2>5
<1>3. ASSUME NEW level \in Level, KeysDebounce(level)
      PROVE  Current'
  <2>1. message' # <<>> => Head(message').id = SW_START_STOP
    BY <1>3 DEF KeysDebounce
  <2> QED
    BY <2>1, Names DEF Current
<1>4. CASE Send \/ SendTimeout
  BY <1>4 DEF Send, SendTimeout, Current
<1>5. CASE InpExpire \/ SendOther \/ Receive \/ UNCHANGED vars
  BY <1>1, <1>5 DEF InpExpire, SendOther, Receive, vars, history, Current
<1> QED
  BY <1>2, <1>3, <1>4, <1>5 DEF Next

LEMMA SwitchStep ==
  ASSUME IInv, [Next]_vars
  PROVE  StatusFollowsSwitch'
<1> SUFFICES ASSUME NEW i \in Switches, i \notin bounced', i \notin lost'
             PROVE  SettledHigh(i)' <=> held'[i] = GPIO_HIGH_LEVEL
  BY DEF StatusFollowsSwitch
<1>1. /\ TypeOK /\ TypeOK' /\ Current /\ \A k \in Sampled : Watched(k)
      /\ i \in Sampled /\ i # SW_START_STOP
  BY TypeStep, Names DEF IInv, Sampled
<1>2. i \notin bounced /\ i \notin lost => (SettledHigh(i) <=> held[i] = GPIO_HIGH_LEVEL)
  BY DEF IInv, StatusFollowsSwitch
<1>3. ASSUME NEW level \in Level, InpDebounce(level)
      PROVE  SettledHigh(i)' <=> held'[i] = GPIO_HIGH_LEVEL
  <2> DEFINE t == Samples(at, level)
  <2>1. /\ at \in Sampled /\ Watch(at, t) /\ test' = [test EXCEPT ![at] = t]
        /\ Watched(at) /\ Watched(i) /\ message = <<>> /\ UNCHANGED <<inq, status, lost>>
        /\ message' = IF Reported(t) = {} THEN <<>>
                      ELSE <<[id |-> at, set |-> GPIO_HIGH_LEVEL \in Reported(t)]>>
    BY <1>1, <1>3 DEF InpDebounce, TypeOK, Sampled
  <2>2. message' = <<>> \/ Head(message').id = at
    BY <2>1
  <2>3. CASE i # at
    <3>1. held'[i] = held[i] /\ (i \in bounced' <=> i \in bounced)
      BY <1>1, <2>1, <2>3, OtherSample
    <3>2. SettledHigh(i)' <=> SettledHigh(i)
      BY <1>1, <2>1, <2>2, <2>3, SampleOfAnother
    <3> QED
      BY <1>2, <2>1, <3>1, <3>2
  <2>4. CASE i = at
    <3>1. /\ Reported(t) # {} => held'[i] = level
          /\ Reported(t) = {} => i \notin bounced /\ held'[i] = held[i]
          /\ GPIO_HIGH_LEVEL \in Reported(t)
               <=> Reported(t) # {} /\ level = GPIO_HIGH_LEVEL
      BY <1>1, <2>1, <2>4, NewSample
    <3> HIDE DEF t
    <3>2. CASE Reported(t) = {}
      <4>1. SettledHigh(i)' <=> SettledHigh(i)
        BY <1>1, <2>1, <3>2, SettledSample
      <4> QED
        BY <1>2, <2>1, <3>1, <3>2, <4>1
    <3>3. CASE Reported(t) # {}
      <4>1. /\ message' # <<>> /\ Head(message').id = i
            /\ Head(message').set = (GPIO_HIGH_LEVEL \in Reported(t))
        BY <2>1, <2>4, <3>3
      <4>2. SettledHigh(i)' <=> Head(message').set
        BY <1>1, <2>1, <4>1, SettledSample
      <4> QED
        BY <3>1, <3>3, <4>1, <4>2
    <3> QED
      BY <3>2, <3>3
  <2> QED
    BY <2>3, <2>4
<1>4. ASSUME NEW level \in Level, KeysDebounce(level)
      PROVE  SettledHigh(i)' <=> held'[i] = GPIO_HIGH_LEVEL
  <2>1. /\ Watch(SW_START_STOP, Samples(SW_START_STOP, level))
        /\ test' = [test EXCEPT ![SW_START_STOP] = Samples(SW_START_STOP, level)]
        /\ Watched(i) /\ message = <<>> /\ UNCHANGED <<inq, status, lost>>
        /\ message' = <<>> \/ Head(message').id = SW_START_STOP
    BY <1>1, <1>4 DEF KeysDebounce
  <2>2. held'[i] = held[i] /\ (i \in bounced' <=> i \in bounced)
    BY <1>1, <2>1, Names, OtherSample
  <2>3. SettledHigh(i)' <=> SettledHigh(i)
    BY <1>1, <2>1, SampleOfAnother
  <2> QED
    BY <1>2, <2>1, <2>2, <2>3
<1>5. CASE Send
  <2>1. /\ message # <<>> /\ UNCHANGED <<held, bounced>>
        /\ lost' = lost \ ({Head(message).id} \cap Switches)
    BY <1>5 DEF Send
  <2>2. SettledHigh(i)' <=> SettledHigh(i)
    BY <1>1, <1>5, SettledSend
  <2>3. CASE Head(message).id = i
    <3>1. Head(message).set <=> held[i] = GPIO_HIGH_LEVEL
      BY <1>1, <2>1, <2>3 DEF Current
    <3>2. SettledHigh(i) <=> Head(message).set
      <4>1. /\ inq \in Seq(Message) /\ message \in Seq(Message) /\ Len(message) <= 1
            /\ (status[i] = GPIO_HIGH_LEVEL) \in BOOLEAN
        BY <1>1, Reports DEF TypeOK
      <4> QED
        BY <2>1, <2>3, <4>1, SettledOf DEF SettledHigh
    <3> QED
      BY <2>1, <2>2, <3>1, <3>2
  <2>4. CASE Head(message).id # i
    BY <1>2, <2>1, <2>2, <2>4
  <2> QED
    BY <2>3, <2>4
<1>6. CASE SendTimeout
  <2>1. lost' = lost \cup {Head(message).id} /\ UNCHANGED <<held, bounced>>
    BY <1>6 DEF SendTimeout
  <2>2. SettledHigh(i)' <=> SettledHigh(i)
    BY <1>1, <1>6, <2>1, SettledTimeout
  <2> QED
    BY <1>2, <2>1, <2>2
<1>7. CASE SendOther
  BY <1>1, <1>2, <1>7, SettledOther DEF SendOther, history
<1>8. CASE Receive
  BY <1>1, <1>2, <1>8, SettledReceive DEF Receive, history
<1>9. CASE InpExpire \/ UNCHANGED vars
  <2>1. UNCHANGED <<message, inq, status, held, bounced, lost>>
    BY <1>9 DEF InpExpire, vars, history
  <2> QED
    BY <1>2, <2>1 DEF SettledHigh
<1> QED
  BY <1>3, <1>4, <1>5, <1>6, <1>7, <1>8, <1>9 DEF Next

LEMMA KeyStep ==
  ASSUME IInv, [Next]_vars
  PROVE  PressToggles'
<1> DEFINE k == SW_START_STOP
<1> SUFFICES ASSUME k \notin bounced', k \notin lost', ~hurried'
             PROVE  SettledHigh(k)' <=> presses'
  BY DEF PressToggles
<1>1. /\ TypeOK /\ TypeOK' /\ \A i \in Sampled : Watched(i)
      /\ k \in Sampled /\ k \notin Switches
  BY TypeStep, Names DEF IInv
<1>2. k \notin bounced /\ k \notin lost /\ ~hurried => (SettledHigh(k) <=> presses)
  BY DEF IInv, PressToggles
<1> HIDE DEF k
<1>3. ASSUME NEW level \in Level, InpDebounce(level)
      PROVE  SettledHigh(k)' <=> presses'
  <2>1. /\ at \in Sampled /\ Watch(at, Samples(at, level)) /\ k # at
        /\ test' = [test EXCEPT ![at] = Samples(at, level)] /\ Watched(k)
        /\ message = <<>> /\ UNCHANGED <<inq, status, lost, presses, hurried>>
        /\ message' = <<>> \/ Head(message').id = at
    BY <1>1, <1>3 DEF InpDebounce, TypeOK, Sampled
  <2>2. k \in bounced' <=> k \in bounced
    BY <1>1, <2>1, OtherSample
  <2>3. SettledHigh(k)' <=> SettledHigh(k)
    BY <1>1, <2>1, SampleOfAnother
  <2> QED
    BY <1>2, <2>1, <2>2, <2>3
<1>4. ASSUME NEW level \in Level, KeysDebounce(level)
      PROVE  SettledHigh(k)' <=> presses'
  <2> DEFINE t == Samples(k, level)
             press == held[k] = TECL_FREE /\ t[3] = t[4] /\ level = TECL_PUSH
  <2>1. /\ Watch(k, t) /\ test' = [test EXCEPT ![k] = t] /\ Watched(k)
        /\ message = <<>> /\ UNCHANGED <<inq, status, lost>>
        /\ message' = IF Pressed(t) THEN <<[id |-> k, set |-> Complement]>> ELSE <<>>
        /\ presses' = (press # presses)
        /\ hurried' = (hurried \/ (press /\ \E j \in 1 .. Len(inq) : inq[j].id = k))
    BY <1>1, <1>4 DEF KeysDebounce, k
  <2>2. /\ t[4] = level
        /\ k \notin bounced' => k \notin bounced \/ Reported(t) # {}
        /\ Pressed(t) => held[k] = TECL_FREE /\ t[3] = TECL_PUSH /\ level = TECL_PUSH
        /\ held[k] = TECL_FREE /\ t[3] = TECL_PUSH /\ level = TECL_PUSH
             => Pressed(t) \/ k \in bounced
    BY <1>1, <2>1, NewSample
  <2>3. k \notin bounced
    BY <1>1, <2>1 DEF Watch
  <2>4. press <=> Pressed(t)
    BY <2>2, <2>3
  <2>5. presses \in BOOLEAN /\ press \in BOOLEAN
    BY <1>1 DEF TypeOK
  <2>6. k \notin lost /\ ~hurried
    BY <2>1
  <2> HIDE DEF t, press
  <2>7. CASE ~Pressed(t)
    <3>1. SettledHigh(k)' <=> SettledHigh(k)
      BY <1>1, <2>1, <2>7, SettledSample
    <3>2. presses' <=> presses
      <4>1. press = FALSE
        BY <2>4, <2>5, <2>7
      <4> QED
        BY <2>1, <2>5, <4>1
    <3> QED
      BY <1>2, <2>3, <2>6, <3>1, <3>2
  <2>8. CASE Pressed(t)
    <3>1. presses' <=> ~presses
      BY <2>1, <2>4, <2>5, <2>8
    <3>2. \A j \in 1 .. Len(inq) : inq[j].id # k
      BY <2>1, <2>4, <2>8
    <3>3. inq \in Seq(Message) /\ <<>> \in Seq(Message) /\ Len(<<>>) <= 1
      BY <1>1 DEF TypeOK
    <3>4. (status[k] = GPIO_HIGH_LEVEL) \in BOOLEAN
      OBVIOUS
    <3>5. LastFor(k, inq, status[k] = GPIO_HIGH_LEVEL) <=> status[k] = GPIO_HIGH_LEVEL
      BY <3>2, <3>3, <3>4, Sets, NoneOf
    <3>6. LastFor(k, inq \o <<>>, status[k] = GPIO_HIGH_LEVEL)
            <=> LastFor(k, inq, status[k] = GPIO_HIGH_LEVEL)
      BY <3>3, <3>4, SettledOf
    <3>7. SettledHigh(k) <=> status[k] = GPIO_HIGH_LEVEL
      BY <2>1, <3>5, <3>6 DEF SettledHigh
    <3>8. /\ message' # <<>> /\ Head(message').id = k
          /\ Head(message').set = Complement
      BY <2>1, <2>8
    <3>9. Complement <=> status[k] # GPIO_HIGH_LEVEL
      BY DEF Complement, k
    <3>10. SettledHigh(k)' <=> Head(message').set
      BY <1>1, <2>1, <3>8, SettledSample
    <3>11. SettledHigh(k)' <=> ~SettledHigh(k)
      BY <3>7, <3>8, <3>9, <3>10
    <3> QED
      BY <1>2, <2>3, <2>6, <3>1, <3>11
  <2> QED
    BY <2>7, <2>8
<1>5. CASE Send
  <2>1. /\ UNCHANGED <<bounced, presses, hurried>>
        /\ lost' = lost \ ({Head(message).id} \cap Switches)
    BY <1>5 DEF Send
  <2>2. SettledHigh(k)' <=> SettledHigh(k)
    BY <1>1, <1>5, SettledSend
  <2> QED
    BY <1>1, <1>2, <2>1, <2>2
<1>6. CASE SendTimeout
  <2>1. lost' = lost \cup {Head(message).id} /\ UNCHANGED <<bounced, presses, hurried>>
    BY <1>6 DEF SendTimeout
  <2>2. SettledHigh(k)' <=> SettledHigh(k)
    BY <1>1, <1>6, <2>1, SettledTimeout
  <2> QED
    BY <1>2, <2>1, <2>2
<1>7. CASE SendOther
  BY <1>1, <1>2, <1>7, SettledOther DEF SendOther, history
<1>8. CASE Receive
  BY <1>1, <1>2, <1>8, SettledReceive DEF Receive, history
<1>9. CASE InpExpire \/ UNCHANGED vars
  <2>1. UNCHANGED <<message, inq, status, bounced, lost, presses, hurried>>
    BY <1>9 DEF InpExpire, vars, history
  <2> QED
    BY <1>2, <2>1 DEF SettledHigh
<1> QED
  BY <1>3, <1>4, <1>5, <1>6, <1>7, <1>8, <1>9 DEF Next
-----------------------------------------------------------------------------
(* The theorems *)

LEMMA InvInit == Init => IInv
<1> SUFFICES ASSUME Init
             PROVE  IInv
  OBVIOUS
<1>1. TypeOK
  BY TypeInit
<1>2. Current
  BY DEF Init, Current
<1>3. \A i \in Sampled : Watched(i)
  <2> TAKE i \in Sampled
  <2>1. test[i] = [k \in 1 .. 4 |-> FirstLevel(i)] /\ held[i] = FirstLevel(i)
    BY DEF Init
  <2> QED
    BY <2>1 DEF Watched
<1>4. ASSUME NEW i \in Sampled
      PROVE  ~SettledHigh(i)
  <2>1. inq \o message = <<>>
    BY DEF Init
  <2>2. ~(status[i] = GPIO_HIGH_LEVEL)
    BY DEF Init, GPIO_LOW_LEVEL, GPIO_HIGH_LEVEL
  <2> QED
    BY <2>1, <2>2, LastEmpty DEF SettledHigh
<1>5. StatusFollowsSwitch
  <2> SUFFICES ASSUME NEW i \in Switches
               PROVE  SettledHigh(i) <=> held[i] = GPIO_HIGH_LEVEL
    BY DEF StatusFollowsSwitch
  <2>1. held[i] = GPIO_LOW_LEVEL
    BY Names DEF Init, FirstLevel, Sampled
  <2> QED
    BY <1>4, <2>1 DEF Sampled, GPIO_LOW_LEVEL, GPIO_HIGH_LEVEL
<1>6. PressToggles
  BY <1>4, Names DEF Init, PressToggles
<1> QED
  BY <1>1, <1>2, <1>3, <1>5, <1>6 DEF IInv

LEMMA InvStep == IInv /\ [Next]_vars => IInv'
<1> SUFFICES ASSUME IInv, [Next]_vars
             PROVE  IInv'
  OBVIOUS
<1>1. TypeOK' /\ (\A i \in Sampled : Watched(i))'
  BY TypeStep, WatchedStep DEF IInv
<1> QED
  BY <1>1, CurrentStep, SwitchStep, KeyStep DEF IInv

\* Samples, queue and table keep their types and the queue its length.
THEOREM DebounceTypeCorrect == Spec => []TypeOK
<1>1. Init => TypeOK
  BY TypeInit
<1>2. TypeOK /\ [Next]_vars => TypeOK'
  BY TypeStep
<1> QED
  BY <1>1, <1>2, PTL DEF Spec

\* For any set of switches, any length of the queue and any movement of the
\* pins, the table follows every switch that did not bounce and whose last
\* report was not lost.
THEOREM SwitchFollowed == Spec => []StatusFollowsSwitch
<1>1. IInv => StatusFollowsSwitch
  BY DEF IInv
<1> QED
  BY <1>1, InvInit, InvStep, PTL DEF Spec

\* The key toggles the status once a press.
THEOREM PressCounted == Spec => []PressToggles
<1>1. IInv => PressToggles
  BY DEF IInv
<1> QED
  BY <1>1, InvInit, InvStep, PTL DEF Spec
=============================================================================
