-------------------------- MODULE HistoryLogProofs --------------------------
(***************************************************************************)
(* Theorems about the register buffers, for every size of the buffers and  *)
(* of the queue.                                                           *)
(*                                                                         *)
(* What an announced buffer holds depends on what it holds while it is     *)
(* filled: FillInv says it for every position, before and after idReg, and *)
(* that no message in the queue is newer than its producer.                *)
(***************************************************************************)
EXTENDS HistoryLog, SequenceTheorems, TLAPS

\* The registers of the fills that are complete.
Done(p) == made[p] - idReg[p]

\* The buffer of p: this fill up to idReg[p], the one before it from there on.
BufferInv(p) ==
  /\ idReg[p] <= made[p]
  /\ Done(p) > 0 => Done(p) >= REG_OPR_LOG
  /\ \A k \in Position :
       /\ k < idReg[p] => regToLog[p][k] = Done(p) + 1 + k
       /\ k >= idReg[p] /\ Done(p) > 0
            => regToLog[p][k] = Done(p) - REG_OPR_LOG + 1 + k
  /\ idReg[p] > 0 => hour[p] = Done(p) + 1
  /\ idReg[p] = 0 /\ made[p] > 0 => hour[p] = made[p] - REG_OPR_LOG + 1

\* A producer at its send has just filled its buffer and makes nothing.
SendInv(p) ==
  /\ sending[p] => idReg[p] = 0 /\ made[p] > 0 /\ announced[p] < made[p]
  /\ announced[p] <= made[p]
  /\ p = "input" /\ sending[p] => left = 0

\* A message says when it was sent; its producer may have gone on since.
MessageInv(m) ==
  /\ REG_OPR_LOG <= m.sent /\ m.sent <= made[m.from]
  /\ m.hour = m.sent - REG_OPR_LOG + 1
  /\ m.sent = made[m.from] => idReg[m.from] = 0

FillInv ==
  /\ TypeOK
  /\ \A p \in Producer : BufferInv(p) /\ SendInv(p)
  /\ \A k \in 1 .. Len(logq) : MessageInv(logq[k])
  /\ LatePageHasNewest
-----------------------------------------------------------------------------
\* The next position is a position (NextId).
LEMMA NextIdType == \A k \in Position : NextId(k) \in Position
  BY HistoryLogAssumption DEF NextId, Position

\* The fields of a message (dlogPack_t).
LEMMA PackFields ==
  ASSUME NEW m \in Pack
  PROVE  m.from \in Producer /\ m.hour \in Count /\ m.sent \in Count
  BY DEF Pack

LEMMA InitFill == Init => FillInv
<1> SUFFICES ASSUME Init PROVE FillInv
  OBVIOUS
<1> USE HistoryLogAssumption
<1>1. TypeOK
  <2>1. 0 \in Position /\ 0 \in Count
    BY DEF Position, Count
  <2>2. logq \in Seq(Pack) /\ Len(logq) = 0
    BY EmptySeq DEF Init
  <2>3. QED
    BY <2>1, <2>2 DEF Init, TypeOK
<1>2. \A p \in Producer : BufferInv(p) /\ SendInv(p)
  BY DEF Init, BufferInv, SendInv, Done, Position
<1>3. /\ \A k \in 1 .. Len(logq) : MessageInv(logq[k])
      /\ LatePageHasNewest
  BY DEF Init, LatePageHasNewest
<1> QED
  BY <1>1, <1>2, <1>3 DEF FillInv

\* Making a register (sup_historyRegister, historyRegister) keeps the buffers.
LEMMA RegisterBuffers ==
  ASSUME FillInv, NEW p \in Producer, Register(p)
  PROVE  /\ regToLog' \in [Producer -> [Position -> Count]]
         /\ idReg' \in [Producer -> Position]
         /\ made' \in [Producer -> Count]
         /\ hour' \in [Producer -> Count]
         /\ \A q \in Producer : BufferInv(q)'
<1> USE HistoryLogAssumption
<1>1. /\ idReg[p] \in Position /\ made[p] \in Nat /\ made[p] + 1 \in Count
      /\ NextId(idReg[p]) \in Position
  BY NextIdType DEF FillInv, TypeOK, Register, Count
<1>2. /\ regToLog' \in [Producer -> [Position -> Count]]
      /\ idReg' \in [Producer -> Position]
      /\ made' \in [Producer -> Count]
      /\ hour' \in [Producer -> Count]
  BY <1>1 DEF FillInv, TypeOK, Register
<1>3. ASSUME NEW q \in Producer, q # p PROVE BufferInv(q)'
  <2>1. /\ regToLog'[q] = regToLog[q] /\ idReg'[q] = idReg[q]
        /\ made'[q] = made[q] /\ hour'[q] = hour[q]
    BY <1>3 DEF FillInv, TypeOK, Register
  <2>2. QED
    BY <2>1 DEF FillInv, BufferInv, Done
<1>4. BufferInv(p)'
  <2>1. /\ idReg'[p] = NextId(idReg[p]) /\ made'[p] = made[p] + 1
        /\ hour'[p] = IF idReg[p] = 0 THEN made[p] + 1 ELSE hour[p]
        /\ \A k \in Position :
             regToLog'[p][k] = IF k = idReg[p] THEN made[p] + 1 ELSE regToLog[p][k]
    BY <1>1 DEF FillInv, TypeOK, Register
  <2>2. BufferInv(p)
    BY DEF FillInv
  <2>3. CASE NextId(idReg[p]) = 0
    <3>1. idReg[p] = REG_OPR_LOG - 1
      BY <1>1, <2>3 DEF NextId, Position
    <3>2. QED
      BY <1>1, <2>1, <2>2, <2>3, <3>1 DEF BufferInv, Done, Position
  <2>4. CASE NextId(idReg[p]) # 0
    <3>1. NextId(idReg[p]) = idReg[p] + 1
      BY <2>4 DEF NextId
    <3>2. QED
      BY <1>1, <2>1, <2>2, <3>1 DEF BufferInv, Done, Position
  <2>5. QED
    BY <2>3, <2>4
<1>5. QED
  BY <1>2, <1>3, <1>4

\* Making a register makes every message of its producer older.
LEMMA RegisterMessages ==
  ASSUME FillInv, NEW p \in Producer, Register(p)
  PROVE  \A k \in 1 .. Len(logq') : MessageInv(logq[k])'
<1> USE HistoryLogAssumption
<1> SUFFICES ASSUME NEW k \in 1 .. Len(logq) PROVE MessageInv(logq[k])'
  BY DEF Register
<1>1. /\ MessageInv(logq[k]) /\ logq' = logq
      /\ logq[k] \in Pack
  BY DEF FillInv, TypeOK, Register
<1>2. /\ logq[k].from \in Producer /\ logq[k].sent \in Nat
      /\ made[logq[k].from] \in Nat
  <2>1. logq[k].from \in Producer /\ logq[k].sent \in Count
    BY <1>1, PackFields
  <2>2. QED
    BY <2>1 DEF Count, FillInv, TypeOK
<1>3. CASE logq[k].from = p
  <2>1. made'[p] = made[p] + 1
    BY DEF Register, FillInv, TypeOK
  <2>2. QED
    BY <1>1, <1>2, <1>3, <2>1 DEF MessageInv
<1>4. CASE logq[k].from # p
  <2>1. made'[logq[k].from] = made[logq[k].from]
        /\ idReg'[logq[k].from] = idReg[logq[k].from]
    BY <1>2, <1>4 DEF Register, FillInv, TypeOK
  <2>2. QED
    BY <1>1, <2>1 DEF MessageInv
<1>5. QED
  BY <1>3, <1>4

\* A producer makes a register and is at its send exactly when that fills its
\* buffer, or not even then; `more' is what is left of its message.
LEMMA ProduceFill ==
  ASSUME FillInv, NEW p \in Producer, Register(p), ~sending[p],
         NEW full \in BOOLEAN, full => BuffFull(p),
         sending' = [sending EXCEPT ![p] = full],
         left' \in Nat, p = "input" /\ full => left' = 0,
         p # "input" => left' = left
  PROVE  FillInv'
<1> USE HistoryLogAssumption
<1>1. TypeOK'
  BY RegisterBuffers DEF FillInv, TypeOK, Register
<1>2. \A q \in Producer : BufferInv(q)'
  BY RegisterBuffers
<1>3. \A q \in Producer : SendInv(q)'
  <2> SUFFICES ASSUME NEW q \in Producer PROVE SendInv(q)'
    OBVIOUS
  <2>1. SendInv(q) /\ announced' = announced /\ announced[q] \in Nat
    BY DEF FillInv, TypeOK, Register, Count
  <2>2. CASE q = p
    <3>1. /\ sending'[q] = full /\ made'[q] = made[q] + 1 /\ made[q] \in Nat
          /\ idReg'[q] = NextId(idReg[q])
      BY <2>2 DEF FillInv, TypeOK, Register, Count
    <3>2. QED
      BY <2>1, <2>2, <3>1 DEF SendInv, BuffFull
  <2>3. CASE q # p
    <3>1. /\ sending'[q] = sending[q] /\ made'[q] = made[q]
          /\ idReg'[q] = idReg[q]
      BY <2>3 DEF FillInv, TypeOK, Register
    <3>2. q = "input" => left' = left
      BY <2>3 DEF Producer
    <3>3. QED
      BY <2>1, <3>1, <3>2 DEF SendInv
  <2>4. QED
    BY <2>2, <2>3
<1>4. \A k \in 1 .. Len(logq') : MessageInv(logq[k])'
  BY RegisterMessages
<1>5. LatePageHasNewest'
  BY DEF FillInv, LatePageHasNewest, Register
<1>6. QED
  BY <1>1, <1>2, <1>3, <1>4, <1>5 DEF FillInv

\* Announcing a buffer puts a true message behind those in the queue.
LEMMA AnnounceFill ==
  ASSUME FillInv, NEW p \in Producer, Announce(p)
  PROVE  FillInv'
<1> USE HistoryLogAssumption
<1> DEFINE m == [from |-> p, hour |-> hour[p], sent |-> made[p]]
<1>1. m \in Pack
  BY DEF FillInv, TypeOK, Pack
<1>2. \/ logq' = Append(logq, m) /\ Len(logq) < LogQueue
      \/ logq' = logq
  BY DEF Announce
<1>3. /\ announced[p] + 1 \in Count
      /\ idReg[p] = 0 /\ made[p] > 0 /\ announced[p] < made[p]
      /\ made[p] \in Nat /\ announced[p] \in Nat
  BY DEF FillInv, TypeOK, SendInv, Announce, Count
<1>4. logq \in Seq(Pack) /\ Len(logq) \in Nat
  BY LenProperties DEF FillInv, TypeOK
<1>5. logq' \in Seq(Pack) /\ Len(logq') <= LogQueue
  <2>1. Len(logq) <= LogQueue /\ LogQueue \in Nat
    BY DEF FillInv, TypeOK
  <2>2. CASE logq' = Append(logq, m) /\ Len(logq) < LogQueue
    <3> HIDE DEF m
    <3>1. Append(logq, m) \in Seq(Pack) /\ Len(Append(logq, m)) = Len(logq) + 1
      BY <1>1, <1>4, AppendProperties
    <3>2. QED
      BY <1>4, <2>1, <2>2, <3>1
  <2>3. CASE logq' = logq
    BY <1>4, <2>1, <2>3
  <2>4. QED
    BY <1>2, <2>2, <2>3
<1>6. TypeOK'
  BY <1>3, <1>5 DEF FillInv, TypeOK, Announce
<1>7. \A q \in Producer : BufferInv(q)'
  BY DEF FillInv, BufferInv, Done, Announce
<1>8. \A q \in Producer : SendInv(q)'
  BY <1>3 DEF FillInv, TypeOK, SendInv, Announce
<1>9. \A k \in 1 .. Len(logq') : MessageInv(logq'[k])
  <2>1. MessageInv(m)
    BY <1>3 DEF FillInv, BufferInv, Done, MessageInv, TypeOK, Position
  <2>2. \A k \in 1 .. Len(logq) : MessageInv(logq[k])
    BY DEF FillInv
  <2>3. CASE logq' = Append(logq, m)
    <3> HIDE DEF m
    <3>1. /\ Len(Append(logq, m)) = Len(logq) + 1
          /\ \A k \in 1 .. Len(logq) : Append(logq, m)[k] = logq[k]
          /\ Append(logq, m)[Len(logq) + 1] = m
      BY <1>1, <1>4, AppendProperties
    <3>2. ASSUME NEW k \in 1 .. Len(logq) + 1
          PROVE  MessageInv(Append(logq, m)[k])
      BY <1>4, <2>1, <2>2, <3>1
    <3>3. QED
      BY <2>3, <3>1, <3>2
  <2>4. CASE logq' = logq
    BY <2>2, <2>4
  <2>5. QED
    BY <1>2, <2>3, <2>4
<1>10. \A k \in 1 .. Len(logq') : MessageInv(logq[k])'
  BY <1>9 DEF MessageInv, Announce
<1>11. LatePageHasNewest'
  BY DEF FillInv, LatePageHasNewest, Announce
<1>12. QED
  BY <1>6, <1>7, <1>8, <1>10, <1>11 DEF FillInv

\* What a buffer holds, with whatever its producer has made since.
LEMMA BufferHasNewest ==
  ASSUME FillInv, NEW p \in Producer, made[p] >= REG_OPR_LOG
  PROVE  {regToLog[p][k] : k \in Position} = made[p] - REG_OPR_LOG + 1 .. made[p]
<1> USE HistoryLogAssumption
<1>1. /\ made[p] \in Nat /\ idReg[p] \in Position /\ BufferInv(p)
  BY DEF FillInv, TypeOK, Count
<1>2. Done(p) > 0 /\ Done(p) = made[p] - idReg[p]
  BY <1>1 DEF Done, Position
<1>3. ASSUME NEW k \in Position
      PROVE regToLog[p][k] \in made[p] - REG_OPR_LOG + 1 .. made[p]
  BY <1>1, <1>2 DEF BufferInv, Position
<1>4. ASSUME NEW n \in made[p] - REG_OPR_LOG + 1 .. made[p]
      PROVE  \E k \in Position : regToLog[p][k] = n
  <2>1. CASE n > Done(p)
    <3>1. PICK k \in Position : k = n - Done(p) - 1 /\ k < idReg[p]
      BY <1>1, <1>2, <2>1 DEF Position
    <3>2. regToLog[p][k] = Done(p) + 1 + k
      BY <1>1, <3>1 DEF BufferInv
    <3>3. regToLog[p][k] = n
      BY <1>1, <1>2, <3>1, <3>2 DEF Position
    <3>4. QED
      BY <3>3, Zenon
  <2>2. CASE ~(n > Done(p))
    <3>1. PICK k \in Position : k = n - Done(p) + REG_OPR_LOG - 1 /\ k >= idReg[p]
      BY <1>1, <1>2, <2>2 DEF Position
    <3>2. regToLog[p][k] = Done(p) - REG_OPR_LOG + 1 + k
      BY <1>1, <1>2, <3>1 DEF BufferInv
    <3>3. regToLog[p][k] = n
      BY <1>1, <1>2, <3>1, <3>2 DEF Position
    <3>4. QED
      BY <3>3, Zenon
  <2>3. QED
    BY <2>1, <2>2
<1>5. QED
  BY <1>3, <1>4

\* Storing a buffer (dataLog_writeRegister), in time or late.
LEMMA WriteFill ==
  ASSUME FillInv, WriteRegister
  PROVE  FillInv'
<1> USE HistoryLogAssumption
<1> DEFINE m == Head(logq)
           g == [from |-> m.from, hour |-> m.hour, at |-> made[m.from],
                 regs |-> regToLog[m.from]]
<1>1. logq \in Seq(Pack) /\ logq # <<>>
  BY DEF FillInv, TypeOK, WriteRegister
<1>2. /\ m \in Pack /\ m = logq[1] /\ 1 \in 1 .. Len(logq)
      /\ Tail(logq) \in Seq(Pack) /\ Len(Tail(logq)) = Len(logq) - 1
      /\ \A k \in 1 .. Len(Tail(logq)) : Tail(logq)[k] = logq[k + 1]
  BY <1>1, HeadTailProperties, LenProperties
<1>3. Len(logq) \in Nat /\ Len(logq) <= LogQueue
  BY <1>1, LenProperties DEF FillInv, TypeOK
<1>4. MessageInv(m) /\ m.from \in Producer /\ m.hour \in Count /\ m.sent \in Nat
  BY <1>2, PackFields DEF FillInv, Count
<1>5. g \in Page /\ page' = {g}
  BY <1>4 DEF Page, WriteRegister, FillInv, TypeOK
<1>6. TypeOK'
  BY <1>2, <1>3, <1>5 DEF FillInv, TypeOK, WriteRegister
<1>7. \A q \in Producer : BufferInv(q)' /\ SendInv(q)'
  BY DEF FillInv, BufferInv, SendInv, Done, WriteRegister
<1>8. \A k \in 1 .. Len(logq') : MessageInv(logq[k])'
  <2>1. \A k \in 1 .. Len(Tail(logq)) : MessageInv(Tail(logq)[k])
    BY <1>2, <1>3 DEF FillInv
  <2>2. QED
    BY <2>1 DEF MessageInv, WriteRegister
<1>9. LatePageHasNewest'
  <2>1. made[m.from] \in Nat /\ made[m.from] >= REG_OPR_LOG
        /\ g.hour <= g.at - REG_OPR_LOG + 1
    BY <1>4 DEF MessageInv, FillInv, TypeOK, Count
  <2>2. {g.regs[k] : k \in Position} = g.at - REG_OPR_LOG + 1 .. g.at
    BY <1>4, <2>1, BufferHasNewest
  <2>3. QED
    BY <1>5, <2>1, <2>2 DEF LatePageHasNewest
<1>10. QED
  BY <1>6, <1>7, <1>8, <1>9 DEF FillInv

LEMMA NextFill == FillInv /\ [Next]_vars => FillInv'
<1> SUFFICES ASSUME FillInv, [Next]_vars PROVE FillInv'
  OBVIOUS
<1> USE HistoryLogAssumption
<1>0. "input" \in Producer /\ "output" \in Producer /\ left \in Nat
  BY DEF Producer, FillInv, TypeOK
<1>1. CASE UNCHANGED vars
  BY <1>1 DEF vars, FillInv, TypeOK, BufferInv, SendInv, MessageInv, Done,
              LatePageHasNewest
<1>2. ASSUME NEW n \in Channels, AnalogMessage(n) PROVE FillInv'
  <2>1. n \in Nat /\ left' = n /\ ~sending["input"]
    BY <1>2 DEF AnalogMessage
  <2>2. TypeOK'
    BY <1>2, <2>1 DEF AnalogMessage, FillInv, TypeOK
  <2>3. \A q \in Producer : BufferInv(q)' /\ SendInv(q)'
    BY <1>2, <2>1 DEF AnalogMessage, FillInv, BufferInv, SendInv, Done
  <2>4. (\A k \in 1 .. Len(logq) : MessageInv(logq[k]))' /\ LatePageHasNewest'
    BY <1>2 DEF AnalogMessage, FillInv, MessageInv, LatePageHasNewest
  <2>5. QED
    BY <2>2, <2>3, <2>4 DEF FillInv
<1>3. CASE AnalogChannel
  <2>1. /\ Register("input") /\ left > 0 /\ left' = left - 1 /\ left' \in Nat
        /\ sending' = [sending EXCEPT !["input"] = (left = 1 /\ BuffFull("input"))]
    BY <1>0, <1>3 DEF AnalogChannel
  <2>2. ~sending["input"]
    BY <1>0, <2>1 DEF FillInv, SendInv
  <2>3. (left = 1 /\ BuffFull("input")) \in BOOLEAN
    OBVIOUS
  <2>4. (left = 1 /\ BuffFull("input")) => left' = 0
    BY <2>1
  <2>5. QED
    BY <1>0, <2>1, <2>2, <2>3, <2>4, ProduceFill
<1>4. CASE DigitalMessage
  <2>1. /\ Register("input") /\ ~sending["input"] /\ left' = 0
        /\ sending' = [sending EXCEPT !["input"] = BuffFull("input")]
        /\ BuffFull("input") \in BOOLEAN
    BY <1>4 DEF DigitalMessage, BuffFull
  <2>2. QED
    BY <1>0, <2>1, ProduceFill
<1>5. CASE OutputMessage
  <2>1. /\ Register("output") /\ ~sending["output"] /\ left' = left
        /\ sending' = [sending EXCEPT !["output"] = BuffFull("output")]
        /\ BuffFull("output") \in BOOLEAN
    BY <1>5 DEF OutputMessage, BuffFull
  <2>2. QED
    BY <1>0, <2>1, ProduceFill
<1>6. CASE WriteRegister
  BY <1>6, WriteFill
<1>7. ASSUME NEW p \in Producer, Announce(p) PROVE FillInv'
  BY <1>7, AnnounceFill
<1>8. QED
  BY <1>1, <1>2, <1>3, <1>4, <1>5, <1>6, <1>7 DEF Next

\* The buffers and messages keep their invariant for every size.
THEOREM FillInvariant == Spec => []FillInv
<1>1. QED
  BY InitFill, NextFill, PTL DEF Spec
-----------------------------------------------------------------------------
\* A full buffer that has not been touched is exactly the last fill.
LEMMA FullBuffer ==
  ASSUME FillInv, NEW p \in Producer, idReg[p] = 0, made[p] > 0
  PROVE  regToLog[p] = Fill(made[p]) /\ hour[p] = made[p] - REG_OPR_LOG + 1
<1> USE HistoryLogAssumption
<1>1. made[p] \in Nat /\ BufferInv(p) /\ regToLog[p] \in [Position -> Count]
  BY DEF FillInv, TypeOK, Count
<1>2. \A k \in Position : regToLog[p][k] = made[p] - REG_OPR_LOG + 1 + k
  BY <1>1 DEF BufferInv, Done, Position
<1>3. QED
  BY <1>1, <1>2 DEF Fill, BufferInv

LEMMA FillIsIntact == FillInv => FillIntact
<1> SUFFICES ASSUME FillInv PROVE FillIntact
  OBVIOUS
<1> USE HistoryLogAssumption
<1>1. ASSUME NEW p \in Producer, sending[p]
      PROVE  regToLog[p] = Fill(made[p]) /\ hour[p] = made[p] - REG_OPR_LOG + 1
  BY <1>1, FullBuffer DEF FillInv, SendInv
<1>2. ASSUME NEW k \in 1 .. Len(logq), logq[k].sent = made[logq[k].from]
      PROVE  /\ regToLog[logq[k].from] = Fill(logq[k].sent)
             /\ logq[k].hour = logq[k].sent - REG_OPR_LOG + 1
  <2>1. logq[k] \in Pack /\ MessageInv(logq[k])
    BY DEF FillInv, TypeOK
  <2>2. logq[k].from \in Producer /\ logq[k].sent \in Nat
    BY <2>1, PackFields DEF Count
  <2>3. idReg[logq[k].from] = 0 /\ made[logq[k].from] > 0
    BY <1>2, <2>1, <2>2 DEF MessageInv
  <2>4. QED
    BY <1>2, <2>1, <2>2, <2>3, FullBuffer DEF MessageInv
<1>3. QED
  BY <1>1, <1>2 DEF FillIntact
-----------------------------------------------------------------------------
\* The buffers the output task has announced, counting the one it is about to,
\* hold all the registers of its complete fills.
AnnouncedInv ==
  (announced["output"] + (IF sending["output"] THEN 1 ELSE 0)) * REG_OPR_LOG
    = Done("output")

LEMMA OneMore ==
  ASSUME NEW a \in Nat, NEW n \in Nat PROVE (a + 1) * n = a * n + n
  OBVIOUS

LEMMA WholeFills ==
  ASSUME NEW a \in Nat, NEW n \in Nat \ {0}, NEW r \in 0 .. n - 1
  PROVE  (a * n + r) \div n = a
  OBVIOUS

LEMMA NextAnnounced == FillInv /\ AnnouncedInv /\ [Next]_vars => AnnouncedInv'
<1> SUFFICES ASSUME FillInv, AnnouncedInv, [Next]_vars PROVE AnnouncedInv'
  OBVIOUS
<1> USE HistoryLogAssumption
<1>0. /\ "input" \in Producer /\ "output" \in Producer
      /\ announced["output"] \in Nat /\ made["output"] \in Nat
      /\ idReg["output"] \in Position
  BY DEF Producer, FillInv, TypeOK, Count
<1>1. CASE UNCHANGED <<announced, sending, made, idReg>>
  BY <1>1 DEF AnnouncedInv, Done
<1>2. CASE AnalogChannel \/ DigitalMessage \/ Announce("input")
  <2>1. /\ announced'["output"] = announced["output"]
        /\ sending'["output"] = sending["output"]
        /\ made'["output"] = made["output"] /\ idReg'["output"] = idReg["output"]
    BY <1>0, <1>2 DEF AnalogChannel, DigitalMessage, Announce, Register, FillInv,
                      TypeOK
  <2>2. QED
    BY <2>1 DEF AnnouncedInv, Done
<1>3. CASE Announce("output")
  <2>1. /\ announced'["output"] = announced["output"] + 1
        /\ sending["output"] /\ ~sending'["output"]
        /\ made' = made /\ idReg' = idReg
    BY <1>0, <1>3 DEF Announce, FillInv, TypeOK
  <2>2. QED
    BY <1>0, <2>1 DEF AnnouncedInv, Done
<1>4. CASE OutputMessage
  <2>1. /\ announced' = announced /\ ~sending["output"]
        /\ sending'["output"] = BuffFull("output")
        /\ made'["output"] = made["output"] + 1
        /\ idReg'["output"] = NextId(idReg["output"])
    BY <1>0, <1>4 DEF OutputMessage, Register, FillInv, TypeOK
  <2>2. announced["output"] * REG_OPR_LOG = made["output"] - idReg["output"]
    BY <1>0, <2>1 DEF AnnouncedInv, Done
  <2>3. CASE BuffFull("output")
    <3>1. idReg["output"] = REG_OPR_LOG - 1 /\ idReg'["output"] = 0
      BY <1>0, <2>1, <2>3 DEF BuffFull, NextId, Position
    <3>2. (announced["output"] + 1) * REG_OPR_LOG
            = announced["output"] * REG_OPR_LOG + REG_OPR_LOG
      BY <1>0, OneMore
    <3>3. (announced["output"] + 1) * REG_OPR_LOG = made["output"] + 1
      BY <1>0, <2>2, <3>1, <3>2 DEF Position
    <3>4. QED
      BY <1>0, <2>1, <2>3, <3>1, <3>3 DEF AnnouncedInv, Done
  <2>4. CASE ~BuffFull("output")
    <3>1. idReg'["output"] = idReg["output"] + 1
      BY <1>0, <2>1, <2>4 DEF BuffFull, NextId, Position
    <3>2. QED
      BY <1>0, <2>1, <2>2, <2>4, <3>1 DEF AnnouncedInv, Done, Position
  <2>5. QED
    BY <2>3, <2>4
<1>5. QED
  BY <1>1, <1>2, <1>3, <1>4
     DEF Next, vars, AnalogMessage, WriteRegister, Producer

LEMMA AnnouncedFills == FillInv /\ AnnouncedInv => OutputFillsAnnounced
<1> SUFFICES ASSUME FillInv, AnnouncedInv, ~sending["output"]
             PROVE  announced["output"] = made["output"] \div REG_OPR_LOG
  BY DEF OutputFillsAnnounced
<1>1. /\ announced["output"] \in Nat /\ made["output"] \in Nat
      /\ idReg["output"] \in 0 .. REG_OPR_LOG - 1
  BY DEF Producer, FillInv, TypeOK, Count, Position
<1>2. announced["output"] * REG_OPR_LOG + idReg["output"] = made["output"]
  BY <1>1, HistoryLogAssumption DEF AnnouncedInv, Done
<1>3. QED
  BY <1>1, <1>2, WholeFills, HistoryLogAssumption
-----------------------------------------------------------------------------
\* An announcement made at hour h is a fill behind the buffer of p as soon as that
\* has begun its next fill, or is at its next send.
Earlier(p, h) ==
  /\ 1 <= h
  /\ h + (IF idReg[p] > 0 \/ sending[p] THEN REG_OPR_LOG ELSE 0) <= hour[p]

\* The same of the buffer after a step.
EarlierThen(p, h) ==
  /\ 1 <= h
  /\ h + (IF idReg'[p] > 0 \/ sending'[p] THEN REG_OPR_LOG ELSE 0) <= hour'[p]

OrderInv ==
  /\ \A p \in Producer : made[p] = 0 => hour[p] = 0
  /\ PagesInOrder
  /\ \A k \in 1 .. Len(logq) : Earlier(logq[k].from, logq[k].hour)
  /\ \A g \in page : Earlier(g.from, g.hour)

\* What is earlier stays so, whatever the producer does.
LEMMA StaysEarlier ==
  ASSUME FillInv, OrderInv, [Next]_vars, NEW p \in Producer, NEW h \in Count,
         Earlier(p, h)
  PROVE  EarlierThen(p, h)
<1> USE HistoryLogAssumption
<1>1. /\ h \in Nat /\ made[p] \in Nat /\ hour[p] \in Nat /\ idReg[p] \in Position
      /\ BufferInv(p) /\ SendInv(p)
  BY DEF FillInv, TypeOK, Count
<1>2. CASE Register(p)
  <2>1. hour'[p] = IF idReg[p] = 0 THEN made[p] + 1 ELSE hour[p]
    BY <1>2 DEF FillInv, TypeOK, Register
  <2>2. h + REG_OPR_LOG <= hour'[p]
    <3>1. CASE idReg[p] = 0
      <4>1. made[p] > 0 /\ hour[p] = made[p] - REG_OPR_LOG + 1 /\ h <= hour[p]
        <5>1. h <= hour[p] /\ 1 <= h
          BY <1>1, <3>1 DEF Earlier
        <5>2. made[p] = 0 => hour[p] = 0
          BY DEF OrderInv
        <5> QED
          BY <1>1, <3>1, <5>1, <5>2 DEF BufferInv
      <4> QED
        BY <1>1, <2>1, <3>1, <4>1
    <3>2. CASE idReg[p] # 0
      BY <1>1, <2>1, <3>2 DEF Earlier, Position
    <3> QED
      BY <3>1, <3>2
  <2>3. hour'[p] \in Nat
    BY <1>1, <2>1
  <2> QED
    BY <1>1, <2>2, <2>3 DEF Earlier, EarlierThen
<1>3. CASE ~Register(p)
  <2>1. /\ hour'[p] = hour[p] /\ idReg'[p] = idReg[p]
        /\ sending'[p] => sending[p]
    BY <1>3 DEF Next, vars, AnalogMessage, AnalogChannel, DigitalMessage, OutputMessage,
                Announce, WriteRegister, Register, FillInv, TypeOK, Producer
  <2> QED
    BY <1>1, <2>1 DEF Earlier, EarlierThen, Position
<1> QED
  BY <1>2, <1>3

LEMMA AnnounceInOrder ==
  ASSUME FillInv, OrderInv, NEW p \in Producer, Announce(p)
  PROVE  PagesInOrder' /\ \A k \in 1 .. Len(logq') : logq'[k] \in Pack
           /\ \/ k \in 1 .. Len(logq) /\ logq'[k] = logq[k]
              \/ logq'[k].from = p /\ logq'[k].hour = hour[p]
<1> USE HistoryLogAssumption
<1> DEFINE m == [from |-> p, hour |-> hour[p], sent |-> made[p]]
<1>1. /\ m \in Pack /\ logq \in Seq(Pack) /\ page' = page /\ page \subseteq Page
      /\ Len(logq) \in Nat /\ m.from = p /\ m.hour = hour[p]
  BY DEF FillInv, TypeOK, Pack, Announce
<1>2. logq' = Append(logq, m) \/ logq' = logq
  BY DEF Announce
<1>3. \A k \in 1 .. Len(logq) : Earlier(logq[k].from, logq[k].hour)
  BY DEF OrderInv
<1>4. sending[p]
  BY DEF Announce
<1> HIDE DEF m
<1>5. CASE logq' = logq
  BY <1>1, <1>5 DEF OrderInv, PagesInOrder
<1>6. CASE logq' = Append(logq, m)
  <2>1. /\ Len(logq') = Len(logq) + 1 /\ logq'[Len(logq) + 1] = m
        /\ \A k \in 1 .. Len(logq) : logq'[k] = logq[k]
    BY <1>1, <1>6, AppendProperties
  <2>2. ASSUME NEW j \in 1 .. Len(logq), logq[j].from = p
        PROVE  logq[j].hour + REG_OPR_LOG <= hour[p]
    BY <1>3, <1>4, <2>2 DEF Earlier
  <2>3. ASSUME NEW g \in page, g.from = p
        PROVE  g.hour + REG_OPR_LOG <= hour[p]
    BY <1>4, <2>3 DEF OrderInv, Earlier
  <2>4. ASSUME NEW k \in 1 .. Len(logq')
        PROVE  /\ \A j \in 1 .. k - 1 : logq'[j].from = logq'[k].from =>
                    logq'[j].hour + REG_OPR_LOG <= logq'[k].hour
               /\ \A g \in page : g.from = logq'[k].from =>
                    g.hour + REG_OPR_LOG <= logq'[k].hour
    <3>1. CASE k = Len(logq) + 1
      <4>1. \A j \in 1 .. k - 1 : j \in 1 .. Len(logq)
        BY <1>1, <3>1
      <4> QED
        BY <1>1, <2>1, <2>2, <2>3, <3>1, <4>1
    <3>2. CASE k \in 1 .. Len(logq)
      <4>1. \A j \in 1 .. k - 1 : j \in 1 .. Len(logq)
        BY <1>1, <3>2
      <4> QED
        BY <2>1, <3>2, <4>1 DEF OrderInv, PagesInOrder
    <3> QED
      BY <1>1, <2>1, <3>1, <3>2
  <2>5. PagesInOrder'
    BY <1>1, <2>4 DEF PagesInOrder
  <2>6. ASSUME NEW k \in 1 .. Len(logq')
        PROVE  /\ logq'[k] \in Pack
               /\ \/ k \in 1 .. Len(logq) /\ logq'[k] = logq[k]
                  \/ logq'[k].from = p /\ logq'[k].hour = hour[p]
    <3>1. k \in 1 .. Len(logq) \/ k = Len(logq) + 1
      BY <1>1, <2>1
    <3> QED
      BY <1>1, <2>1, <3>1
  <2> QED
    BY <2>5, <2>6
<1> QED
  BY <1>2, <1>5, <1>6

LEMMA WriteInOrder ==
  ASSUME FillInv, OrderInv, WriteRegister
  PROVE  /\ PagesInOrder'
         /\ \A g \in page' : g.from = logq[1].from /\ g.hour = logq[1].hour
         /\ \A k \in 1 .. Len(logq') : k + 1 \in 1 .. Len(logq) /\ logq'[k] = logq[k + 1]
         /\ 1 \in 1 .. Len(logq)
<1>1. logq \in Seq(Pack) /\ logq # <<>>
  BY DEF FillInv, TypeOK, WriteRegister
<1>2. /\ Len(logq) \in Nat /\ 1 \in 1 .. Len(logq) /\ Head(logq) = logq[1]
      /\ logq' = Tail(logq) /\ Len(logq') = Len(logq) - 1
      /\ \A k \in 1 .. Len(logq') : logq'[k] = logq[k + 1]
  BY <1>1, HeadTailProperties, LenProperties DEF WriteRegister
<1>3. \A g \in page' : g.from = logq[1].from /\ g.hour = logq[1].hour
  BY <1>2 DEF WriteRegister
<1>4. \A k \in 1 .. Len(logq') : k + 1 \in 1 .. Len(logq) /\ 1 \in 1 .. (k + 1) - 1
        /\ \A j \in 1 .. k - 1 : j + 1 \in 1 .. (k + 1) - 1 /\ j \in 1 .. Len(logq')
  BY <1>2
<1>5. PagesInOrder'
  BY <1>2, <1>3, <1>4 DEF OrderInv, PagesInOrder
<1> QED
  BY <1>2, <1>3, <1>4, <1>5

LEMMA NextInOrder == FillInv /\ OrderInv /\ [Next]_vars => OrderInv'
<1> SUFFICES ASSUME FillInv, OrderInv, [Next]_vars PROVE OrderInv'
  OBVIOUS
<1> USE HistoryLogAssumption
<1>1. \A q \in Producer, h \in Count : Earlier(q, h) => EarlierThen(q, h)
  BY StaysEarlier
<1>2. /\ logq \in Seq(Pack) /\ page \subseteq Page
      /\ \A k \in 1 .. Len(logq) :
           /\ logq[k].from \in Producer /\ logq[k].hour \in Count
           /\ Earlier(logq[k].from, logq[k].hour)
      /\ \A g \in page : g.from \in Producer /\ g.hour \in Count
                         /\ Earlier(g.from, g.hour)
  BY PackFields DEF FillInv, TypeOK, OrderInv, Page
<1>3. /\ \A k \in 1 .. Len(logq) : EarlierThen(logq[k].from, logq[k].hour)
      /\ \A g \in page : EarlierThen(g.from, g.hour)
  BY <1>1, <1>2
<1>4. \A p \in Producer : (made[p] = 0 => hour[p] = 0)'
  <2> SUFFICES ASSUME NEW p \in Producer PROVE (made[p] = 0 => hour[p] = 0)'
    OBVIOUS
  <2>1. made[p] \in Nat /\ (made[p] = 0 => hour[p] = 0)
    BY DEF FillInv, TypeOK, Count, OrderInv
  <2>2. CASE Register(p)
    <3>1. made'[p] = made[p] + 1
      BY <2>2 DEF FillInv, TypeOK, Register
    <3> QED
      BY <2>1, <3>1
  <2>3. CASE ~Register(p)
    <3>1. made'[p] = made[p] /\ hour'[p] = hour[p]
      BY <2>3 DEF Next, vars, AnalogMessage, AnalogChannel, DigitalMessage,
                  OutputMessage, Announce, WriteRegister, Register, FillInv, TypeOK,
                  Producer
    <3> QED
      BY <2>1, <3>1
  <2> QED
    BY <2>2, <2>3
<1>5. ASSUME NEW p \in Producer, Announce(p)
      PROVE  OrderInv'
  <2>1. /\ PagesInOrder'
        /\ \A k \in 1 .. Len(logq') :
             \/ k \in 1 .. Len(logq) /\ logq'[k] = logq[k]
             \/ logq'[k].from = p /\ logq'[k].hour = hour[p]
    BY <1>5, AnnounceInOrder
  <2>2. EarlierThen(p, hour[p])
    <3>1. /\ idReg[p] = 0 /\ made[p] > 0 /\ made[p] \in Nat /\ hour[p] \in Nat
          /\ hour[p] = made[p] - REG_OPR_LOG + 1
          /\ idReg' = idReg /\ hour' = hour /\ ~sending'[p]
      BY <1>5 DEF FillInv, TypeOK, Count, SendInv, BufferInv, Announce
    <3>2. made[p] >= REG_OPR_LOG
      BY <3>1 DEF FillInv, BufferInv, Done
    <3> QED
      BY <3>1, <3>2 DEF EarlierThen
  <2>3. page' = page
    BY <1>5 DEF Announce
  <2> QED
    BY <1>3, <1>4, <2>1, <2>2, <2>3 DEF OrderInv, Earlier, EarlierThen
<1>6. CASE WriteRegister
  BY <1>3, <1>4, <1>6, WriteInOrder DEF OrderInv, Earlier, EarlierThen
<1>7. CASE UNCHANGED <<logq, page>>
  BY <1>3, <1>4, <1>7 DEF OrderInv, PagesInOrder, Earlier, EarlierThen
<1> QED
  BY <1>5, <1>6, <1>7
  DEF Next, vars, AnalogMessage, AnalogChannel, DigitalMessage, OutputMessage, Register
-----------------------------------------------------------------------------
\* Every position is inside the buffer, and the queue inside its length.
THEOREM HistoryTypeCorrect == Spec => []TypeOK
<1>1. FillInv => TypeOK
  BY DEF FillInv
<1>2. QED
  BY <1>1, FillInvariant, PTL

\* A service that is in time stores exactly the fill it was told of.
THEOREM FillKept == Spec => []FillIntact
<1>1. QED
  BY FillIsIntact, FillInvariant, PTL

\* A page stored late has no gap, and its time is not too late.
THEOREM LatePageKept == Spec => []LatePageHasNewest
<1>1. FillInv => LatePageHasNewest
  BY DEF FillInv
<1>2. QED
  BY <1>1, FillInvariant, PTL

\* The output task forgets no buffer it fills (historyRegister).
THEOREM OutputAnnounced == Spec => []OutputFillsAnnounced
<1>1. Init => AnnouncedInv
  BY HistoryLogAssumption DEF Init, AnnouncedInv, Done, Producer
<1>2. Spec => []AnnouncedInv
  BY <1>1, NextAnnounced, FillInvariant, PTL DEF Spec
<1>3. QED
  BY <1>2, AnnouncedFills, FillInvariant, PTL

\* The pages of a producer follow each other as its fills do, each under a time of
\* its own, also those that are stored late (dataLog_writeRegister).
THEOREM PagesOrdered == Spec => []PagesInOrder
<1>1. Init => OrderInv
  <2>1. Init => Len(logq) = 0
    BY EmptySeq DEF Init
  <2> QED
    BY <2>1 DEF Init, OrderInv, PagesInOrder
<1>2. Spec => []OrderInv
  BY <1>1, NextInOrder, FillInvariant, PTL DEF Spec
<1>3. OrderInv => PagesInOrder
  BY DEF OrderInv
<1> QED
  BY <1>2, <1>3, PTL
=============================================================================
