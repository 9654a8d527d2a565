------------------------------- MODULE Times -------------------------------
(***************************************************************************)
(* The seconds of a register, counted from the first of its page, in one   *)
(* byte: sup_calculateTime of the input task and calculateDiffTime of the  *)
(* output task, which are the same, and three theorems about them for all  *)
(* minutes and seconds.                                                    *)
(***************************************************************************)
EXTENDS Integers, TLAPS

SAMPLE_MAX_MINUTES == 4
SAMPLE_MAX_SECONDS == 15

\* A difference in a uint8_t; one that is not below 60 is complemented.
Difference(init, end) ==
  LET diff == (end - init) % 256
  IN IF 59 < diff THEN 255 - diff ELSE diff

Minutes(initMin, endMin) ==
  LET diff == Difference(initMin, endMin)
  IN IF SAMPLE_MAX_MINUTES < diff THEN SAMPLE_MAX_MINUTES ELSE diff

Seconds(initSec, endSec, minutes) ==
  LET diff == Difference(initSec, endSec)
  IN IF SAMPLE_MAX_SECONDS < diff /\ minutes = SAMPLE_MAX_MINUTES
     THEN SAMPLE_MAX_SECONDS ELSE diff

\* What is summed in the last line, before it is cut to a byte.
Total(initMin, initSec, endMin, endSec) ==
  LET minutes == Minutes(initMin, endMin)
  IN Seconds(initSec, endSec, minutes) + minutes * 60

sup_calculateTime(initMin, initSec, endMin, endSec) ==
  Total(initMin, initSec, endMin, endSec) % 256

Sixty == 0 .. 59
-----------------------------------------------------------------------------
\* The sum fits its byte, whatever the two times are.
THEOREM TimeFits ==
  ASSUME NEW initMin \in Sixty, NEW initSec \in Sixty,
         NEW endMin \in Sixty, NEW endSec \in Sixty
  PROVE  Total(initMin, initSec, endMin, endSec) \in 0 .. 255
<1> DEFINE m == Minutes(initMin, endMin)
<1>1. m \in 0 .. 4
  BY DEF Minutes, Difference, SAMPLE_MAX_MINUTES, Sixty
<1>2. /\ Seconds(initSec, endSec, m) \in 0 .. 59
      /\ m = 4 => Seconds(initSec, endSec, m) <= 15
  BY <1>1
  DEF Seconds, Difference, SAMPLE_MAX_SECONDS, SAMPLE_MAX_MINUTES, Sixty
<1> HIDE DEF m
<1>3. Seconds(initSec, endSec, m) + m * 60 \in 0 .. 255
  BY <1>1, <1>2
<1> QED
  BY <1>3 DEF Total, m

\* Up to four minutes and fifteen seconds the time is exact, if neither the
\* seconds nor the minutes have passed their sixty since the first register.
THEOREM TimeExact ==
  ASSUME NEW initMin \in Sixty, NEW initSec \in Sixty,
         NEW endMin \in Sixty, NEW endSec \in Sixty,
         initMin <= endMin, initSec <= endSec,
         60 * (endMin - initMin) + (endSec - initSec) <= 255
  PROVE  sup_calculateTime(initMin, initSec, endMin, endSec)
           = 60 * (endMin - initMin) + (endSec - initSec)
<1>1. endMin - initMin \in 0 .. 4 /\ endSec - initSec \in 0 .. 59
  BY DEF Sixty
<1>2. Minutes(initMin, endMin) = endMin - initMin
  BY <1>1 DEF Minutes, Difference, SAMPLE_MAX_MINUTES, Sixty
<1>3. endMin - initMin = 4 => endSec - initSec <= 15
  BY DEF Sixty
<1>4. Seconds(initSec, endSec, endMin - initMin) = endSec - initSec
  BY <1>1, <1>3
  DEF Seconds, Difference, SAMPLE_MAX_SECONDS, SAMPLE_MAX_MINUTES, Sixty
<1> QED
  BY <1>1, <1>2, <1>3, <1>4 DEF sup_calculateTime, Total

\* When the seconds have, within three minutes, the borrow is not taken: the
\* time is too long by twice what is missing, less one, so that a register may
\* get a later time than the one after it (the "FIXME" of the code is about the
\* minutes only).
THEOREM TimeWithoutBorrow ==
  ASSUME NEW initMin \in Sixty, NEW initSec \in Sixty,
         NEW endMin \in Sixty, NEW endSec \in Sixty,
         initMin <= endMin, endMin - initMin <= 3, endSec < initSec
  PROVE  sup_calculateTime(initMin, initSec, endMin, endSec)
           = 60 * (endMin - initMin) + (endSec - initSec)
             + (2 * (initSec - endSec) - 1)
<1>1. endMin - initMin \in 0 .. 3 /\ initSec - endSec \in 1 .. 59
  BY DEF Sixty
<1>2. Minutes(initMin, endMin) = endMin - initMin
  BY <1>1 DEF Minutes, Difference, SAMPLE_MAX_MINUTES, Sixty
<1>3. Seconds(initSec, endSec, endMin - initMin) = initSec - endSec - 1
  BY <1>1
  DEF Seconds, Difference, SAMPLE_MAX_SECONDS, SAMPLE_MAX_MINUTES, Sixty
<1>4. (initSec - endSec - 1) + (endMin - initMin) * 60 \in 0 .. 255
  BY <1>1
<1>5. Total(initMin, initSec, endMin, endSec)
        = (initSec - endSec - 1) + (endMin - initMin) * 60
  BY <1>2, <1>3 DEF Total
<1>6. sup_calculateTime(initMin, initSec, endMin, endSec)
        = (initSec - endSec - 1) + (endMin - initMin) * 60
  BY <1>4, <1>5 DEF sup_calculateTime
<1> QED
  BY <1>1, <1>6 DEF Sixty
=============================================================================
