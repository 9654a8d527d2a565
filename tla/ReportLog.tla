----------------------------- MODULE ReportLog -----------------------------
(***************************************************************************)
(* What the report log promises while it has power, without addresses,     *)
(* time slots or control words: it keeps the newest Capacity reports, in   *)
(* the order they came, and adding one to a full log drops the oldest.     *)
(* Losing power empties it: no report survives a restart.                  *)
(***************************************************************************)
EXTENDS Naturals, Sequences

CONSTANTS Capacity, Reports

VARIABLE kept   (* the reports, oldest first *)

Init == kept = <<>>

\* Reports are numbered in the order they are offered.
Add(r) ==
  /\ \A i \in 1 .. Len(kept) : kept[i] < r
  /\ kept' = IF Len(kept) < Capacity THEN Append(kept, r)
             ELSE Append(Tail(kept), r)

\* Power is lost, or the log is used up.
Lose == kept' = <<>>

Next == Lose \/ \E r \in Reports : Add(r)

Spec == Init /\ [][Next]_kept
=============================================================================
