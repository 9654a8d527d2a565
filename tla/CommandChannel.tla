--------------------------- MODULE CommandChannel ---------------------------
(***************************************************************************)
(* What a process, a timer or an output may count on that other tasks      *)
(* start and stop from afar: the commands for it come late, in the order   *)
(* they were given, each of them once or not at all, and nothing else      *)
(* starts it.  One that is a single shot also ends by itself.              *)
(***************************************************************************)
EXTENDS Naturals, Sequences

CONSTANT SingleShot

VARIABLES
  way,      (* the commands on their way, oldest first: TRUE starts        *)
  on,       (* what the last command that has come made of it              *)
  lost      (* some command was lost                                       *)

vars == <<on, lost, way>>

Init == way = <<>> /\ on = FALSE /\ lost = FALSE

Give(b) ==
  /\ UNCHANGED <<on, lost>>
  /\ way' = Append(way, b)

Obey ==
  /\ way # <<>>
  /\ on' = Head(way)
  /\ way' = Tail(way)
  /\ UNCHANGED lost

End ==
  /\ SingleShot
  /\ on' = FALSE
  /\ UNCHANGED <<lost, way>>

Without(s, k) == SubSeq(s, 1, k - 1) \o SubSeq(s, k + 1, Len(s))

\* A command is lost on its way, or before it has set out.
Lose ==
  /\ lost' = TRUE
  /\ UNCHANGED on
  /\ way' \in {way} \cup {Without(way, k) : k \in 1 .. Len(way)}

Next == Obey \/ End \/ Lose \/ \E b \in BOOLEAN : Give(b)

Spec == Init /\ [][Next]_vars
=============================================================================
