---------------------------- MODULE Thermocouple ----------------------------
(***************************************************************************)
(* A reading of the thermocouple: convVoltTermocuple (ciaaAIN.c) turns the *)
(* count of the converter into a voltage, adds the voltage of the ambient  *)
(* temperature (tcuplaKVoltToTemp) and looks the sum up in the table of    *)
(* temperaturaMath.c: one search over the rows, which hold ten degrees     *)
(* each, and inside each row it tries one over its columns                 *)
(* (busquedaBinariaK, one action per turn of its two loops).               *)
(*                                                                         *)
(* Voltages are integers, in a unit of which every count is a multiple;    *)
(* the code's are floats, whose rounding is far below what tells two       *)
(* entries apart.  The ambient temperature is converted to 16 bits without *)
(* sign on its way, so it is never negative, nor is the sum: of the two    *)
(* tables only the positive one is ever searched.                          *)
(***************************************************************************)
EXTENDS Integers

CONSTANTS
  Rows,      (* SIZE_TABLA_CONV_POS, 13 in the code                        *)
  Volt,      (* voltConvTipoKPos: the voltage of each row and column       *)
  PerCount,  (* the voltage of one count, 5 / 1024 mV                      *)
  Counts,    (* what the converter may read, 0 .. 1023                     *)
  Ambient    (* what the thermistor may tell, as 16 bits without sign      *)

\* coefPorUnidadCelsius has ten columns; that the search finds every exact
\* first column depends on it.
Columns == 10
Row == 0 .. Rows - 1
Column == 0 .. Columns - 1

\* Columns follow each other upwards, and so do rows.
ASSUME ThermocoupleAssumption ==
  /\ Rows \in Nat \ {0}
  /\ Volt \in [Row -> [Column -> Nat]]
  /\ Volt[0][0] = 0
  /\ \A i \in Row : \A j, k \in Column : j < k => Volt[i][j] < Volt[i][k]
  /\ \A i, k \in Row : i < k => Volt[i][Columns - 1] < Volt[k][0]
  /\ PerCount \in Nat /\ Counts \subseteq Nat /\ Ambient \subseteq Nat

VARIABLES
  pc,          (* "idle", "row": at the loop over rows, "column"           *)
  actualTemp,  (* the ambient temperature                                  *)
  volt_ref,    (* the voltage looked up; NoVolt when there is none         *)
  inf_i, sup_i, pos_i,  (* the rows left, and the one being searched       *)
  inf_j, sup_j,         (* the columns left of it                          *)
  out,         (* the temperature in the table of inputs                   *)
  retval       (* whether the last reading gave one (0: AIN_CONVER_ERR)    *)

bounds == <<inf_i, sup_i, pos_i, inf_j, sup_j>>
vars == <<pc, actualTemp, volt_ref, bounds, out, retval>>

NoVolt == -1
Top == Volt[Rows - 1][Columns - 1]

\* voltFromTempK
Level(t) == Volt[t \div Columns][t % Columns]

Init ==
  /\ pc = "idle"
  /\ actualTemp \in Ambient
  /\ volt_ref = NoVolt
  /\ inf_i = 0 /\ sup_i = 0 /\ pos_i = 0 /\ inf_j = 0 /\ sup_j = 0
  /\ out = 0 /\ retval = FALSE

\* The thermistor is read, after the thermocouple (convVoltThermistor).
Thermistor(t) ==
  /\ pc = "idle"
  /\ actualTemp' = t
  /\ UNCHANGED <<pc, volt_ref, bounds, out, retval>>

\* No temperature: what was shown before stays.
Refuse == pc' = "idle" /\ retval' = FALSE /\ out' = out

Show(t) == pc' = "idle" /\ retval' = TRUE /\ out' = t

\* Fault: the search starts with one row too many.
ConvertBeyond(n) ==
  /\ pc = "idle"
  /\ volt_ref' = IF actualTemp < Rows * Columns
                 THEN Level(actualTemp) + n * PerCount ELSE NoVolt
  /\ inf_i' = 0 /\ sup_i' = Rows
  /\ \/ volt_ref' \notin 0 .. Top /\ Refuse
     \/ volt_ref' = 0 /\ Show(0)
     \/ volt_ref' \in 1 .. Top /\ pc' = "row" /\ UNCHANGED <<out, retval>>
  /\ UNCHANGED <<actualTemp, pos_i, inf_j, sup_j>>

\* tcuplaKVoltToTemp up to its search: TEMP_VALIDA_TK and VOLTAJE_VALIDO_TK.
Convert(n) ==
  /\ pc = "idle"
  /\ volt_ref' = IF actualTemp < Rows * Columns
                 THEN Level(actualTemp) + n * PerCount ELSE NoVolt
  /\ inf_i' = 0 /\ sup_i' = Rows - 1
  /\ \/ volt_ref' \notin 0 .. Top /\ Refuse
     \/ volt_ref' = 0 /\ Show(0)
     \/ volt_ref' \in 1 .. Top /\ pc' = "row" /\ UNCHANGED <<out, retval>>
  /\ UNCHANGED <<actualTemp, pos_i, inf_j, sup_j>>

Middle(inf, sup) == (sup - inf) \div 2 + inf

\* The loop over rows: it searches the middle one, or ends without a place.
EnterRow ==
  /\ pc = "row"
  /\ inf_i <= sup_i
  /\ pos_i' = Middle(inf_i, sup_i)
  /\ inf_j' = 0 /\ sup_j' = Columns - 1
  /\ pc' = "column"
  /\ UNCHANGED <<actualTemp, volt_ref, inf_i, sup_i, out, retval>>

NoRowLeft ==
  /\ pc = "row"
  /\ inf_i > sup_i
  /\ Refuse
  /\ UNCHANGED <<actualTemp, volt_ref, bounds>>

\* Fault: the column beside is not looked at.
HereAnyway(j) == Volt[pos_i][j] >= volt_ref

\* The place of the voltage: between this column and the one before, or the
\* first column of the last row there is to search.
Here(j) ==
  /\ Volt[pos_i][j] >= volt_ref
  /\ IF j > 0 THEN Volt[pos_i][j - 1] <= volt_ref ELSE inf_i = sup_i

\* Fault: the column looked at is not left out.
TryColumnAgain ==
  LET j == Middle(inf_j, sup_j)
  IN /\ pc = "column" /\ inf_j <= sup_j
     /\ \/ Here(j) /\ Show(Columns * pos_i + j) /\ UNCHANGED <<inf_j, sup_j>>
        \/ /\ ~Here(j)
           /\ IF Volt[pos_i][j] < volt_ref
              THEN inf_j' = j /\ UNCHANGED sup_j
              ELSE sup_j' = j /\ UNCHANGED inf_j
           /\ UNCHANGED <<pc, out, retval>>
     /\ UNCHANGED <<actualTemp, volt_ref, inf_i, sup_i, pos_i>>

\* The loop over columns.
TryColumn ==
  LET j == Middle(inf_j, sup_j)
  IN /\ pc = "column" /\ inf_j <= sup_j
     /\ \/ Here(j) /\ Show(Columns * pos_i + j) /\ UNCHANGED <<inf_j, sup_j>>
        \/ /\ ~Here(j)
           /\ IF Volt[pos_i][j] < volt_ref
              THEN inf_j' = j + 1 /\ UNCHANGED sup_j
              ELSE sup_j' = j - 1 /\ UNCHANGED inf_j
           /\ UNCHANGED <<pc, out, retval>>
     /\ UNCHANGED <<actualTemp, volt_ref, inf_i, sup_i, pos_i>>

\* Faults: the row searched is not left out, or the one beside it is too.
LeaveRowStays ==
  /\ pc = "column" /\ inf_j > sup_j
  /\ IF Volt[pos_i][0] > volt_ref
     THEN sup_i' = pos_i - 1 /\ UNCHANGED inf_i
     ELSE inf_i' = pos_i /\ UNCHANGED sup_i
  /\ pc' = "row"
  /\ UNCHANGED <<actualTemp, volt_ref, pos_i, inf_j, sup_j, out, retval>>
LeaveRowFar ==
  /\ pc = "column" /\ inf_j > sup_j
  /\ IF Volt[pos_i][0] > volt_ref
     THEN sup_i' = pos_i - 2 /\ UNCHANGED inf_i
     ELSE inf_i' = pos_i + 1 /\ UNCHANGED sup_i
  /\ pc' = "row"
  /\ UNCHANGED <<actualTemp, volt_ref, pos_i, inf_j, sup_j, out, retval>>

\* It ends without a place: on to the rows before or after this one.
LeaveRow ==
  /\ pc = "column" /\ inf_j > sup_j
  /\ IF Volt[pos_i][0] > volt_ref
     THEN sup_i' = pos_i - 1 /\ UNCHANGED inf_i
     ELSE inf_i' = pos_i + 1 /\ UNCHANGED sup_i
  /\ pc' = "row"
  /\ UNCHANGED <<actualTemp, volt_ref, pos_i, inf_j, sup_j, out, retval>>

Search == EnterRow \/ NoRowLeft \/ TryColumn \/ LeaveRow

Next ==
  \/ \E t \in Ambient : Thermistor(t)
  \/ \E n \in Counts : Convert(n)
  \/ Search

Spec == Init /\ [][Next]_vars

\* The search is not interrupted for ever.
FairSpec == Spec /\ WF_vars(Search)
-----------------------------------------------------------------------------
(* Properties *)

Temperature == 0 .. Rows * Columns - 1

\* Every row and column looked at is in the table, and every temperature shown
\* is one of its degrees (busquedaBinariaK).
TypeOK ==
  /\ pc \in {"idle", "row", "column"}
  /\ actualTemp \in Ambient
  /\ volt_ref \in Nat \cup {NoVolt}
  /\ inf_i \in 0 .. Rows /\ sup_i \in -1 .. Rows - 1 /\ pos_i \in Row
  /\ inf_j \in 0 .. Columns /\ sup_j \in -1 .. Columns - 1
  /\ out \in Temperature
  /\ retval \in BOOLEAN

\* A temperature shown is right to the degree: the voltage lies between its
\* entry in the table and the entry of the degree below, also across two rows
\* (busquedaBinariaK).
ReadingBrackets ==
  pc = "idle" /\ retval =>
    /\ volt_ref <= Level(out)
    /\ out > 0 => Level(out - 1) <= volt_ref

\* A voltage between the last column of a row and the first of the next.
InGap(v) == \E i \in Row : i > 0 /\ Volt[i - 1][Columns - 1] < v /\ v < Volt[i][0]

\* A voltage in the range of the table is refused only between two rows: where
\* the first column of a row is taken for its place depends on the way the
\* search has come (busquedaBinariaK, the test for the last row left).
RefusedOnlyInGaps ==
  pc = "idle" /\ ~retval /\ volt_ref \in 0 .. Top => InGap(volt_ref)

\* Each try at a row leaves at most half of the rows, each look at a column at
\* most half of its columns, and nothing is won back: a reading takes as many
\* tries as the rows have binary digits (busquedaBinariaK).
RowsLeft == sup_i - inf_i + 1
ColumnsLeft == sup_j - inf_j + 1
SearchHalves ==
  [][/\ pc = "row" => RowsLeft' = RowsLeft
     /\ pc = "column" /\ pc' = "column" =>
          RowsLeft' = RowsLeft /\ 2 * ColumnsLeft' <= ColumnsLeft
     /\ pc = "column" /\ pc' = "row" => 2 * RowsLeft' <= RowsLeft]_vars

\* Every reading ends (the two loops of busquedaBinariaK).
SearchEnds == pc # "idle" ~> pc = "idle"
=============================================================================
