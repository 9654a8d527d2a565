------------------------- MODULE ThermocoupleProofs -------------------------
(***************************************************************************)
(* The search of the table, for every table of rows of ten columns whose   *)
(* voltages grow: what it shows is right to the degree, and what it        *)
(* refuses lies between two rows.                                          *)
(*                                                                         *)
(* The two loops keep the place between what is left: no row before inf_i  *)
(* and none after sup_i holds the voltage, and in the row being searched   *)
(* no column before inf_j reaches it while the one after sup_j does and    *)
(* was refused as its place.                                               *)
(***************************************************************************)
EXTENDS Thermocouple, TLAPS

\* The loop over rows.
RowsInv ==
  /\ volt_ref \in 1 .. Top
  /\ inf_i <= sup_i + 1
  /\ \A i \in Row : i < inf_i => Volt[i][9] < volt_ref
  /\ \A i \in Row : i > sup_i => Volt[i][0] > volt_ref

\* The loop over columns.  From the left end the search goes through 9, 3 and
\* 0: it meets column 1 before it gives up column 0.
ColumnsInv ==
  /\ inf_i <= pos_i /\ pos_i <= sup_i
  /\ inf_j <= sup_j + 1
  /\ inf_j > 0 => Volt[pos_i][inf_j - 1] < volt_ref
  /\ inf_j = 0 => sup_j \in {9, 3, 0, -1}
  /\ sup_j < 9 => Volt[pos_i][sup_j + 1] >= volt_ref /\ ~Here(sup_j + 1)
  /\ sup_j = -1 => Volt[pos_i][0] > volt_ref

SearchInv ==
  /\ TypeOK
  /\ pc \in {"row", "column"} => RowsInv
  /\ pc = "column" => ColumnsInv
  /\ ReadingBrackets
  /\ RefusedOnlyInGaps
-----------------------------------------------------------------------------
\* The order of the table (voltConvTipoKPos).
LEMMA VoltType == \A i \in Row, j \in Column : Volt[i][j] \in Nat
  BY ThermocoupleAssumption

LEMMA ColumnsGrow ==
  ASSUME NEW i \in Row, NEW j \in Column, NEW k \in Column, j < k
  PROVE  Volt[i][j] < Volt[i][k]
  BY ThermocoupleAssumption

LEMMA RowsGrow ==
  ASSUME NEW i \in Row, NEW k \in Row, i < k
  PROVE  Volt[i][9] < Volt[k][0]
  BY ThermocoupleAssumption DEF Columns

LEMMA TopType == Top \in Nat
<1>1. Rows - 1 \in Row /\ 9 \in Column
  BY ThermocoupleAssumption DEF Row, Column, Columns
<1>2. Volt[Rows - 1][9] \in Nat
  BY <1>1, VoltType
<1> QED
  BY <1>2 DEF Top, Columns

\* Tens and units.
LEMMA Digits ==
  ASSUME NEW i \in Nat, NEW j \in 0 .. 9
  PROVE  (10 * i + j) \div 10 = i /\ (10 * i + j) % 10 = j
  BY SMT

LEMMA DigitsIn ==
  ASSUME NEW R \in Nat, NEW i \in 0 .. R - 1, NEW j \in 0 .. 9
  PROVE  10 * i + j \in 0 .. R * 10 - 1
  BY SMT

LEMMA DigitsOf ==
  ASSUME NEW R \in Nat, NEW t \in 0 .. R * 10 - 1
  PROVE  t \div 10 \in 0 .. R - 1 /\ t % 10 \in 0 .. 9
  BY SMT

\* There is a row.
LEMMA RowsType == Rows \in Nat /\ Rows > 0
  BY ThermocoupleAssumption

\* A degree is a row and a column (voltFromTempK).
LEMMA LevelAt ==
  ASSUME NEW i \in Row, NEW j \in Column
  PROVE  /\ Level(Columns * i + j) = Volt[i][j]
         /\ Columns * i + j \in Temperature
<1>0. i \in Nat /\ i \in 0 .. Rows - 1 /\ j \in 0 .. 9
  BY RowsType DEF Row, Column, Columns
<1>1. (10 * i + j) \div 10 = i /\ (10 * i + j) % 10 = j
  BY <1>0, Digits
<1>2. 10 * i + j \in 0 .. Rows * 10 - 1
  BY <1>0, RowsType, DigitsIn
<1> QED
  BY <1>1, <1>2 DEF Level, Temperature, Columns

LEMMA LevelType ==
  ASSUME NEW t \in Temperature
  PROVE  Level(t) \in Nat
<1>1. t \div 10 \in Row /\ t % 10 \in Column
  BY RowsType, DigitsOf DEF Temperature, Row, Column, Columns
<1> QED
  BY <1>1, VoltType DEF Level, Columns

\* The middle of a range is in it.
LEMMA MiddleIn ==
  ASSUME NEW inf \in Int, NEW sup \in Int, inf <= sup
  PROVE  /\ Middle(inf, sup) \in Int
         /\ inf <= Middle(inf, sup) /\ Middle(inf, sup) <= sup
  BY DEF Middle
-----------------------------------------------------------------------------
LEMMA InitSearch == Init => SearchInv
<1> SUFFICES ASSUME Init PROVE SearchInv
  OBVIOUS
<1>1. TypeOK
  <2>1. 0 \in Row /\ 0 \in 0 .. Rows /\ 0 \in -1 .. Rows - 1
    BY RowsType DEF Row
  <2>2. 0 \in Temperature
    BY RowsType DEF Temperature, Columns
  <2>3. retval \in BOOLEAN /\ pc \in {"idle", "row", "column"}
    BY Zenon DEF Init
  <2>4. inf_j \in 0 .. Columns /\ sup_j \in -1 .. Columns - 1
    BY DEF Init, Columns
  <2> QED
    BY <2>1, <2>2, <2>3, <2>4 DEF Init, TypeOK
<1> QED
  BY <1>1 DEF Init, SearchInv, ReadingBrackets, RefusedOnlyInGaps, NoVolt

LEMMA ThermistorSearch ==
  ASSUME SearchInv, NEW t \in Ambient, Thermistor(t)
  PROVE  SearchInv'
  BY DEF Thermistor, SearchInv, TypeOK, ReadingBrackets, RefusedOnlyInGaps,
         InGap, Top, Level, bounds

\* A reading that is refused at once is refused for its range.
LEMMA ConvertSearch ==
  ASSUME SearchInv, NEW n \in Counts, Convert(n)
  PROVE  SearchInv'
<1> USE DEF SearchInv
<1>1. volt_ref' \in Nat \cup {NoVolt}
  <2>1. CASE actualTemp < Rows * Columns
    <3>1. actualTemp \in Temperature
      BY <2>1, ThermocoupleAssumption DEF TypeOK, Temperature, Columns
    <3>2. n * PerCount \in Nat
      BY ThermocoupleAssumption
    <3> QED
      BY <2>1, <3>1, <3>2, LevelType DEF Convert
  <2>2. CASE ~(actualTemp < Rows * Columns)
    BY <2>2 DEF Convert
  <2> QED
    BY <2>1, <2>2
<1>2. inf_i' = 0 /\ sup_i' = Rows - 1
  BY DEF Convert
<1>3. TypeOK'
  <2>1. 0 \in Temperature
    BY ThermocoupleAssumption DEF Temperature, Columns
  <2>2. /\ pc' \in {"idle", "row"} /\ retval' \in BOOLEAN
        /\ out' \in Temperature
    BY <2>1 DEF Convert, Refuse, Show, TypeOK
  <2> QED
    BY <1>1, <1>2, <2>2, ThermocoupleAssumption DEF Convert, TypeOK
<1>4. CASE volt_ref' \notin 0 .. Top /\ Refuse
  BY <1>3, <1>4 DEF Refuse, ReadingBrackets, RefusedOnlyInGaps, Top
<1>5. CASE volt_ref' = 0 /\ Show(0)
  <2>1. 0 \in Row /\ 0 \in Column
    BY ThermocoupleAssumption DEF Row, Column, Columns
  <2>2. Level(0) = 0
    BY <2>1, LevelAt, ThermocoupleAssumption DEF Columns
  <2>3. Level(out)' = 0 /\ out' = 0
    BY <1>5, <2>2 DEF Show, Level
  <2> QED
    BY <1>3, <1>5, <2>3 DEF Show, ReadingBrackets, RefusedOnlyInGaps
<1>6. CASE volt_ref' \in 1 .. Top /\ pc' = "row"
  <2>1. RowsInv'
    BY <1>2, <1>6, ThermocoupleAssumption DEF RowsInv, Row, Top
  <2> QED
    BY <1>3, <1>6, <2>1 DEF ReadingBrackets, RefusedOnlyInGaps
<1> QED
  BY <1>4, <1>5, <1>6 DEF Convert

\* The row entered is one of those left.
LEMMA EnterRowSearch ==
  ASSUME SearchInv, EnterRow
  PROVE  SearchInv'
<1> USE DEF SearchInv
<1>1. /\ pos_i' \in Int /\ inf_i <= pos_i' /\ pos_i' <= sup_i
  BY MiddleIn DEF EnterRow, TypeOK
<1>2. TypeOK'
  <2>1. pos_i' \in Row
    BY <1>1, RowsType DEF TypeOK, Row
  <2> QED
    BY <2>1 DEF EnterRow, TypeOK, Columns
<1>3. RowsInv'
  BY DEF EnterRow, RowsInv, Top
<1>4. ColumnsInv'
  BY <1>1 DEF EnterRow, ColumnsInv, Columns
<1> QED
  BY <1>2, <1>3, <1>4 DEF EnterRow, ReadingBrackets, RefusedOnlyInGaps

\* No row left: the voltage is between the last row that is too low and the
\* first that is too high.
LEMMA NoRowLeftSearch ==
  ASSUME SearchInv, NoRowLeft
  PROVE  SearchInv'
<1> USE DEF SearchInv
<1>1. RowsInv /\ inf_i = sup_i + 1 /\ TypeOK
  BY DEF NoRowLeft, RowsInv, TypeOK
<1>2. inf_i # 0
  <2> SUFFICES ASSUME inf_i = 0 PROVE FALSE
    OBVIOUS
  <2>1. 0 \in Row /\ 0 > sup_i
    BY <1>1, ThermocoupleAssumption DEF Row, TypeOK
  <2>2. Volt[0][0] > volt_ref
    BY <1>1, <2>1 DEF RowsInv
  <2> QED
    BY <1>1, <2>2, ThermocoupleAssumption, TopType DEF RowsInv
<1>3. inf_i # Rows
  <2> SUFFICES ASSUME inf_i = Rows PROVE FALSE
    OBVIOUS
  <2>1. Rows - 1 \in Row /\ Rows - 1 < inf_i
    BY ThermocoupleAssumption DEF Row
  <2>2. Top < volt_ref
    BY <1>1, <2>1 DEF RowsInv, Top, Columns
  <2> QED
    BY <1>1, <2>2, TopType DEF RowsInv
<1>4. inf_i \in Row /\ inf_i > 0 /\ inf_i - 1 \in Row
  BY <1>1, <1>2, <1>3, ThermocoupleAssumption DEF TypeOK, Row
<1>5. Volt[inf_i - 1][9] < volt_ref /\ volt_ref < Volt[inf_i][0]
  <2>1. Volt[inf_i][0] \in Nat /\ 0 \in Column
    BY <1>4, VoltType DEF Column, Columns
  <2> QED
    BY <1>1, <1>4, <2>1 DEF RowsInv, TypeOK, Row
<1>6. InGap(volt_ref)
  BY <1>4, <1>5 DEF InGap, Columns
<1>7. TypeOK'
  BY DEF NoRowLeft, Refuse, TypeOK, bounds
<1> QED
  BY <1>6, <1>7
  DEF NoRowLeft, Refuse, bounds, ReadingBrackets, RefusedOnlyInGaps, InGap
-----------------------------------------------------------------------------
\* A column in its place shows a temperature that is right.
LEMMA PlaceFound ==
  ASSUME SearchInv, pc = "column", NEW j \in Column, Here(j)
  PROVE  LET t == Columns * pos_i + j
         IN /\ t \in Temperature
            /\ volt_ref <= Level(t)
            /\ t > 0 => Level(t - 1) <= volt_ref
<1> DEFINE t == Columns * pos_i + j
<1> USE DEF SearchInv
<1>1. pos_i \in Row /\ RowsInv /\ ColumnsInv
  BY DEF TypeOK
<1>2. t \in Temperature /\ Level(t) = Volt[pos_i][j]
  BY <1>1, LevelAt
<1>3. volt_ref <= Level(t)
  BY <1>2 DEF Here
<1>4. ASSUME t > 0 PROVE Level(t - 1) <= volt_ref
  <2>1. CASE j > 0
    <3>1. j - 1 \in Column
      BY <2>1 DEF Column, Columns
    <3>2. Columns * pos_i + (j - 1) = t - 1
      BY <1>1 DEF Row, Column, Columns
    <3>3. Level(t - 1) = Volt[pos_i][j - 1]
      BY <1>1, <3>1, <3>2, LevelAt
    <3> QED
      BY <2>1, <3>3 DEF Here
  <2>2. CASE j = 0
    <3>1. pos_i = inf_i
      BY <1>1, <2>2 DEF Here, ColumnsInv, TypeOK, Row
    <3>2. pos_i - 1 \in Row /\ 9 \in Column
      <4>1. 10 * pos_i > 0
        BY <1>1, <1>4, <2>2, RowsType DEF Row, Columns
      <4>2. pos_i > 0
        BY <1>1, <4>1, RowsType DEF Row
      <4> QED
        BY <1>1, <4>2, RowsType DEF Row, Column, Columns
    <3>3. Columns * (pos_i - 1) + 9 = t - 1
      BY <1>1, <2>2 DEF Row, Columns
    <3>4. Level(t - 1) = Volt[pos_i - 1][9]
      BY <3>2, <3>3, LevelAt
    <3>5. Volt[pos_i - 1][9] < volt_ref
      BY <1>1, <3>1, <3>2 DEF RowsInv, Row
    <3>6. Volt[pos_i - 1][9] \in Nat
      BY <3>2, VoltType
    <3> QED
      BY <3>4, <3>5, <3>6 DEF TypeOK, NoVolt
  <2> QED
    BY <2>1, <2>2 DEF Column
<1> QED
  BY <1>2, <1>3, <1>4

\* One turn of the loop over columns.
LEMMA TryColumnSearch ==
  ASSUME SearchInv, TryColumn
  PROVE  SearchInv'
<1> DEFINE j == Middle(inf_j, sup_j)
<1> USE DEF SearchInv
<1>1. /\ pc = "column" /\ TypeOK /\ RowsInv /\ ColumnsInv /\ pos_i \in Row
      /\ inf_j <= sup_j
  BY DEF TryColumn, TypeOK
<1>2. j \in Column /\ inf_j <= j /\ j <= sup_j
  <2>1. inf_j \in 0 .. 10 /\ sup_j \in -1 .. 9
    BY <1>1 DEF TypeOK, Columns
  <2>2. j \in Int /\ inf_j <= j /\ j <= sup_j
    BY <1>1, <2>1, MiddleIn
  <2> QED
    BY <2>1, <2>2 DEF Column, Columns
<1>3. CASE Here(j) /\ Show(Columns * pos_i + j) /\ UNCHANGED <<inf_j, sup_j>>
  <2> DEFINE t == Columns * pos_i + j
  <2>1. /\ t \in Temperature /\ volt_ref <= Level(t)
        /\ t > 0 => Level(t - 1) <= volt_ref
    BY <1>1, <1>2, <1>3, PlaceFound
  <2>2. /\ pc' = "idle" /\ retval' = TRUE /\ out' = t /\ volt_ref' = volt_ref
        /\ UNCHANGED <<actualTemp, bounds>>
    BY <1>3 DEF TryColumn, Show, bounds
  <2>3. TypeOK'
    BY <1>1, <2>1, <2>2 DEF TypeOK, bounds
  <2>4. ReadingBrackets'
    BY <2>1, <2>2 DEF ReadingBrackets, Level
  <2> QED
    BY <2>2, <2>3, <2>4 DEF RefusedOnlyInGaps
<1>4. CASE ~Here(j)
  <2>1. /\ UNCHANGED <<pc, out, retval, actualTemp, volt_ref, inf_i, sup_i, pos_i>>
        /\ IF Volt[pos_i][j] < volt_ref
           THEN inf_j' = j + 1 /\ UNCHANGED sup_j
           ELSE sup_j' = j - 1 /\ UNCHANGED inf_j
    BY <1>4 DEF TryColumn
  <2>2. RowsInv'
    BY <1>1, <2>1 DEF RowsInv, Top
  <2>3. Volt[pos_i][j] \in Nat /\ volt_ref \in Int
    BY <1>1, <1>2, VoltType DEF TypeOK, NoVolt
  <2>4. inf_j = 0 => \/ sup_j = 9 /\ j = 4
                     \/ sup_j = 3 /\ j = 1
                     \/ sup_j = 0 /\ j = 0
    BY <1>1 DEF ColumnsInv, Middle
  <2>5. CASE Volt[pos_i][j] < volt_ref
    <3>1. inf_j' = j + 1 /\ sup_j' = sup_j
      BY <2>1, <2>5
    <3>2. TypeOK'
      BY <1>1, <1>2, <2>1, <3>1 DEF TypeOK, Column, Columns
    <3>3. ColumnsInv'
      <4>1. inf_j' - 1 = j /\ inf_j' > 0 /\ inf_j' <= sup_j' + 1
        BY <1>1, <1>2, <3>1 DEF TypeOK, Column, Columns
      <4> QED
        BY <1>1, <2>1, <2>5, <3>1, <4>1 DEF ColumnsInv, Here
    <3> QED
      BY <1>1, <2>1, <2>2, <3>2, <3>3 DEF ReadingBrackets, RefusedOnlyInGaps
  <2>6. CASE ~(Volt[pos_i][j] < volt_ref)
    <3>1. sup_j' = j - 1 /\ inf_j' = inf_j
      BY <2>1, <2>6
    <3>2. TypeOK'
      BY <1>1, <1>2, <2>1, <3>1 DEF TypeOK, Column, Columns
    <3>3. sup_j' = -1 => Volt[pos_i][0] > volt_ref
      <4> SUFFICES ASSUME j = 0 PROVE Volt[pos_i][0] > volt_ref
        BY <1>2, <3>1 DEF Column, Columns
      <4>1. sup_j = 0
        BY <1>1, <1>2, <2>4 DEF TypeOK, Column, Columns
      <4>2. Volt[pos_i][1] >= volt_ref /\ ~Here(1)
        BY <1>1, <4>1 DEF ColumnsInv
      <4> QED
        BY <2>3, <4>2 DEF Here
    <3>4. ColumnsInv'
      <4>1. sup_j' + 1 = j /\ inf_j' <= sup_j' + 1
        BY <1>2, <3>1 DEF Column, Columns
      <4>2. Volt[pos_i][j] >= volt_ref
        BY <2>3, <2>6
      <4>3. ~Here(sup_j' + 1)
        BY <1>4, <4>1
      <4>4. inf_j' = 0 => sup_j' \in {9, 3, 0, -1}
        BY <2>4, <3>1, <1>2
      <4> QED
        BY <1>1, <2>1, <3>1, <3>3, <4>1, <4>2, <4>3, <4>4 DEF ColumnsInv, Here
    <3> QED
      BY <1>1, <2>1, <2>2, <3>2, <3>4 DEF ReadingBrackets, RefusedOnlyInGaps
  <2> QED
    BY <2>5, <2>6
<1> QED
  BY <1>3, <1>4 DEF TryColumn

\* A row without the place of the voltage is too high or too low as a whole.
LEMMA LeaveRowSearch ==
  ASSUME SearchInv, LeaveRow
  PROVE  SearchInv'
<1> USE DEF SearchInv
<1>1. /\ pc = "column" /\ TypeOK /\ RowsInv /\ ColumnsInv /\ pos_i \in Row
      /\ inf_j = sup_j + 1
  BY DEF LeaveRow, TypeOK, ColumnsInv
<1>2. /\ pc' = "row"
      /\ UNCHANGED <<actualTemp, volt_ref, pos_i, inf_j, sup_j, out, retval>>
  BY DEF LeaveRow
<1>3. 0 \in Column /\ 9 \in Column /\ volt_ref \in Int
  BY <1>1 DEF Column, Columns, TypeOK, NoVolt
<1>4. CASE Volt[pos_i][0] > volt_ref
  <2>1. sup_i' = pos_i - 1 /\ inf_i' = inf_i
    BY <1>4 DEF LeaveRow
  <2>2. TypeOK'
    BY <1>1, <1>2, <2>1, RowsType DEF TypeOK, Row
  <2>3. ASSUME NEW i \in Row, i > pos_i - 1 PROVE Volt[i][0] > volt_ref
    <3>1. CASE i = pos_i
      BY <1>4, <3>1
    <3>2. CASE i > pos_i
      <4>1. Volt[pos_i][0] < Volt[pos_i][9]
        BY <1>1, <1>3, ColumnsGrow
      <4>2. Volt[pos_i][9] < Volt[i][0]
        BY <1>1, <3>2, RowsGrow
      <4>3. /\ Volt[pos_i][0] \in Nat /\ Volt[pos_i][9] \in Nat
            /\ Volt[i][0] \in Nat
        BY <1>1, <1>3, VoltType
      <4> QED
        BY <1>3, <1>4, <4>1, <4>2, <4>3
    <3> QED
      BY <2>3, <3>1, <3>2, <1>1 DEF Row
  <2>4. RowsInv'
    BY <1>1, <1>2, <2>1, <2>3 DEF RowsInv, ColumnsInv, TypeOK, Row, Top
  <2> QED
    BY <1>2, <2>2, <2>4 DEF ReadingBrackets, RefusedOnlyInGaps
<1>5. CASE ~(Volt[pos_i][0] > volt_ref)
  <2>1. inf_i' = pos_i + 1 /\ sup_i' = sup_i
    BY <1>5 DEF LeaveRow
  <2>2. TypeOK'
    BY <1>1, <1>2, <2>1, RowsType DEF TypeOK, Row
  <2>3. Volt[pos_i][0] <= volt_ref
    BY <1>1, <1>3, <1>5, VoltType
  <2>4. sup_j # -1
    BY <1>1, <1>5 DEF ColumnsInv
  <2>5. inf_j = 10
    <3> SUFFICES ASSUME inf_j # 10 PROVE FALSE
      OBVIOUS
    <3>1. inf_j \in 1 .. 9 /\ sup_j < 9
      BY <1>1, <2>4 DEF TypeOK, Columns
    <3>2. Volt[pos_i][inf_j] >= volt_ref /\ ~Here(inf_j)
      BY <1>1, <3>1 DEF ColumnsInv
    <3>3. Volt[pos_i][inf_j - 1] < volt_ref
      BY <1>1, <3>1 DEF ColumnsInv
    <3>4. Volt[pos_i][inf_j - 1] \in Nat
      <4>1. inf_j - 1 \in Column
        BY <3>1 DEF Column, Columns
      <4> QED
        BY <1>1, <4>1, VoltType
    <3> QED
      BY <1>3, <3>1, <3>2, <3>3, <3>4 DEF Here
  <2>6. Volt[pos_i][9] < volt_ref
    BY <1>1, <2>5 DEF ColumnsInv
  <2>7. ASSUME NEW i \in Row, i < pos_i + 1 PROVE Volt[i][9] < volt_ref
    <3>1. CASE i = pos_i
      BY <2>6, <3>1
    <3>2. CASE i < pos_i
      <4>1. Volt[i][9] < Volt[pos_i][0]
        BY <1>1, <3>2, RowsGrow
      <4>2. Volt[i][9] \in Nat /\ Volt[pos_i][0] \in Nat
        BY <1>1, <1>3, VoltType
      <4> QED
        BY <1>3, <2>3, <4>1, <4>2
    <3> QED
      BY <1>1, <2>7, <3>1, <3>2 DEF Row
  <2>8. RowsInv'
    BY <1>1, <1>2, <2>1, <2>7 DEF RowsInv, ColumnsInv, TypeOK, Row, Top
  <2> QED
    BY <1>2, <2>2, <2>8 DEF ReadingBrackets, RefusedOnlyInGaps
<1> QED
  BY <1>4, <1>5
-----------------------------------------------------------------------------
\* The loops of busquedaBinariaK keep the place of the voltage among the rows
\* and columns that are left, for every number of rows.
THEOREM SearchInvariant == Spec => []SearchInv
<1>1. Init => SearchInv
  BY InitSearch
<1>2. SearchInv /\ [Next]_vars => SearchInv'
  <2> SUFFICES ASSUME SearchInv, [Next]_vars PROVE SearchInv'
    OBVIOUS
  <2>1. CASE \E t \in Ambient : Thermistor(t)
    BY <2>1, ThermistorSearch
  <2>2. CASE \E n \in Counts : Convert(n)
    BY <2>2, ConvertSearch
  <2>3. CASE Search
    BY <2>3, EnterRowSearch, NoRowLeftSearch, TryColumnSearch, LeaveRowSearch
    DEF Search
  <2>4. CASE UNCHANGED vars
    BY <2>4 DEF vars, bounds, SearchInv, TypeOK, RowsInv, ColumnsInv,
                ReadingBrackets, RefusedOnlyInGaps, InGap, Here, Top, Level
  <2> QED
    BY <2>1, <2>2, <2>3, <2>4 DEF Next
<1> QED
  BY <1>1, <1>2, PTL DEF Spec

\* No row or column outside the table is looked at (busquedaBinariaK).
THEOREM ThermocoupleTypeCorrect == Spec => []TypeOK
<1>1. SearchInv => TypeOK
  BY DEF SearchInv
<1> QED
  BY <1>1, SearchInvariant, PTL

\* What is shown is right to the degree, in every table (tcuplaKVoltToTemp).
THEOREM ReadingRight == Spec => []ReadingBrackets
<1>1. SearchInv => ReadingBrackets
  BY DEF SearchInv
<1> QED
  BY <1>1, SearchInvariant, PTL

\* What is refused in the range of the table lies between two of its rows.
THEOREM RefusedBetweenRows == Spec => []RefusedOnlyInGaps
<1>1. SearchInv => RefusedOnlyInGaps
  BY DEF SearchInv
<1> QED
  BY <1>1, SearchInvariant, PTL
-----------------------------------------------------------------------------
(* The search halves what is left *)

\* The row searched is the middle of those left (busquedaBinariaK).
AtMiddle == pc = "column" => pos_i = Middle(inf_i, sup_i)

LEMMA MiddleStep ==
  ASSUME AtMiddle, [Next]_vars
  PROVE  AtMiddle'
<1>1. CASE EnterRow
  BY <1>1 DEF EnterRow, AtMiddle
<1>2. CASE TryColumn
  BY <1>2 DEF TryColumn, AtMiddle, Show
<1>3. CASE NoRowLeft \/ LeaveRow
  BY <1>3 DEF NoRowLeft, LeaveRow, AtMiddle, Refuse
<1>4. CASE \E t \in Ambient : Thermistor(t)
  BY <1>4 DEF Thermistor, AtMiddle
<1>5. CASE \E n \in Counts : Convert(n)
  BY <1>5 DEF Convert, AtMiddle, Refuse, Show
<1>6. CASE UNCHANGED vars
  BY <1>6 DEF vars, bounds, AtMiddle
<1> QED
  BY <1>1, <1>2, <1>3, <1>4, <1>5, <1>6 DEF Next, Search

\* What lies before the middle, and what lies after it, is half at most.
LEMMA MiddleHalves ==
  ASSUME NEW inf \in Int, NEW sup \in Int, inf <= sup
  PROVE  /\ 2 * ((Middle(inf, sup) - 1) - inf + 1) <= sup - inf + 1
         /\ 2 * (sup - (Middle(inf, sup) + 1) + 1) <= sup - inf + 1
  BY DEF Middle

LEMMA RowStays ==
  ASSUME [Next]_vars, pc = "row"
  PROVE  RowsLeft' = RowsLeft
<1>1. EnterRow \/ NoRowLeft \/ UNCHANGED vars
  BY DEF Next, Search, Thermistor, Convert, TryColumn, LeaveRow
<1> QED
  BY <1>1 DEF EnterRow, NoRowLeft, vars, bounds, RowsLeft

LEMMA ColumnHalves ==
  ASSUME TypeOK, TryColumn, pc' = "column"
  PROVE  RowsLeft' = RowsLeft /\ 2 * ColumnsLeft' <= ColumnsLeft
<1> DEFINE j == Middle(inf_j, sup_j)
<1>1. inf_j \in Int /\ sup_j \in Int /\ inf_j <= sup_j
  BY DEF TypeOK, TryColumn, Columns
<1>2. /\ 2 * ((j - 1) - inf_j + 1) <= sup_j - inf_j + 1
      /\ 2 * (sup_j - (j + 1) + 1) <= sup_j - inf_j + 1
  BY <1>1, MiddleHalves
<1>3. /\ UNCHANGED <<inf_i, sup_i>>
      /\ \/ inf_j' = j + 1 /\ sup_j' = sup_j
         \/ sup_j' = j - 1 /\ inf_j' = inf_j
  BY DEF TryColumn, Show
<1> HIDE DEF j
<1> QED
  BY <1>2, <1>3 DEF RowsLeft, ColumnsLeft

LEMMA RowHalves ==
  ASSUME SearchInv, AtMiddle, LeaveRow
  PROVE  2 * RowsLeft' <= RowsLeft
<1>1. /\ inf_i \in Int /\ sup_i \in Int /\ inf_i <= sup_i
      /\ pos_i = Middle(inf_i, sup_i)
  BY DEF SearchInv, TypeOK, ColumnsInv, LeaveRow, AtMiddle, Row
<1>2. /\ 2 * ((pos_i - 1) - inf_i + 1) <= sup_i - inf_i + 1
      /\ 2 * (sup_i - (pos_i + 1) + 1) <= sup_i - inf_i + 1
  BY <1>1, MiddleHalves
<1>3. \/ sup_i' = pos_i - 1 /\ inf_i' = inf_i
      \/ inf_i' = pos_i + 1 /\ sup_i' = sup_i
  BY DEF LeaveRow
<1> QED
  BY <1>2, <1>3 DEF RowsLeft

\* Each try leaves half of the rows at most, and each look half of the columns,
\* in every table (busquedaBinariaK).
THEOREM SearchShort == Spec => SearchHalves
<1>1. Init => AtMiddle
  BY DEF Init, AtMiddle
<1>2. AtMiddle /\ [Next]_vars => AtMiddle'
  BY MiddleStep
<1>3. SearchInv /\ AtMiddle /\ [Next]_vars =>
        [/\ pc = "row" => RowsLeft' = RowsLeft
         /\ pc = "column" /\ pc' = "column" =>
              RowsLeft' = RowsLeft /\ 2 * ColumnsLeft' <= ColumnsLeft
         /\ pc = "column" /\ pc' = "row" => 2 * RowsLeft' <= RowsLeft]_vars
  <2> SUFFICES ASSUME SearchInv, AtMiddle, Next, ~ UNCHANGED vars
               PROVE  /\ pc = "row" => RowsLeft' = RowsLeft
                      /\ pc = "column" /\ pc' = "column" =>
                           RowsLeft' = RowsLeft /\ 2 * ColumnsLeft' <= ColumnsLeft
                      /\ pc = "column" /\ pc' = "row" => 2 * RowsLeft' <= RowsLeft
    OBVIOUS
  <2>1. pc = "row" => RowsLeft' = RowsLeft
    BY RowStays
  <2>2. ASSUME pc = "column"
        PROVE  \/ TryColumn /\ pc' # "row"
               \/ LeaveRow /\ pc' = "row"
    BY <2>2 DEF Next, Search, Thermistor, Convert, EnterRow, NoRowLeft, TryColumn,
                LeaveRow, Show
  <2>3. TypeOK
    BY DEF SearchInv
  <2> QED
    BY <2>1, <2>2, <2>3, ColumnHalves, RowHalves
<1> QED
  BY <1>1, <1>2, <1>3, SearchInvariant, PTL DEF Spec, SearchHalves
=============================================================================
