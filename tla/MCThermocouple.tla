--------------------------- MODULE MCThermocouple ---------------------------
(* Thermocouple with the table of the code: values for its constants. *)
EXTENDS Thermocouple, Sequences

\* The table in microvolts.
voltConvTipoKPos ==
  <<<<0, 39, 79, 119, 158, 198, 238, 277, 317, 357>>,
    <<397, 437, 477, 517, 557, 597, 637, 677, 718, 758>>,
    <<798, 838, 879, 919, 960, 1000, 1041, 1081, 1122, 1163>>,
    <<1203, 1244, 1285, 1326, 1366, 1407, 1448, 1489, 1530, 1571>>,
    <<1612, 1653, 1694, 1735, 1776, 1817, 1858, 1899, 1941, 1982>>,
    <<2023, 2064, 2106, 2147, 2188, 2230, 2271, 2312, 2354, 2395>>,
    <<2436, 2478, 2519, 2561, 2602, 2644, 2685, 2727, 2768, 2810>>,
    <<2851, 2893, 2934, 2976, 3017, 3059, 3100, 3142, 3184, 3225>>,
    <<3267, 3308, 3350, 3391, 3433, 3474, 3516, 3557, 3599, 3640>>,
    <<3682, 3723, 3765, 3806, 3848, 3889, 3931, 3972, 4013, 4055>>,
    <<4096, 4138, 4179, 4220, 4262, 4303, 4344, 4385, 4427, 4468>>,
    <<4509, 4550, 4591, 4633, 4674, 4715, 4756, 4797, 4838, 4879>>,
    <<4920, 4961, 5002, 5043, 5084, 5124, 5165, 5206, 5247, 5288>>>>

\* A count is 5000 / 1024 microvolts: the unit is 1 / 1024 of a microvolt.
const_Volt ==
  [i \in 0 .. 12 |-> [j \in 0 .. 9 |-> 1024 * voltConvTipoKPos[i + 1][j + 1]]]
const_Counts == {3 * n : n \in 0 .. 341}

\* The first value of actualTemp, and one degree below zero.
const_Ambient == {25, 65535}
=============================================================================
