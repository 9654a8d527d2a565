----------------------------- MODULE MCDataLog -----------------------------
(* DataLog on a small EEPROM: values for its constants. *)
EXTENDS DataLog

\* What dataLog_Init finds in regAux.add_lastReg: tskSTACK_FILL_BYTE twice.
const_StackFill == {165 * 256 + 165}
=============================================================================
