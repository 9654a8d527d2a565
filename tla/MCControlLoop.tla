--------------------------- MODULE MCControlLoop ---------------------------
(* ControlLoop with few inputs and short queues: values for its constants. *)
EXTENDS ControlLoop

\* Each limit of the thermocouple and a value inside the band.
const_Temperatures == {50, 51, 100}

const_Heating == {{TERMOCUPLE}}
const_Switches == {WATER_LEVEL, SW_START_STOP}
const_Meters ==
  {THERMISTOR, AMPERIMETER, CONDUCTIMETER, SL_OBJECT_DETECT, SL_MODE_FUNCTION}
const_Valve == {CONDUCTIMETER, WATER_LEVEL, SL_MODE_FUNCTION}
const_Several == {const_Switches, const_Meters, const_Valve}
=============================================================================
