----------------------------- MODULE MCDebounce -----------------------------
(* Debounce with one switch and the key: values for its constants. *)
EXTENDS Debounce

const_Switches == {WATER_LEVEL}
=============================================================================
