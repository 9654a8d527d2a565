----------------------------- MODULE MCTerminal -----------------------------
(* Terminal with short queues and a table of two or three inputs. *)
EXTENDS Terminal

const_Sender == {"input", "output", "service"}
const_NoOutput == {"input", "service"}

\* A disabled input between two enabled ones, as CONDUCTIMETER is.
const_Enabled == {0, 2}

\* Of two inputs the last is disabled.
const_First == {0}
=============================================================================
