---------------------------- MODULE MCHistoryLog ----------------------------
(* HistoryLog with short buffers: values for its constants. *)
EXTENDS HistoryLog

\* AMPERIMETER may be disabled by the mode input; the other two never are.
const_Channels == {2, 3}
=============================================================================
