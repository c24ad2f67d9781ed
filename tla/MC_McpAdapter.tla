--------------------------- MODULE MC_McpAdapter ---------------------------
(* Instance for TLC: one tool call beside the cockpit, which may do to a   *)
(* run whatever a second call may.                                         *)
EXTENDS McpAdapter, TLC
CONSTANT m1
=============================================================================
