---------------------------- MODULE MC_RunStream ----------------------------
(* Instances of RunStream for TLC.                                         *)
EXTENDS RunStream
=============================================================================
