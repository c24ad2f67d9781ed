---------------------------- MODULE MC_BatchRun -----------------------------
(* Instances of BatchRun for TLC.                                          *)
EXTENDS BatchRun
=============================================================================
