-------------------------- MODULE MC_RunLifecycle --------------------------
(***************************************************************************)
(* Instance of RunLifecycle for TLC: one run; StubReplay has two.          *)
(***************************************************************************)
EXTENDS RunLifecycle, TLC

CONSTANTS r1, s1

OnlyRun == r1 :> s1

(* Requests are interchangeable: no definition names one.                  *)
Symmetry == Permutations(Requests)
=============================================================================
