--------------------------- MODULE MC_StubReplay ---------------------------
(***************************************************************************)
(* Instance of StubReplay for TLC: two runs of one supplier.  No symmetry: *)
(* the run checks liveness.                                                *)
(***************************************************************************)
EXTENDS StubReplay, TLC

CONSTANTS r1, r2, s1

OneSupplier == r1 :> s1 @@ r2 :> s1
=============================================================================
