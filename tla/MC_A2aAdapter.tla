--------------------------- MODULE MC_A2aAdapter ---------------------------
(* A registry of up to three suppliers read two at a time, for TLC.        *)
EXTENDS A2aAdapter, TLC
CONSTANTS a1, acme

(* Like the first supplier, nearly as like the third, hardly the second.   *)
Resemblance == acme :> (1 :> 90 @@ 2 :> 60 @@ 3 :> 84)
=============================================================================
