--------------------------- MODULE MC_SapGateway ---------------------------
(***************************************************************************)
(* Instances of SapGateway for TLC: one vendor, and one setting for every  *)
(* mode, with and without secrets that are set and accepted.               *)
(***************************************************************************)
EXTENDS SapGateway

Block   == [op |-> "status", blocked |-> TRUE]
Approve == [op |-> "status", blocked |-> FALSE]
Clear   == [op |-> "block", blocked |-> FALSE]

Live == [mode |-> "live", configured |-> TRUE, authorised |-> TRUE, outside |-> FALSE,
         asks |-> {Block}]

MCConfigs ==
    {Live,
     [Live EXCEPT !.authorised = FALSE],
     [Live EXCEPT !.configured = FALSE],
     [Live EXCEPT !.mode = "sandbox", !.outside = TRUE, !.asks = {Approve, Clear}],
     [Live EXCEPT !.mode = "sandbox", !.authorised = FALSE],
     [Live EXCEPT !.mode = "stub", !.outside = TRUE, !.asks = Ask]}

DocConfigs == {[Live EXCEPT !.mode = "sandbox"]}
=============================================================================
