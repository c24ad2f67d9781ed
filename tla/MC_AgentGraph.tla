--------------------------- MODULE MC_AgentGraph ---------------------------
(***************************************************************************)
(* An instance of AgentGraph for TLC: two polygons of two suppliers, the   *)
(* shipped configuration in tenths of a hectare, records and readings      *)
(* around its thresholds, the calls a run needs and three stray ones.      *)
(***************************************************************************)
EXTENDS AgentGraph, TLC

CONSTANTS own, other, unknown

MCOwner == own :> "SUP-1" @@ other :> "SUP-2"

MCConfig ==
    [loss_flag_ha |-> 40, loss_flag_ratio |-> 1, loss_borderline_ha |-> 5,
     harvest_overlap_ratio |-> 90, hotspot_flag_count |-> 5, hotspot_borderline_count |-> 1,
     area_mismatch_tolerance |-> 5, moratorium_flag_ha |-> 1,
     protected_flag_points |-> 60, moratorium_flag_points |-> 60,
     moratorium_borderline_points |-> 20, peat_borderline_points |-> 10,
     concession_flag_points |-> 60, concession_borderline_points |-> 20,
     legal_flag_points |-> 60, legal_borderline_points |-> 20,
     loss_flag_points |-> 50, loss_borderline_points |-> 15,
     fire_flag_points |-> 30, fire_borderline_points |-> 10,
     area_mismatch_points |-> 15, certification_credit |-> 10,
     high_risk_threshold |-> 30, legal_flag_is_critical |-> TRUE]

-----------------------------------------------------------------------------
Sound == [area |-> 1000, indonesian |-> TRUE, commodity |-> "wood", permit |-> "active",
          expired |-> FALSE, sanctioned |-> FALSE, permitted |-> TRUE,
          concession_area |-> 950, certified |-> FALSE]

MCDeclared == {Sound,
               [Sound EXCEPT !.certified = TRUE],
               [Sound EXCEPT !.certified = TRUE, !.permitted = FALSE]}

NoOverlap == [status |-> "success", overlap |-> 0, held |-> 0, holders |-> {}]
Clean == [loss |-> [present |-> TRUE, ha |-> 4],
          hotspots |-> [present |-> TRUE, count |-> 0, recent |-> FALSE],
          layers |-> [name \in Layers |-> NoOverlap],
          errors |-> FALSE]

With(name, overlap, held, holders) ==
    [Clean EXCEPT !.layers[name] = [status |-> "success", overlap |-> overlap, held |-> held,
                                    holders |-> holders]]
Missing(name) ==
    [Clean EXCEPT !.layers[name].status = "unavailable", !.errors = TRUE]
Fibre == "wood_fiber_concessions"

MCReadings ==
    own :> {Clean,
            [Clean EXCEPT !.loss.ha = 40],
            [With(Fibre, 1000, 900, {"declared"}) EXCEPT !.loss.ha = 10],
            With(Fibre, 10, 0, {"unknown"}),
            [With("oil_palm_concessions", 10, 10, {"declared"}) EXCEPT !.loss.ha = 0],
            Missing("peatlands")}
    @@ other :> {Clean}

-----------------------------------------------------------------------------
Call(tool, polygon, supplier) == [tool |-> tool, polygon |-> polygon, supplier |-> supplier]

MCCalls ==
    {Call("get_tree_cover_loss", own, "SUP-1"), Call("get_fire_hotspots", own, "SUP-1"),
     Call("get_legality_record", own, "SUP-1"), Call("get_context_layers", own, "SUP-1"),
     Call("check_concession_overlap", own, "SUP-1"),
     Call("check_concession_overlap", own, "SUP-2"),
     Call("get_tree_cover_loss", other, "SUP-2"), Call("get_context_layers", unknown, "SUP-1")}

(* One challenge decides nothing that two would not.                       *)
Challenges(severity) ==
    [kind : {"metric_mismatch", "coverage"}, severity : {severity}, cites : SUBSET {"ledger", "unknown"}]

MCReviews ==
    {[accepted |-> ok, challenges |-> {}] : ok \in BOOLEAN}
    \cup {[accepted |-> FALSE, challenges |-> {c}] : c \in Challenges("error")}
    \cup {[accepted |-> TRUE, challenges |-> {c}] :
             c \in {d \in Challenges("warning") : d.cites = {"ledger"}}}

(* No definition names a slot.                                             *)
SlotSymmetry == Permutations(Slots)
=============================================================================
