------------------------------- MODULE Rubric -------------------------------
(***************************************************************************)
(* The deterministic rubric (scoring.assess), the two investigation rules  *)
(* read from its inputs and outputs (investigation.py) and the run state   *)
(* a verdict leads to, as operators on a record, what a dataset declares,  *)
(* and on sources, what one acquisition returned for its plot.             *)
(*                                                                         *)
(* Quantities are natural numbers of one unit (tenths of a hectare in the  *)
(* runs), ratios of the configuration are percentages.  Evidence ids,      *)
(* texts and metrics of a finding are left out: a finding is its level.    *)
(***************************************************************************)
EXTENDS Integers

CONSTANT Config   \* RubricConfig

Points == {"protected_flag_points", "moratorium_flag_points", "moratorium_borderline_points",
           "peat_borderline_points", "concession_flag_points", "concession_borderline_points",
           "legal_flag_points", "legal_borderline_points", "loss_flag_points",
           "loss_borderline_points", "fire_flag_points", "fire_borderline_points",
           "area_mismatch_points", "certification_credit"}

(* Thresholds of which zero would call a plot without any signal a finding *)
Thresholds == {"loss_flag_ha", "loss_flag_ratio", "loss_borderline_ha",
               "hotspot_flag_count", "hotspot_borderline_count", "high_risk_threshold"}

Others == {"harvest_overlap_ratio", "area_mismatch_tolerance", "moratorium_flag_ha"}

ASSUME ConfigAssumption ==
    /\ \A k \in Thresholds : Config[k] \in Nat \ {0}
    /\ \A k \in Points \cup Others : Config[k] \in Nat
    /\ Config["legal_flag_is_critical"] \in BOOLEAN

-----------------------------------------------------------------------------
(* LAYER_DEFINITIONS of gfw_layers.py.                                     *)
Concessions == {"oil_palm_concessions", "wood_fiber_concessions", "logging_concessions"}
Layers == Concessions \cup {"protected_areas", "moratorium", "peatlands", "forest_baseline"}

(* held is the part of the overlap that lies in features of the declared   *)
(* holder; holders says how the features' companies compare with it.       *)
Layer == [status  : {"success", "unavailable", "not_applicable"},
          overlap : Nat,
          held    : Nat,
          holders : SUBSET {"declared", "other", "unknown"}]

(* PolygonSources: loss is the loss since the cut-off year, recent says    *)
(* that the last detection lies in the last hotspot_recent_days.           *)
Sources == [loss     : [present : BOOLEAN, ha : Nat],
            hotspots : [present : BOOLEAN, count : Nat, recent : BOOLEAN],
            layers   : [Layers -> Layer],
            errors   : BOOLEAN]

(* The part of a BatchRecord the rubric reads: plot, legality, consignment *)
Record == [area            : Nat,
           indonesian      : BOOLEAN,
           commodity       : {"wood", "oil_palm", "other"},
           permit          : {"active", "expired", "suspended", "none"},
           expired         : BOOLEAN,
           sanctioned      : BOOLEAN,
           permitted       : BOOLEAN,
           concession_area : Nat,
           certified       : BOOLEAN]

Codes == {"legal_permit", "deforestation_loss", "fire_cluster", "protected_area",
          "moratorium", "peatland", "forest_baseline", "concession_conflict",
          "area_mismatch", "certification"}

-----------------------------------------------------------------------------
Usable(s, name)     == s.layers[name].status = "success"
Overlaps(s, name)   == Usable(s, name) /\ s.layers[name].overlap > 0
Relevant(s)         == {name \in Concessions : Overlaps(s, name)}
Authorised(name)    == IF name = "oil_palm_concessions" THEN "oil_palm" ELSE "wood"
AtLeast(part, whole, percent) == part * 100 >= percent * whole

(* Why flagged loss may be the harvest of the supplier's own plantation.   *)
HarvestContext(r, s) ==
    LET fibre == s.layers["wood_fiber_concessions"]
        held  == IF fibre.held < fibre.overlap THEN fibre.held ELSE fibre.overlap
    IN  /\ r.commodity = "wood" /\ r.area > 0
        /\ fibre.status = "success"
        /\ AtLeast(held, r.area, Config["harvest_overlap_ratio"])

LossFlagged(r, s) ==
    \/ s.loss.ha >= Config["loss_flag_ha"]
    \/ /\ s.loss.ha >= Config["loss_borderline_ha"]
       /\ r.area > 0
       /\ AtLeast(s.loss.ha, r.area, Config["loss_flag_ratio"])

LossLevel(r, s) ==
    IF ~s.loss.present THEN "clear"
    ELSE IF LossFlagged(r, s) THEN IF HarvestContext(r, s) THEN "borderline" ELSE "flag"
    ELSE IF s.loss.ha >= Config["loss_borderline_ha"] THEN "borderline" ELSE "clear"

FireLevel(s) ==
    LET fires == s.hotspots IN
    IF ~fires.present THEN "clear"
    ELSE IF \/ fires.count >= Config["hotspot_flag_count"]
            \/ fires.count > 0 /\ fires.recent
         THEN "flag"
    ELSE IF fires.count >= Config["hotspot_borderline_count"] THEN "borderline" ELSE "clear"

LegalLevel(r) ==
    IF r.expired \/ r.permit \in {"expired", "suspended"} \/ r.sanctioned THEN "flag"
    ELSE IF r.indonesian /\ ~r.permitted THEN "borderline" ELSE "clear"

ProtectedLevel(s) == IF Overlaps(s, "protected_areas") THEN "flag" ELSE "clear"

MoratoriumLevel(s) ==
    IF ~Overlaps(s, "moratorium") THEN "clear"
    ELSE IF s.layers["moratorium"].overlap > Config["moratorium_flag_ha"]
         THEN "flag" ELSE "borderline"

PeatLevel(s) == IF Overlaps(s, "peatlands") THEN "borderline" ELSE "clear"

(* One strongest finding over the three concession datasets.               *)
ConcessionLevel(r, s) ==
    IF \E name \in Relevant(s) : "other" \in s.layers[name].holders THEN "flag"
    ELSE IF \E name \in Relevant(s) : Authorised(name) # r.commodity THEN "borderline"
    ELSE "clear"

AreaLevel(r) ==
    IF r.concession_area * 100 < r.area * (100 - Config["area_mismatch_tolerance"])
    THEN "borderline" ELSE "clear"

(* The findings of an assessment; one that is left out for want of data    *)
(* counts as clear here and as a gap below.                                *)
Levels(r, s) ==
    [deforestation_loss  |-> LossLevel(r, s),   fire_cluster    |-> FireLevel(s),
     legal_permit        |-> LegalLevel(r),     area_mismatch   |-> AreaLevel(r),
     protected_area      |-> ProtectedLevel(s), moratorium      |-> MoratoriumLevel(s),
     peatland            |-> PeatLevel(s),      forest_baseline |-> "clear",
     concession_conflict |-> ConcessionLevel(r, s),
     certification       |-> "clear"]

(* Mutant of DataGaps: a company that cannot be compared is no gap.        *)
DataGapsKnownHolders(s) ==
    s.errors \/ ~s.loss.present \/ ~s.hotspots.present
             \/ \E name \in Layers : s.layers[name].status = "unavailable"

DataGaps(s) ==
    \/ s.errors \/ ~s.loss.present \/ ~s.hotspots.present
    \/ \E name \in Layers : s.layers[name].status = "unavailable"
    \/ \E name \in Relevant(s) : "unknown" \in s.layers[name].holders

-----------------------------------------------------------------------------
Weight(level, flag, borderline) ==
    IF level = "flag" THEN Config[flag] ELSE IF level = "borderline" THEN Config[borderline] ELSE 0

TotalPoints(r, s) ==
    LET at == Levels(r, s) IN
      Weight(at["legal_permit"], "legal_flag_points", "legal_borderline_points")
    + Weight(at["deforestation_loss"], "loss_flag_points", "loss_borderline_points")
    + Weight(at["fire_cluster"], "fire_flag_points", "fire_borderline_points")
    + Weight(at["protected_area"], "protected_flag_points", "protected_flag_points")
    + Weight(at["moratorium"], "moratorium_flag_points", "moratorium_borderline_points")
    + Weight(at["peatland"], "peat_borderline_points", "peat_borderline_points")
    + Weight(at["concession_conflict"], "concession_flag_points", "concession_borderline_points")
    + Weight(at["area_mismatch"], "area_mismatch_points", "area_mismatch_points")
    - (IF r.certified THEN Config["certification_credit"] ELSE 0)

Score(r, s) ==
    LET total == TotalPoints(r, s)
    IN  IF total < 0 THEN 0 ELSE IF total > 100 THEN 100 ELSE total

CriticalCodes ==
    {"protected_area", "moratorium", "concession_conflict"}
        \cup (IF Config["legal_flag_is_critical"] THEN {"legal_permit"} ELSE {})

(* _decide, in its order: a critical flag, a flag that a certificate puts  *)
(* in doubt, a flag, the score, a borderline finding, a gap.               *)
Verdict(r, s) ==
    LET at      == Levels(r, s)
        flagged == {c \in Codes : at[c] = "flag"}
    IN  IF flagged \cap CriticalCodes # {} THEN "high_risk"
        ELSE IF flagged # {} THEN IF r.certified THEN "ambiguous" ELSE "high_risk"
        ELSE IF Score(r, s) >= Config["high_risk_threshold"] THEN "high_risk"
        ELSE IF \E c \in Codes : at[c] = "borderline" THEN "ambiguous"
        ELSE IF DataGaps(s) THEN "ambiguous"
        ELSE "compliant"

StateForVerdict(verdict) == IF verdict = "compliant" THEN "complete" ELSE "awaiting_review"

(* RecordAssessment, what the assessor hands to the verifier and writer.   *)
AssessRecord(r, s) ==
    [levels    |-> Levels(r, s),
     score     |-> Score(r, s),
     gaps      |-> DataGaps(s),
     verdict   |-> Verdict(r, s),
     run_state |-> StateForVerdict(Verdict(r, s))]

-----------------------------------------------------------------------------
(* investigation.py: the facts that call for a deep dive, and the deep     *)
(* dives an assessment requires.                                           *)
InvestigatedCodes == {"deforestation_loss", "fire_cluster", "protected_area", "moratorium",
                      "peatland", "concession_conflict"}

DeepDives == {"get_context_layers", "check_concession_overlap"}

RequiredDeepDives(assessment) ==
    IF \E c \in InvestigatedCodes : assessment.levels[c] # "clear" THEN DeepDives ELSE {}

(* Mutant of ScreeningSignals: the concession datasets are not screened.   *)
ScreeningSignalsNoConcession(s) ==
    (IF s.loss.present /\ s.loss.ha > 0 THEN {"loss_post_cutoff"} ELSE {})
    \cup (IF s.hotspots.present /\ s.hotspots.count > 0 THEN {"hotspots"} ELSE {})
    \cup {name \in {"protected_areas", "moratorium", "peatlands"} : Overlaps(s, name)}
    \cup {name \in Layers : s.layers[name].status = "unavailable"}

(* A layer's name stands for its overlap signal, and for the signal that   *)
(* it is unavailable.                                                      *)
ScreeningSignals(s) ==
    (IF s.loss.present /\ s.loss.ha > 0 THEN {"loss_post_cutoff"} ELSE {})
    \cup (IF s.hotspots.present /\ s.hotspots.count > 0 THEN {"hotspots"} ELSE {})
    \cup (Relevant(s) \cup {name \in {"protected_areas", "moratorium", "peatlands"} :
                                Overlaps(s, name)})
    \cup {name \in Layers : s.layers[name].status = "unavailable"}
=============================================================================
