------------------------- MODULE AgentGraph_proofs --------------------------
(***************************************************************************)
(* Theorems about AgentGraph for every dataset, reading, tool call, review *)
(* and number of concurrent calls, and about the rubric for every record,  *)
(* sources and configuration that ConfigAssumption admits.                 *)
(***************************************************************************)
EXTENDS AgentGraph, TLAPS

-----------------------------------------------------------------------------
(* The rubric.                                                             *)

Grade == {"clear", "borderline", "flag"}

LEMMA LevelsType ==
  ASSUME NEW r \in Record, NEW s \in Sources
  PROVE  Levels(r, s) \in [Codes -> Grade]
<1>1. LossLevel(r, s) \in Grade
  BY DEF LossLevel, Grade
<1>2. FireLevel(s) \in Grade
  BY DEF FireLevel, Grade
<1>3. LegalLevel(r) \in Grade /\ AreaLevel(r) \in Grade
  BY DEF LegalLevel, AreaLevel, Grade
<1>4. ProtectedLevel(s) \in Grade /\ MoratoriumLevel(s) \in Grade /\ PeatLevel(s) \in Grade
  BY DEF ProtectedLevel, MoratoriumLevel, PeatLevel, Grade
<1>5. ConcessionLevel(r, s) \in Grade
  BY DEF ConcessionLevel, Grade
<1>6. "clear" \in Grade
  BY DEF Grade
<1> QED
  BY <1>1, <1>2, <1>3, <1>4, <1>5, <1>6 DEF Levels, Codes

LEMMA WeightType ==
  ASSUME NEW level, NEW flag \in Points, NEW borderline \in Points
  PROVE  /\ Weight(level, flag, borderline) \in Nat
         /\ level = "clear" => Weight(level, flag, borderline) = 0
  BY ConfigAssumption DEF Weight

(* Points are given for findings only: without any, the certificate can    *)
(* but lower the total.                                                    *)
LEMMA TotalType ==
  ASSUME NEW r \in Record, NEW s \in Sources
  PROVE  /\ TotalPoints(r, s) \in Int
         /\ (\A c \in Codes : Levels(r, s)[c] = "clear") => TotalPoints(r, s) <= 0
<1> DEFINE at == Levels(r, s)
           credit == IF r.certified THEN Config["certification_credit"] ELSE 0
           w1 == Weight(at["legal_permit"], "legal_flag_points", "legal_borderline_points")
           w2 == Weight(at["deforestation_loss"], "loss_flag_points", "loss_borderline_points")
           w3 == Weight(at["fire_cluster"], "fire_flag_points", "fire_borderline_points")
           w4 == Weight(at["protected_area"], "protected_flag_points", "protected_flag_points")
           w5 == Weight(at["moratorium"], "moratorium_flag_points", "moratorium_borderline_points")
           w6 == Weight(at["peatland"], "peat_borderline_points", "peat_borderline_points")
           w7 == Weight(at["concession_conflict"], "concession_flag_points", "concession_borderline_points")
           w8 == Weight(at["area_mismatch"], "area_mismatch_points", "area_mismatch_points")
<1>1. credit \in Nat
  BY ConfigAssumption DEF Points
<1>2. /\ w1 \in Nat /\ w2 \in Nat /\ w3 \in Nat /\ w4 \in Nat
      /\ w5 \in Nat /\ w6 \in Nat /\ w7 \in Nat /\ w8 \in Nat
  BY WeightType DEF Points
<1>3. ASSUME \A c \in Codes : at[c] = "clear"
      PROVE  w1 + w2 + w3 + w4 + w5 + w6 + w7 + w8 = 0
  <2>1. /\ at["legal_permit"] = "clear" /\ at["deforestation_loss"] = "clear"
        /\ at["fire_cluster"] = "clear" /\ at["protected_area"] = "clear"
        /\ at["moratorium"] = "clear" /\ at["peatland"] = "clear"
        /\ at["concession_conflict"] = "clear" /\ at["area_mismatch"] = "clear"
    BY <1>3 DEF Codes
  <2> HIDE DEF at
  <2>2. /\ w1 = 0 /\ w2 = 0 /\ w3 = 0 /\ w4 = 0 /\ w5 = 0 /\ w6 = 0 /\ w7 = 0 /\ w8 = 0
    BY <2>1, WeightType DEF Points
  <2> QED
    BY <2>2
<1>4. TotalPoints(r, s) = w1 + w2 + w3 + w4 + w5 + w6 + w7 + w8 - credit
  BY DEF TotalPoints
<1> HIDE DEF at, credit, w1, w2, w3, w4, w5, w6, w7, w8
<1>5. TotalPoints(r, s) \in Int
  BY <1>1, <1>2, <1>4
<1>6. ASSUME \A c \in Codes : at[c] = "clear" PROVE TotalPoints(r, s) <= 0
  BY <1>1, <1>2, <1>3, <1>4, <1>6
<1> QED
  BY <1>5, <1>6 DEF at

LEMMA AssessedType ==
  ASSUME NEW r \in Record, NEW s \in Sources
  PROVE  AssessRecord(r, s) \in Assessed
<1>1. Score(r, s) \in 0..100
  BY TotalType DEF Score
<1>2. DataGaps(s) \in BOOLEAN
  BY DEF DataGaps, Sources
<1>3. Verdict(r, s) \in {"compliant", "ambiguous", "high_risk"}
  BY DEF Verdict
<1>4. StateForVerdict(Verdict(r, s)) \in {"complete", "awaiting_review"}
  BY DEF StateForVerdict
<1> QED
  BY <1>1, <1>2, <1>3, <1>4, LevelsType DEF AssessRecord, Assessed, Grade

(* A verdict is compliant exactly when no finding and no gap speaks        *)
(* against it; the score and the order of _decide do not matter.           *)
THEOREM CompliantIsClear ==
  ASSUME NEW r \in Record, NEW s \in Sources
  PROVE  Verdict(r, s) = "compliant" <=>
            ~DataGaps(s) /\ \A c \in Codes : Levels(r, s)[c] = "clear"
<1> DEFINE at == Levels(r, s)
<1>1. at \in [Codes -> Grade]
  BY LevelsType
<1>2. ASSUME Verdict(r, s) = "compliant"
      PROVE  ~DataGaps(s) /\ \A c \in Codes : at[c] = "clear"
  <2>1. {c \in Codes : at[c] = "flag"} = {}
    BY <1>2 DEF Verdict
  <2>2. ~DataGaps(s) /\ ~\E c \in Codes : at[c] = "borderline"
    BY <1>2, <2>1 DEF Verdict
  <2> QED
    BY <1>1, <2>1, <2>2 DEF Grade
<1>3. ASSUME ~DataGaps(s), \A c \in Codes : at[c] = "clear"
      PROVE  Verdict(r, s) = "compliant"
  <2>1. Score(r, s) = 0
    BY <1>3, TotalType DEF Score
  <2>2. ~(Score(r, s) >= Config["high_risk_threshold"])
    BY <2>1, ConfigAssumption DEF Thresholds
  <2>3. {c \in Codes : at[c] = "flag"} = {} /\ ~\E c \in Codes : at[c] = "borderline"
    BY <1>3
  <2> QED
    BY <1>3, <2>2, <2>3 DEF Verdict
<1> QED
  BY <1>2, <1>3

LEMMA SpotlessIsClear ==
  ASSUME NEW r \in Record, NEW s \in Sources
  PROVE  Spotless(r, s) <=> ~DataGaps(s) /\ \A c \in Codes : Levels(r, s)[c] = "clear"
<1> DEFINE fires == s.hotspots
           tolerated == r.area * (100 - Config["area_mismatch_tolerance"])
<1>0. /\ s.loss.ha \in Nat /\ s.loss.present \in BOOLEAN
      /\ fires.count \in Nat /\ fires.present \in BOOLEAN /\ fires.recent \in BOOLEAN
      /\ s.errors \in BOOLEAN
      /\ \A name \in Layers : s.layers[name] \in Layer
  BY DEF Sources
<1>1. s.loss.present =>
         (LossLevel(r, s) = "clear" <=> /\ s.loss.ha < Config["loss_borderline_ha"]
                                        /\ s.loss.ha < Config["loss_flag_ha"])
  <2>1. Config["loss_borderline_ha"] \in Nat /\ Config["loss_flag_ha"] \in Nat
    BY ConfigAssumption DEF Thresholds
  <2> QED
    BY <1>0, <2>1 DEF LossLevel, LossFlagged
<1>2. fires.present =>
         (FireLevel(s) = "clear" <=> /\ fires.count < Config["hotspot_borderline_count"]
                                     /\ fires.count < Config["hotspot_flag_count"]
                                     /\ (fires.count > 0 => ~fires.recent))
  <2>1. Config["hotspot_borderline_count"] \in Nat /\ Config["hotspot_flag_count"] \in Nat
    BY ConfigAssumption DEF Thresholds
  <2> QED
    BY <1>0, <2>1 DEF FireLevel
<1>3. LegalLevel(r) = "clear" <=> /\ ~r.expired /\ ~r.sanctioned
                                  /\ r.permit \in {"active", "none"}
                                  /\ r.indonesian => r.permitted
  BY DEF LegalLevel, Record
<1>4. AreaLevel(r) = "clear" <=> r.concession_area * 100 >= tolerated
  <2>1. tolerated \in Int /\ r.concession_area \in Nat
    BY ConfigAssumption DEF Others, Record
  <2> HIDE DEF tolerated
  <2>2. AreaLevel(r) = IF r.concession_area * 100 < tolerated THEN "borderline" ELSE "clear"
    BY DEF AreaLevel, tolerated
  <2> QED
    BY <2>1, <2>2
<1>5. ProtectedLevel(s) = "clear" /\ MoratoriumLevel(s) = "clear" /\ PeatLevel(s) = "clear"
         <=> \A name \in {"protected_areas", "moratorium", "peatlands"} : ~Overlaps(s, name)
  BY DEF ProtectedLevel, MoratoriumLevel, PeatLevel
<1>6. (ConcessionLevel(r, s) = "clear" /\ ~\E name \in Relevant(s) : "unknown" \in s.layers[name].holders)
         <=> \A name \in Relevant(s) : /\ s.layers[name].holders \subseteq {"declared"}
                                       /\ Authorised(name) = r.commodity
  <2>1. \A name \in Relevant(s) : s.layers[name].holders \subseteq {"declared", "other", "unknown"}
    BY <1>0 DEF Relevant, Layers, Layer
  <2>2. ConcessionLevel(r, s) = "clear" <=>
           \A name \in Relevant(s) : "other" \notin s.layers[name].holders
                                        /\ Authorised(name) = r.commodity
    BY DEF ConcessionLevel
  <2> QED
    BY <2>1, <2>2
<1>7. (\A c \in Codes : Levels(r, s)[c] = "clear") <=>
         /\ LossLevel(r, s) = "clear" /\ FireLevel(s) = "clear"
         /\ LegalLevel(r) = "clear" /\ AreaLevel(r) = "clear"
         /\ ProtectedLevel(s) = "clear" /\ MoratoriumLevel(s) = "clear" /\ PeatLevel(s) = "clear"
         /\ ConcessionLevel(r, s) = "clear"
  BY DEF Levels, Codes
<1>8. ~DataGaps(s) <=> /\ ~s.errors /\ s.loss.present /\ fires.present
                       /\ \A name \in Layers : s.layers[name].status # "unavailable"
                       /\ ~\E name \in Relevant(s) : "unknown" \in s.layers[name].holders
  BY DEF DataGaps
<1>9. Spotless(r, s) <=>
         /\ ~s.errors
         /\ s.loss.present /\ s.loss.ha < Config["loss_borderline_ha"]
                           /\ s.loss.ha < Config["loss_flag_ha"]
         /\ fires.present /\ fires.count < Config["hotspot_borderline_count"]
                          /\ fires.count < Config["hotspot_flag_count"]
                          /\ (fires.count > 0 => ~fires.recent)
         /\ \A name \in Layers : s.layers[name].status # "unavailable"
         /\ \A name \in {"protected_areas", "moratorium", "peatlands"} : ~Overlaps(s, name)
         /\ \A name \in Relevant(s) : /\ s.layers[name].holders \subseteq {"declared"}
                                      /\ Authorised(name) = r.commodity
         /\ ~r.expired /\ ~r.sanctioned /\ r.permit \in {"active", "none"}
         /\ r.indonesian => r.permitted
         /\ r.concession_area * 100 >= tolerated
  BY DEF Spotless
<1> HIDE DEF fires, tolerated
<1> QED
  BY <1>1, <1>2, <1>3, <1>4, <1>5, <1>6, <1>7, <1>8, <1>9

LEMMA CompliantIsSpotless ==
  ASSUME NEW r \in Record, NEW s \in Sources
  PROVE  Verdict(r, s) = "compliant" <=> Spotless(r, s)
  BY CompliantIsClear, SpotlessIsClear

(* No verdict becomes compliant, or stops being so, by a certificate.      *)
THEOREM CertificateIsNeutral ==
  ASSUME NEW r \in Record, NEW s \in Sources, NEW certified \in BOOLEAN
  PROVE  Verdict([r EXCEPT !.certified = certified], s) = "compliant"
            <=> Verdict(r, s) = "compliant"
<1> DEFINE q == [r EXCEPT !.certified = certified]
<1>1. q \in Record
  BY DEF Record
<1>2. /\ q.area = r.area /\ q.concession_area = r.concession_area
      /\ q.indonesian = r.indonesian /\ q.permitted = r.permitted
      /\ q.expired = r.expired /\ q.sanctioned = r.sanctioned
      /\ q.permit = r.permit /\ q.commodity = r.commodity
  BY DEF Record
<1> HIDE DEF q
<1>3. Spotless(q, s) <=> Spotless(r, s)
  BY <1>2 DEF Spotless
<1> QED
  BY <1>1, <1>3, CompliantIsSpotless DEF q

(* Every level of an investigated code that is not clear rests on a fact   *)
(* that screening_signals reports.                                         *)
THEOREM SignalsCover ==
  ASSUME NEW r \in Record, NEW s \in Sources,
         RequiredDeepDives(AssessRecord(r, s)) # {}
  PROVE  ScreeningSignals(s) # {}
<1>1. PICK c \in InvestigatedCodes : Levels(r, s)[c] # "clear"
  BY DEF RequiredDeepDives, AssessRecord
<1>2. \/ LossLevel(r, s) # "clear" \/ FireLevel(s) # "clear"
      \/ ProtectedLevel(s) # "clear" \/ MoratoriumLevel(s) # "clear"
      \/ PeatLevel(s) # "clear" \/ ConcessionLevel(r, s) # "clear"
  BY <1>1 DEF Levels, InvestigatedCodes
<1>3. \A k \in Thresholds : Config[k] \in Nat /\ Config[k] > 0
  BY ConfigAssumption
<1>4. CASE LossLevel(r, s) # "clear"
  <2>1. s.loss.present /\ s.loss.ha \in Nat /\ s.loss.ha > 0
    BY <1>3, <1>4 DEF LossLevel, LossFlagged, Thresholds, Sources
  <2> QED
    BY <2>1 DEF ScreeningSignals
<1>5. CASE FireLevel(s) # "clear"
  <2>1. s.hotspots.present /\ s.hotspots.count > 0
    BY <1>3, <1>5 DEF FireLevel, Thresholds, Sources
  <2> QED
    BY <2>1 DEF ScreeningSignals
<1>6. CASE \/ ProtectedLevel(s) # "clear" \/ MoratoriumLevel(s) # "clear"
           \/ PeatLevel(s) # "clear"
  <2>1. \E name \in {"protected_areas", "moratorium", "peatlands"} : Overlaps(s, name)
    BY <1>6 DEF ProtectedLevel, MoratoriumLevel, PeatLevel
  <2> QED
    BY <2>1 DEF ScreeningSignals
<1>7. CASE ConcessionLevel(r, s) # "clear"
  <2>1. Relevant(s) # {}
    BY <1>7 DEF ConcessionLevel
  <2> QED
    BY <2>1 DEF ScreeningSignals
<1> QED
  BY <1>2, <1>4, <1>5, <1>6, <1>7

-----------------------------------------------------------------------------
(* The graph: where the run is, what each variable may hold.               *)

(* A call that fetches holds the lock, and its polygon is not yet shared.  *)
CallsFit ==
    /\ \A c \in Slots : At(c, "fetching") =>
          /\ lock = c
          /\ calls[c].call.polygon \in Polygons
          /\ sources[calls[c].call.polygon] = Nothing
    /\ phase # "supervisor" => AllIdle

(* A result shows the shared sources, if its tool reads any.               *)
StepsFit ==
    \A s \in trace :
        /\ s.shows # Nothing => s.call.polygon \in Polygons /\ s.shows = sources[s.call.polygon]
        /\ s.event = "tool_end" /\ Known(s.call) /\ ReadsSources(s.call) => s.shows # Nothing

CandidateFits ==
    /\ phase \in {"supervisor", "assessor"} => candidate = Nothing
    /\ phase \in {"verifier", "review", "dds_writer", "finish"} => candidate # Nothing
    /\ candidate # Nothing =>
          sources[Plot] # Nothing /\ candidate = AssessRecord(record, sources[Plot])

VerificationFits ==
    /\ phase \in {"supervisor", "assessor", "verifier", "review"} => verification = Nothing
    /\ phase \in {"dds_writer", "finish"} => verification # Nothing
    /\ phase = "review" => Rederived /\ Covered
    /\ phase = "dds_writer" => verification.accepted

WriterFits ==
    /\ phase \notin {"finish", "ended"} => writer = Nothing
    /\ phase = "finish" => (writer # Nothing <=> verification.accepted)
    /\ writer # Nothing =>
          /\ candidate # Nothing /\ Rederived /\ Covered
          /\ writer = "withheld" <=> candidate.run_state = "awaiting_review"

ResultFits == phase # "ended" => result = Unfinished("running")

GInv == /\ TypeOK /\ CallsFit /\ StepsFit
        /\ CandidateFits /\ VerificationFits /\ WriterFits /\ ResultFits
        /\ GateStands /\ OutcomeAgrees

LEMMA InitGInv == Init => GInv
  BY GraphAssumption
     DEF Init, GInv, TypeOK, CallsFit, StepsFit, CandidateFits, VerificationFits, WriterFits,
         ResultFits, GateStands, OutcomeAgrees, Unfinished, At, AllIdle

LEMMA StepType ==
  ASSUME NEW call \in Calls, NEW event \in {"tool_start", "tool_end"},
         NEW shows \in Sources \cup {Nothing}
  PROVE  StepFor(call, event, shows) \in [event : {"tool_start", "tool_end"}, call : Calls,
                                          shows : Sources \cup {Nothing}]
  BY DEF StepFor

LEMMA CallType ==
  ASSUME TypeOK, NEW c \in Slots, calls[c] # Nothing
  PROVE  calls[c] \in Underway /\ calls[c].call \in Calls
  BY DEF TypeOK, Underway

(* A polygon that a call may read sources of is known.                     *)
LEMMA KnownPolygon ==
  ASSUME NEW call, Known(call), ReadsSources(call)
  PROVE  call.polygon \in Polygons
  BY DEF Known, ReadsSources

LEMMA ReviewErrors ==
  ASSUME NEW review \in Reviews
  PROVE  {c.kind : c \in {d \in review.challenges : Vetoes(d)}} \in SUBSET Kinds
  BY GraphAssumption DEF Challenge

LEMMA ReportType ==
  ASSUME NEW errors \in SUBSET Kinds, NEW review \in Reviews \cup {Nothing}
  PROVE  /\ Report(errors, review) \in Reports
         /\ Report(errors, review) # Nothing
         /\ Report(errors, review).accepted <=> errors = {}
         /\ Report(errors, review).errors = errors
         /\ Report(errors, review).review = review
<1>1. Report(errors, review) \in Reports
  BY DEF Report, Reports
<1>2. Nothing \notin Reports
  BY GraphAssumption
<1> QED
  BY <1>1, <1>2 DEF Report

LEMMA TypeStep == TypeOK /\ CallsFit /\ CandidateFits /\ [Next]_vars => TypeOK'
<1> SUFFICES ASSUME TypeOK, CallsFit, CandidateFits, [Next]_vars PROVE TypeOK'
  OBVIOUS
<1> USE GraphAssumption DEF TypeOK
<1>1. ASSUME NEW c \in Slots, NEW call \in Calls, CallTool(c, call) PROVE TypeOK'
  BY <1>1, StepType DEF CallTool, Underway
<1>2. ASSUME NEW c \in Slots, RefuseCall(c) PROVE TypeOK'
  BY <1>2 DEF RefuseCall
<1>3. ASSUME NEW c \in Slots, ReadDeclared(c) PROVE TypeOK'
  <2>1. calls[c].call \in Calls
    BY <1>3, CallType DEF ReadDeclared, At
  <2> QED
    BY <1>3, <2>1, StepType DEF ReadDeclared, Returns
<1>4. ASSUME NEW c \in Slots, ReadShared(c) PROVE TypeOK'
  <2>1. calls[c].call \in Calls /\ calls[c].call.polygon \in Polygons
    BY <1>4, CallType, KnownPolygon DEF ReadShared, At
  <2> QED
    BY <1>4, <2>1, StepType DEF ReadShared, Returns
<1>5. ASSUME NEW c \in Slots, Acquire(c) PROVE TypeOK'
  <2>1. calls[c] \in Underway
    BY <1>5, CallType DEF Acquire, At
  <2> QED
    BY <1>5, <2>1 DEF Acquire, Underway
<1>6. ASSUME NEW c \in Slots, Acquired(c) PROVE TypeOK'
  <2>1. calls[c].call \in Calls /\ calls[c].call.polygon \in Polygons
    BY <1>6, CallType DEF Acquired, At, CallsFit
  <2>2. PICK got \in Readings[calls[c].call.polygon] :
           /\ sources' = [sources EXCEPT ![calls[c].call.polygon] = got]
           /\ Returns(c, got)
    BY <1>6 DEF Acquired
  <2>3. got \in Sources
    BY <2>1
  <2> QED
    BY <1>6, <2>1, <2>2, <2>3, StepType DEF Acquired, Returns
<1>7. ASSUME NEW c \in Slots, AcquireFails(c) PROVE TypeOK'
  BY <1>7 DEF AcquireFails
<1>8. ASSUME SupervisorEnds PROVE TypeOK'
  BY <1>8 DEF SupervisorEnds
<1>9. ASSUME GraphFails PROVE TypeOK'
  BY <1>9 DEF GraphFails, Unfinished
<1>10. ASSUME Assess PROVE TypeOK'
  <2>1. PICK got \in IF sources[Plot] = Nothing THEN Readings[Plot] ELSE {sources[Plot]} :
           sources' = [sources EXCEPT ![Plot] = got] /\ candidate' = AssessRecord(record, got)
    BY <1>10 DEF Assess
  <2>2. got \in Sources
    BY <2>1
  <2>3. AssessRecord(record, got) \in Assessed
    BY <2>2, AssessedType
  <2> QED
    BY <1>10, <2>1, <2>2, <2>3 DEF Assess
<1>11. ASSUME Check PROVE TypeOK'
  <2>1. Gate \in SUBSET Kinds
    BY DEF Gate, Kinds
  <2>2. Report(Gate, Nothing) \in Reports
    BY <2>1, ReportType
  <2> QED
    BY <1>11, <2>2 DEF Check
<1>12. ASSUME NEW p \in Polygons, InspectClaims(p) PROVE TypeOK'
  BY <1>12 DEF InspectClaims
<1>13. ASSUME NEW review \in Reviews, Review(review) PROVE TypeOK'
  BY <1>13, ReviewErrors DEF Review, Concludes, Report, Reports
<1>14. ASSUME ReviewFails PROVE TypeOK'
  BY <1>14 DEF ReviewFails, Concludes, Report, Reports, Kinds
<1>15. ASSUME Commit PROVE TypeOK'
  BY <1>15 DEF Commit
<1>16. ASSUME Finish PROVE TypeOK'
  BY <1>16 DEF Finish, Closed, Unfinished
<1>17. ASSUME Resume PROVE TypeOK'
  BY <1>17 DEF Resume
<1>18. ASSUME UNCHANGED vars PROVE TypeOK'
  BY <1>18 DEF vars
<1> QED
  BY <1>1, <1>2, <1>3, <1>4, <1>5, <1>6, <1>7, <1>8, <1>9, <1>10, <1>11, <1>12, <1>13,
     <1>14, <1>15, <1>16, <1>17, <1>18 DEF Next

(* A tool call is under way in the supervisor's phase only.                *)
LEMMA BusyPhase ==
  ASSUME CallsFit, NEW c \in Slots, calls[c] # Nothing
  PROVE  phase = "supervisor"
  BY DEF CallsFit, AllIdle

LEMMA CallsStep == TypeOK /\ CallsFit /\ [Next]_vars => CallsFit'
<1> SUFFICES ASSUME TypeOK, CallsFit, [Next]_vars PROVE CallsFit'
  OBVIOUS
<1> USE GraphAssumption DEF TypeOK, CallsFit, At, AllIdle
<1>1. ASSUME NEW c \in Slots, NEW call \in Calls, CallTool(c, call) PROVE CallsFit'
  BY <1>1 DEF CallTool
<1>2. ASSUME NEW c \in Slots, RefuseCall(c) PROVE CallsFit'
  BY <1>2 DEF RefuseCall
<1>3. ASSUME NEW c \in Slots, ReadDeclared(c) PROVE CallsFit'
  BY <1>3 DEF ReadDeclared, Returns
<1>4. ASSUME NEW c \in Slots, ReadShared(c) PROVE CallsFit'
  BY <1>4 DEF ReadShared, Returns
<1>5. ASSUME NEW c \in Slots, Acquire(c) PROVE CallsFit'
  <2>1. calls[c].call.polygon \in Polygons
    BY <1>5, KnownPolygon DEF Acquire
  <2>2. calls' = [calls EXCEPT ![c] = [calls[c] EXCEPT !.stage = "fetching"]]
    BY <1>5 DEF Acquire
  <2>3. calls[c] \in Underway
    BY <1>5, CallType DEF Acquire
  <2>4. calls'[c].call = calls[c].call
    BY <2>2, <2>3 DEF Underway
  <2>5. \A d \in Slots \ {c} : calls'[d] = calls[d] /\ ~At(d, "fetching")
    BY <1>5, <2>2 DEF Acquire
  <2> QED
    BY <1>5, <2>1, <2>4, <2>5, BusyPhase DEF Acquire
<1>6. ASSUME NEW c \in Slots, Acquired(c) PROVE CallsFit'
  <2>1. \A d \in Slots \ {c} : ~At(d, "fetching")
    BY <1>6 DEF Acquired
  <2> QED
    BY <1>6, <2>1 DEF Acquired, Returns
<1>7. ASSUME NEW c \in Slots, AcquireFails(c) PROVE CallsFit'
  <2>1. \A d \in Slots \ {c} : ~At(d, "fetching")
    BY <1>7 DEF AcquireFails
  <2> QED
    BY <1>7, <2>1 DEF AcquireFails
<1>8. CASE SupervisorEnds
  BY <1>8 DEF SupervisorEnds
<1>9. CASE GraphFails
  BY <1>9 DEF GraphFails
<1>10. CASE Assess
  BY <1>10 DEF Assess
<1>11. CASE Check
  BY <1>11 DEF Check
<1>12. ASSUME NEW p \in Polygons, InspectClaims(p) PROVE CallsFit'
  BY <1>12 DEF InspectClaims
<1>13. ASSUME NEW review \in Reviews, Review(review) PROVE CallsFit'
  BY <1>13 DEF Review, Concludes
<1>14. CASE ReviewFails
  BY <1>14 DEF ReviewFails, Concludes
<1>15. CASE Commit
  BY <1>15 DEF Commit
<1>16. CASE Finish
  BY <1>16 DEF Finish
<1>17. CASE Resume
  BY <1>17 DEF Resume
<1>18. CASE UNCHANGED vars
  BY <1>18 DEF vars
<1> QED
  BY <1>1, <1>2, <1>3, <1>4, <1>5, <1>6, <1>7, <1>8, <1>9, <1>10, <1>11, <1>12, <1>13,
     <1>14, <1>15, <1>16, <1>17, <1>18 DEF Next

(* Sources once shared stay as they are.                                   *)
LEMMA SourcesStay ==
  TypeOK /\ CallsFit /\ [Next]_vars =>
      \A p \in Polygons : sources[p] # Nothing => sources'[p] = sources[p]
<1> SUFFICES ASSUME TypeOK, CallsFit, [Next]_vars,
                    NEW p \in Polygons, sources[p] # Nothing
             PROVE  sources'[p] = sources[p]
  OBVIOUS
<1>1. CASE sources' = sources
  BY <1>1
<1>2. ASSUME NEW c \in Slots, Acquired(c) PROVE sources'[p] = sources[p]
  BY <1>2 DEF Acquired, CallsFit, TypeOK
<1>3. CASE Assess
  BY <1>3 DEF Assess, TypeOK
<1>4. ASSUME NEW q \in Polygons, InspectClaims(q) PROVE sources'[p] = sources[p]
  BY <1>4 DEF InspectClaims, TypeOK
<1> QED
  BY <1>1, <1>2, <1>3, <1>4
     DEF Next, vars, CallTool, RefuseCall, ReadDeclared, ReadShared, Acquire, AcquireFails,
         SupervisorEnds, GraphFails, Check, Review, ReviewFails, Concludes, Commit, Finish, Resume

(* The steps a tool action adds, the rest of the trace stays.              *)
LEMMA StepsStep == TypeOK /\ CallsFit /\ StepsFit /\ [Next]_vars => StepsFit'
<1> DEFINE Fits(s) ==
       /\ s.shows # Nothing => s.call.polygon \in Polygons /\ s.shows = sources'[s.call.polygon]
       /\ s.event = "tool_end" /\ Known(s.call) /\ ReadsSources(s.call) => s.shows # Nothing
<1> SUFFICES ASSUME TypeOK, CallsFit, StepsFit, [Next]_vars, NEW s \in trace'
             PROVE  Fits(s)
  BY DEF StepsFit
<1>1. ASSUME s \in trace PROVE Fits(s)
  BY <1>1, SourcesStay DEF StepsFit
<1>2. ASSUME NEW c \in Slots, NEW call \in Calls, CallTool(c, call), s \notin trace PROVE Fits(s)
  BY <1>2 DEF CallTool, StepFor
<1>3. ASSUME NEW c \in Slots, ReadDeclared(c), s \notin trace PROVE Fits(s)
  BY <1>3 DEF ReadDeclared, Returns, StepFor
<1>4. ASSUME NEW c \in Slots, ReadShared(c), s \notin trace PROVE Fits(s)
  BY <1>4, KnownPolygon DEF ReadShared, Returns, StepFor
<1>5. ASSUME NEW c \in Slots, Acquired(c), s \notin trace PROVE Fits(s)
  <2>1. calls[c].call.polygon \in Polygons
    BY <1>5 DEF Acquired, CallsFit
  <2>2. PICK got \in Readings[calls[c].call.polygon] :
           /\ sources' = [sources EXCEPT ![calls[c].call.polygon] = got]
           /\ Returns(c, got)
    BY <1>5 DEF Acquired
  <2>3. got # Nothing
    BY <2>1, GraphAssumption
  <2> QED
    BY <1>5, <2>1, <2>2, <2>3 DEF Returns, StepFor, TypeOK
<1>6. CASE trace' = trace
  BY <1>1, <1>6
<1> QED
  BY <1>1, <1>2, <1>3, <1>4, <1>5, <1>6
     DEF Next, vars, RefuseCall, Acquire, AcquireFails, SupervisorEnds, GraphFails, Assess, Check,
         InspectClaims, Review, ReviewFails, Concludes, Commit, Finish, Resume

(* The part of GInv about the nodes after the supervisor.                  *)
NodesFit == CandidateFits /\ VerificationFits /\ WriterFits /\ ResultFits
                /\ GateStands /\ OutcomeAgrees

(* What a step that leaves trace, candidate and scored sources alone keeps *)
LEMMA GateStays ==
  ASSUME trace' = trace, candidate' = candidate, record' = record, sources'[Plot] = sources[Plot]
  PROVE  (Rederived <=> Rederived') /\ (Covered <=> Covered')
  BY DEF Rederived, Covered, Recorded, RightIds

(* Before anything is scored there is nothing to keep.                     *)
LEMMA NothingYet ==
  ASSUME candidate' = Nothing, verification' = Nothing, writer' = Nothing,
         result' = Unfinished("running"), phase' \in {"supervisor", "assessor"}
  PROVE  NodesFit'
  BY DEF NodesFit, CandidateFits, VerificationFits, WriterFits, ResultFits, GateStands, OutcomeAgrees

LEMMA NodesStep == TypeOK /\ CallsFit /\ NodesFit /\ [Next]_vars => NodesFit'
<1> SUFFICES ASSUME TypeOK, CallsFit, NodesFit, [Next]_vars PROVE NodesFit'
  OBVIOUS
<1>0. /\ CandidateFits /\ VerificationFits /\ WriterFits /\ ResultFits
      /\ GateStands /\ OutcomeAgrees
  BY DEF NodesFit
<1>s. sources[Plot] # Nothing => sources'[Plot] = sources[Plot]
  BY SourcesStay, GraphAssumption
<1>1. ASSUME NEW c \in Slots,
             \/ \E call \in Calls : CallTool(c, call)
             \/ RefuseCall(c) \/ ReadDeclared(c) \/ ReadShared(c)
             \/ Acquire(c) \/ Acquired(c) \/ AcquireFails(c)
      PROVE  NodesFit'
  <2>1. phase = "supervisor"
    BY <1>1, BusyPhase
       DEF CallTool, RefuseCall, ReadDeclared, ReadShared, Acquire, Acquired, AcquireFails, At
  <2>2. /\ phase' = phase /\ candidate' = candidate /\ verification' = verification
        /\ writer' = writer /\ result' = result
    BY <1>1 DEF CallTool, RefuseCall, ReadDeclared, ReadShared, Acquire, Acquired, AcquireFails
  <2> QED
    BY <1>0, <2>1, <2>2, NothingYet DEF CandidateFits, VerificationFits, WriterFits, ResultFits
<1>2. CASE SupervisorEnds
  BY <1>0, <1>2, NothingYet
     DEF SupervisorEnds, CandidateFits, VerificationFits, WriterFits, ResultFits
<1>3. CASE GraphFails
  <2>1. writer' = Nothing /\ verification' = Nothing /\ candidate' = candidate
    BY <1>0, <1>3 DEF GraphFails, WriterFits, VerificationFits
  <2> QED
    BY <1>0, <1>3, <2>1
       DEF GraphFails, NodesFit, CandidateFits, VerificationFits, WriterFits, ResultFits,
           GateStands, OutcomeAgrees, Unfinished
<1>4. CASE Assess
  <2>1. PICK got \in IF sources[Plot] = Nothing THEN Readings[Plot] ELSE {sources[Plot]} :
           sources' = [sources EXCEPT ![Plot] = got] /\ candidate' = AssessRecord(record, got)
    BY <1>4 DEF Assess
  <2>2. got \in Sources
    BY <2>1, GraphAssumption DEF TypeOK
  <2>3. AssessRecord(record, got) # Nothing
    BY <2>2, AssessedType, GraphAssumption DEF TypeOK
  <2>4. sources'[Plot] = got /\ got # Nothing /\ record' = record
    BY <1>4, <2>1, <2>2, GraphAssumption DEF Assess, TypeOK
  <2>5. /\ phase' = "verifier" /\ verification' = Nothing /\ writer' = Nothing
        /\ result' = Unfinished("running")
    BY <1>0, <1>4 DEF Assess, VerificationFits, WriterFits, ResultFits
  <2> QED
    BY <2>1, <2>3, <2>4, <2>5
       DEF NodesFit, CandidateFits, VerificationFits, WriterFits, ResultFits, GateStands, OutcomeAgrees
<1>5. CASE Check
  <2>1. /\ (Rederived <=> Rederived') /\ (Covered <=> Covered')
        /\ candidate' = candidate /\ record' = record /\ sources' = sources
    BY <1>5, GateStays DEF Check
  <2>2. writer' = Nothing /\ result' = Unfinished("running")
    BY <1>0, <1>5 DEF Check, WriterFits, ResultFits
  <2>3. Gate = {} <=> Rederived /\ Covered
    BY DEF Gate
  <2>4. CandidateFits'
    BY <1>0, <1>5, <2>1 DEF Check, CandidateFits
  <2>5. CASE Gate = {}
    <3>1. phase' = "review" /\ verification' = Nothing
      BY <1>0, <1>5, <2>5 DEF Check, VerificationFits
    <3> QED
      BY <2>1, <2>2, <2>3, <2>4, <2>5, <3>1
         DEF NodesFit, VerificationFits, WriterFits, ResultFits, GateStands, OutcomeAgrees
  <2>6. CASE Gate # {}
    <3>1. phase' = "finish" /\ verification' = Report(Gate, Nothing)
      BY <1>5, <2>6 DEF Check
    <3>2. Report(Gate, Nothing) # Nothing
      <4>1. Gate \in SUBSET Kinds
        BY DEF Gate, Kinds
      <4> QED
        BY <4>1, ReportType
    <3>3. ~verification'.accepted /\ verification'.errors # {} /\ verification' # Nothing
      BY <2>6, <3>1, <3>2 DEF Report
    <3> QED
      BY <2>1, <2>2, <2>3, <2>4, <2>6, <3>1, <3>3
         DEF NodesFit, VerificationFits, WriterFits, ResultFits, GateStands, OutcomeAgrees
  <2> QED
    BY <2>5, <2>6
<1>6. ASSUME NEW p \in Polygons, InspectClaims(p) PROVE NodesFit'
  <2>1. sources'[Plot] = sources[Plot] /\ sources[Plot] # Nothing
    BY <1>0, <1>6, <1>s DEF InspectClaims, CandidateFits
  <2>2. /\ phase' = "review" /\ phase = "review" /\ trace' = trace /\ record' = record
        /\ candidate' = candidate /\ verification' = verification
        /\ writer' = writer /\ result' = result
    BY <1>6 DEF InspectClaims
  <2>3. (Rederived <=> Rederived') /\ (Covered <=> Covered')
    BY <2>1, <2>2, GateStays
  <2> QED
    BY <1>0, <2>1, <2>2, <2>3
       DEF NodesFit, CandidateFits, VerificationFits, WriterFits, ResultFits, GateStands, OutcomeAgrees
<1>7. ASSUME NEW errors \in SUBSET Kinds, NEW review \in Reviews \cup {Nothing},
             Concludes(Report(errors, review)),
             errors # {} => \/ review = Nothing /\ errors = {"llm_review"}
                            \/ \E c \in review.challenges : c.severity = "error" /\ c.cites = {"ledger"}
      PROVE  NodesFit'
  <2>1. /\ phase = "review" /\ trace' = trace /\ record' = record /\ sources' = sources
        /\ candidate' = candidate /\ writer' = Nothing /\ result' = Unfinished("running")
        /\ verification' = Report(errors, review)
        /\ phase' = IF errors = {} THEN "dds_writer" ELSE "finish"
    BY <1>0, <1>7 DEF Concludes, WriterFits, ResultFits, Report
  <2>2. Rederived' /\ Covered'
    BY <1>0, <2>1, GateStays DEF VerificationFits
  <2>3. verification' # Nothing /\ verification'.errors = errors /\ verification'.review = review
           /\ (verification'.accepted <=> errors = {})
    BY <2>1, ReportType
  <2>4. CandidateFits'
    BY <1>0, <2>1 DEF CandidateFits
  <2> QED
    BY <1>7, <2>1, <2>2, <2>3, <2>4
       DEF NodesFit, VerificationFits, WriterFits, ResultFits, GateStands, OutcomeAgrees
<1>8. ASSUME NEW review \in Reviews, Review(review) PROVE NodesFit'
  <2> DEFINE errors == {c.kind : c \in {d \in review.challenges : Vetoes(d)}}
  <2>1. errors \in SUBSET Kinds
    BY ReviewErrors
  <2>2. errors # {} => \E c \in review.challenges : c.severity = "error" /\ c.cites = {"ledger"}
    BY DEF Vetoes
  <2>3. Concludes(Report(errors, review))
    BY <1>8 DEF Review
  <2> HIDE DEF errors
  <2> QED
    BY <1>7, <2>1, <2>2, <2>3
<1>9. CASE ReviewFails
  <2>1. {"llm_review"} \in SUBSET Kinds
    BY DEF Kinds
  <2> QED
    BY <1>7, <1>9, <2>1 DEF ReviewFails
<1>10. CASE Commit
  <2>1. /\ phase = "dds_writer" /\ phase' = "finish" /\ trace' = trace /\ record' = record
        /\ sources' = sources /\ candidate' = candidate /\ verification' = verification
        /\ result' = Unfinished("running")
        /\ writer' = IF candidate.run_state = "awaiting_review" THEN "withheld" ELSE "released"
    BY <1>0, <1>10 DEF Commit, ResultFits
  <2>2. (Rederived <=> Rederived') /\ (Covered <=> Covered')
    BY <2>1, GateStays
  <2>3. writer' # Nothing /\ verification # Nothing /\ verification.accepted
           /\ candidate # Nothing /\ Rederived /\ Covered
    BY <1>0, <2>1, GraphAssumption DEF VerificationFits, CandidateFits, GateStands
  <2> QED
    BY <1>0, <2>1, <2>2, <2>3
       DEF NodesFit, CandidateFits, VerificationFits, WriterFits, ResultFits, GateStands, OutcomeAgrees
<1>11. CASE Finish
  <2>1. /\ phase = "finish" /\ phase' = "ended" /\ trace' = trace /\ record' = record
        /\ sources' = sources /\ candidate' = candidate /\ verification' = verification
        /\ writer' = writer
        /\ result' = IF candidate # Nothing /\ verification # Nothing /\ verification.accepted
                     THEN Closed(candidate) ELSE Unfinished("failed")
    BY <1>11 DEF Finish
  <2>2. (Rederived <=> Rederived') /\ (Covered <=> Covered')
    BY <2>1, GateStays
  <2>3. candidate # Nothing /\ verification # Nothing /\ (writer # Nothing <=> verification.accepted)
    BY <1>0, <2>1 DEF CandidateFits, VerificationFits, WriterFits
  <2>4. CandidateFits' /\ VerificationFits' /\ WriterFits' /\ ResultFits' /\ GateStands'
    BY <1>0, <2>1, <2>2
       DEF CandidateFits, VerificationFits, WriterFits, ResultFits, GateStands
  <2>5. OutcomeAgrees'
    <3>1. CASE ~verification.accepted
      BY <2>1, <2>3, <3>1 DEF OutcomeAgrees, Unfinished
    <3>2. CASE verification.accepted /\ candidate.run_state = "awaiting_review"
      <4>1. result' = [state |-> "awaiting_review", assessment |-> Nothing, pending |-> candidate,
                       reviewed |-> FALSE]
        BY <2>1, <2>3, <3>2 DEF Closed, Unfinished
      <4>2. writer = "withheld"
        BY <1>0, <2>3, <3>2 DEF WriterFits
      <4> QED
        BY <2>1, <2>3, <4>1, <4>2, GraphAssumption DEF OutcomeAgrees
    <3>3. CASE verification.accepted /\ candidate.run_state # "awaiting_review"
      <4>1. result' = [state |-> "complete", assessment |-> candidate, pending |-> Nothing,
                       reviewed |-> FALSE]
        BY <2>1, <2>3, <3>3 DEF Closed, Unfinished
      <4>2. writer = "released"
        BY <1>0, <2>3, <3>3 DEF WriterFits, TypeOK
      <4> QED
        BY <2>1, <2>3, <4>1, <4>2, GraphAssumption DEF OutcomeAgrees
    <3> QED
      BY <3>1, <3>2, <3>3
  <2> QED
    BY <2>4, <2>5 DEF NodesFit
<1>12. CASE Resume
  <2>1. phase = "ended" /\ phase' = "ended"
    BY <1>0, <1>12 DEF Resume, ResultFits, Unfinished
  <2>2. /\ trace' = trace /\ record' = record /\ sources' = sources /\ candidate' = candidate
        /\ verification' = verification /\ writer' = writer
        /\ result' = [state |-> "complete", assessment |-> result.pending, pending |-> Nothing,
                      reviewed |-> TRUE]
    BY <1>12 DEF Resume
  <2>3. result.pending # Nothing /\ result.pending = candidate /\ writer = "withheld"
    BY <1>0, <1>12, <2>1 DEF Resume, OutcomeAgrees
  <2>4. (Rederived <=> Rederived') /\ (Covered <=> Covered')
    BY <2>2, GateStays
  <2>5. CandidateFits' /\ VerificationFits' /\ WriterFits' /\ ResultFits' /\ GateStands'
    BY <1>0, <2>1, <2>2, <2>4
       DEF CandidateFits, VerificationFits, WriterFits, ResultFits, GateStands
  <2>6. OutcomeAgrees'
    BY <2>2, <2>3, GraphAssumption DEF OutcomeAgrees
  <2> QED
    BY <2>5, <2>6 DEF NodesFit
<1>13. CASE UNCHANGED vars
  BY <1>0, <1>13
     DEF vars, NodesFit, CandidateFits, VerificationFits, WriterFits, ResultFits, GateStands,
         OutcomeAgrees, Rederived, Covered, Recorded, RightIds
<1> QED
  BY <1>1, <1>2, <1>3, <1>4, <1>5, <1>6, <1>8, <1>9, <1>10, <1>11, <1>12, <1>13 DEF Next

THEOREM GraphInvariant == Spec => []GInv
<1>1. GInv /\ [Next]_vars => GInv'
  BY TypeStep, CallsStep, StepsStep, NodesStep DEF GInv, NodesFit
<1> QED
  BY InitGInv, <1>1, PTL DEF Spec

-----------------------------------------------------------------------------
(* What the runs check, for every value of the constants.                  *)

(* Every variable of a run has its type, the score 0..100 among them.      *)
THEOREM TypeCorrect == Spec => []TypeOK
<1>1. GInv => TypeOK
  BY DEF GInv
<1> QED
  BY GraphInvariant, <1>1, PTL

(* Concurrent tool calls, the assessor and the verifier share one snapshot *)
THEOREM OneSnapshotHolds == Spec => []OneSnapshot
<1>1. GInv => OneSnapshot
  BY DEF GInv, OneSnapshot, StepsFit, CandidateFits
<1> QED
  BY GraphInvariant, <1>1, PTL

(* The model's review can neither accept nor reject on its own.            *)
THEOREM GateStandsHolds == Spec => []GateStands
<1>1. GInv => GateStands
  BY DEF GInv
<1> QED
  BY GraphInvariant, <1>1, PTL

(* The writer's report and the run's state agree.                          *)
THEOREM OutcomeAgreesHolds == Spec => []OutcomeAgrees
<1>1. GInv => OutcomeAgrees
  BY DEF GInv
<1> QED
  BY GraphInvariant, <1>1, PTL

(* No DDS is written before a complete investigation of the scored data.   *)
THEOREM InvestigatedFirst == Spec => []InvestigatedBeforeWrite
<1>1. ASSUME GInv, writer # Nothing
      PROVE  /\ \E s \in trace : /\ s.event = "tool_end"
                                 /\ s.call.tool = "get_legality_record"
                                 /\ s.call.supplier = Supplier
             /\ \A tool \in {"get_tree_cover_loss", "get_fire_hotspots"}
                                \cup RequiredDeepDives(candidate) :
                   \E s \in trace : /\ s.call.tool = tool /\ s.call.polygon = Plot
                                    /\ s.shows # Nothing
                                    /\ candidate = AssessRecord(record, s.shows)
  <2>1. Covered /\ candidate = AssessRecord(record, sources[Plot])
    BY <1>1 DEF GInv, WriterFits, CandidateFits
  <2>2. \A s \in trace : s.event # "tool_start" => s.event = "tool_end"
    BY <1>1 DEF GInv, TypeOK
  <2>3. PICK s \in trace : /\ s.event # "tool_start" /\ s.call.tool = "get_legality_record"
                           /\ RightIds(s.call)
    BY <2>1 DEF Covered, Recorded, BaselineTools
  <2>4. s.event = "tool_end" /\ s.call.supplier = Supplier
    BY <2>2, <2>3 DEF RightIds, SupplierTools
  <2>5. ASSUME NEW tool \in {"get_tree_cover_loss", "get_fire_hotspots"}
                               \cup RequiredDeepDives(candidate)
        PROVE  \E t \in trace : /\ t.call.tool = tool /\ t.call.polygon = Plot
                                /\ t.shows # Nothing
                                /\ candidate = AssessRecord(record, t.shows)
    <3>1. tool \in PolygonTools /\ tool \in BaselineTools \cup RequiredDeepDives(candidate)
      BY DEF PolygonTools, BaselineTools, RequiredDeepDives, DeepDives
    <3>2. PICK t \in trace : t.event # "tool_start" /\ t.call.tool = tool /\ RightIds(t.call)
      BY <2>1, <3>1 DEF Covered, Recorded
    <3>3. t.call.polygon = Plot
      BY <3>1, <3>2 DEF RightIds
    <3>4. Known(t.call) /\ ReadsSources(t.call)
      BY <3>1, <3>2, <3>3, GraphAssumption
         DEF Known, ReadsSources, RightIds, SupplierTools, Supplier, PolygonTools, DeepDives
    <3>5. t.shows # Nothing /\ t.shows = sources[Plot]
      BY <1>1, <2>2, <3>2, <3>3, <3>4 DEF GInv, StepsFit
    <3> QED
      BY <2>1, <3>2, <3>3, <3>5
  <2> QED
    BY <2>3, <2>4, <2>5
<1>2. GInv => InvestigatedBeforeWrite
  BY <1>1 DEF InvestigatedBeforeWrite
<1> QED
  BY GraphInvariant, <1>2, PTL

(* Nothing completes without a person unless it is spotless.               *)
THEOREM ReleasesOnlySpotless == Spec => []ReleasedIsSpotless
<1>1. ASSUME GInv, result.state = "complete", ~result.reviewed
      PROVE  Spotless(record, sources[Plot])
  <2>1. phase = "ended"
    BY <1>1 DEF GInv, ResultFits, Unfinished
  <2>2. result.assessment # Nothing
    BY <1>1, <2>1 DEF GInv, OutcomeAgrees
  <2>3. writer = "released"
    BY <1>1, <2>1, <2>2 DEF GInv, OutcomeAgrees
  <2>4. candidate # Nothing /\ candidate.run_state # "awaiting_review"
    BY <1>1, <2>3, GraphAssumption DEF GInv, WriterFits
  <2>5. sources[Plot] \in Sources /\ record \in Record
           /\ candidate = AssessRecord(record, sources[Plot])
    BY <1>1, <2>4, GraphAssumption DEF GInv, TypeOK, CandidateFits
  <2>6. Verdict(record, sources[Plot]) = "compliant"
    BY <2>4, <2>5 DEF AssessRecord, StateForVerdict
  <2> QED
    BY <2>5, <2>6, CompliantIsSpotless
<1>2. GInv => ReleasedIsSpotless
  BY <1>1 DEF ReleasedIsSpotless
<1> QED
  BY GraphInvariant, <1>2, PTL

(* A certificate neither releases a record nor is needed to release one.   *)
THEOREM CertificateReleasesNothingHolds == Spec => []CertificateReleasesNothing
<1>1. ASSUME GInv, candidate # Nothing, NEW certified \in BOOLEAN
      PROVE  Verdict([record EXCEPT !.certified = certified], sources[Plot]) = "compliant"
                <=> candidate.verdict = "compliant"
  <2>1. sources[Plot] \in Sources /\ record \in Record
           /\ candidate = AssessRecord(record, sources[Plot])
    BY <1>1, GraphAssumption DEF GInv, TypeOK, CandidateFits
  <2> QED
    BY <2>1, CertificateIsNeutral DEF AssessRecord
<1>2. GInv => CertificateReleasesNothing
  BY <1>1 DEF CertificateReleasesNothing
<1> QED
  BY GraphInvariant, <1>2, PTL

(* The screening signals announce every deep dive the gate will require.   *)
THEOREM SignalsCoverDeepDivesHolds == Spec => []SignalsCoverDeepDives
<1>1. ASSUME GInv, candidate # Nothing, RequiredDeepDives(candidate) # {}
      PROVE  ScreeningSignals(sources[Plot]) # {}
  <2>1. sources[Plot] \in Sources /\ record \in Record
           /\ candidate = AssessRecord(record, sources[Plot])
    BY <1>1, GraphAssumption DEF GInv, TypeOK, CandidateFits
  <2> QED
    BY <1>1, <2>1, SignalsCover
<1>2. GInv => SignalsCoverDeepDives
  BY <1>1 DEF SignalsCoverDeepDives
<1> QED
  BY GraphInvariant, <1>2, PTL
=============================================================================
