------------------------------ MODULE Dossier ------------------------------
(***************************************************************************)
(* From a declared plot to its due diligence statement, as functions: what *)
(* intake accepts (core/intake.py), which evidence a record and the        *)
(* answers of the sources leave in the ledger (core/evidence.py) and which *)
(* statement is built from it, citing every field (core/dds.py).           *)
(*                                                                         *)
(* Areas are naturals in units of 0.00001 ha, one digit more than intake   *)
(* keeps.  A geometry is its type, its measured area and at most one flaw. *)
(* The text of a claim is left out: its value is the tuple of what         *)
(* determines it (the record, the operator profile, the source's answer).  *)
(***************************************************************************)
EXTENDS Integers, FiniteSets, Sequences, SequencesExt

None == "none"
NoArea == 0

\* What intake is given for a plot.  A submission has a country (PlotInput);
\* records older than that field have none.  A permit may lack its number.
Plots ==
  [geometry : [type : STRING, area : Nat, flaw : STRING], declared : Nat,
   country : STRING \ {None}, wellFormed : BOOLEAN,
   permit : STRING, permitNumber : BOOLEAN]

\* What the sources answer for it: 0 for no answer.
Answers == LET Answer == [value : Nat, cached : BOOLEAN]
           IN  [loss : Answer, hotspots : Answer, layers : Answer]

POINT_MAX_HA == 400000
MIN_AREA_HA == 1000
MAX_AREA_HA == 1000000000
POINT_PLOT_MAX_HA == 400000

PlotTypes == {"Polygon", "MultiPolygon", "Point"}

\* Flaws intake finds in what was submitted, and those of the geometry it
\* derives for the sources (the circle around a declared point).
GeometryFlaws == {"unreadable", "empty", "outOfBounds", "tooManyVertices",
                  "invalid", "antimeridian", "holes", "tooThin"}
QueryFlaws == {"queryCrosses", "queryInvalid"}

IsPoint(s) == s.geometry.type = "Point"

\* Area of the plot: what is declared for a point, what is measured else.
PlotArea(s) == IF IsPoint(s) THEN s.declared ELSE s.geometry.area

\* round(area, 4)
Rounded(area) == ((area + 5) \div 10) * 10

\* What no plot may be, whoever measured it.
Unusable(s) == s.geometry.flaw \in GeometryFlaws \/ s.geometry.type \notin PlotTypes

\* A point may stand for a small plot only.
TooWideNever(s) == FALSE   \* a mutant
TooWide(s) == IsPoint(s) /\ s.declared > POINT_MAX_HA

GeometryRefused(s) ==
  \/ Unusable(s)
  \/ IsPoint(s) /\ s.declared = NoArea
  \/ TooWide(s)
  \/ s.geometry.flaw \in QueryFlaws
  \/ PlotArea(s) < MIN_AREA_HA
  \/ PlotArea(s) > MAX_AREA_HA

PermitRefused(s) == s.permit # None /\ ~s.permitNumber

\* Intake objects to the models' field constraints, then to the geometry,
\* then to the permit; which of them it names is left out.
Refused(s) == ~s.wellFormed \/ GeometryRefused(s) \/ PermitRefused(s)

Accepted(s) == ~Refused(s)

\* build_submitted_record: the sources are asked about the circle around a
\* point, and the point itself is kept beside it.  measured is a history
\* field: the area before it was rounded, which no later step can see.
SubmittedRecord(s, id) ==
  [id |-> id, country |-> s.country,
   measured |-> PlotArea(s), area |-> Rounded(PlotArea(s)),
   geometry |-> [type |-> IF IsPoint(s) THEN "Polygon" ELSE s.geometry.type,
                 flaw |-> s.geometry.flaw],
   input |-> IF IsPoint(s) THEN "Point" ELSE None,
   provenance |-> "supplier_declared", synthetic |-> FALSE, unit |-> FALSE]

\* A record of the committed seed batch.
SeedRecord(id) ==
  [id |-> id, country |-> "ID", measured |-> 25 * POINT_MAX_HA, area |-> 25 * POINT_MAX_HA,
   geometry |-> [type |-> "Polygon", flaw |-> None], input |-> None,
   provenance |-> "synthetic", synthetic |-> TRUE, unit |-> TRUE]

\* A record submitted before countries were asked for: its payload has none.
LegacyRecord(id) ==
  SubmittedRecord([geometry |-> [type |-> "Polygon", flaw |-> None, area |-> 25 * POINT_MAX_HA],
                   declared |-> NoArea, country |-> None], id)

---------------------------------------------------------------------------
(* The ledger.                                                             *)

\* The operator profile: 0 is the synthetic one of the seed.
OperatorSynthetic(operator) == operator = 0

Entry(claim, value, source, provenance, synthetic, cached) ==
  [claim |-> claim, value |-> value, source |-> source,
   provenance |-> provenance, synthetic |-> synthetic, cached |-> cached]

\* What the evidence id hashes.
EvidenceId(e) == [claim |-> e.claim, value |-> e.value, source |-> e.source,
                  provenance |-> e.provenance]

ParcelEntries(r) ==
  LET declared == r.provenance = "synthetic"
      parcel(claim, provenance, synthetic) ==
        Entry(claim, <<r.id>>, "concession", provenance, synthetic, FALSE)
  IN  {parcel("parcel.geometry", r.provenance, declared),
       parcel("parcel.area_ha", IF r.input = "Point" THEN r.provenance ELSE "derived", FALSE),
       parcel("parcel.centroid", "derived", FALSE),
       parcel("parcel.country", r.provenance, declared)}
      \cup IF r.input = "Point" THEN {parcel("parcel.query_geometry", "derived", FALSE)} ELSE {}

\* A source that did not answer leaves no entry.  The value of a layer is
\* its dump without the cached flag and the time of the fetch.
LayerValueDumpedWhole(answer) ==   \* a mutant
  <<answer.value, IF answer.cached THEN 1 ELSE 0>>
LayerValue(answer) == <<answer.value>>

AnswerEntries(claims, answer, value, source) ==
  IF answer.value = 0 THEN {}
  ELSE {Entry(claim, value, source, "real_source", FALSE, answer.cached) : claim \in claims}

SourceEntries(facts) ==
  AnswerEntries({"loss.total_loss_ha", "loss.by_year"}, facts.loss, <<facts.loss.value>>, "gfw")
  \cup AnswerEntries({"hotspots.detection_count", "hotspots.total_frp", "hotspots.detections"},
                     facts.hotspots, <<facts.hotspots.value>>, "firms")
  \cup AnswerEntries({"context.layers"}, facts.layers, LayerValue(facts.layers), "gfw")

SupplierClaims ==
  {"supplier.identifiers", "supplier.name", "supplier.permit_status",
   "supplier.permit_expiry", "supplier.declared_holder",
   "supplier.concession_area_ha", "supplier.hgu_pbp", "supplier.sanctions",
   "supplier.certifications", "supplier.beneficial_owners"}

ConsignmentClaims ==
  {"consignment.description", "consignment.hs_heading", "consignment.net_weight_kg",
   "consignment.measure", "consignment.species", "consignment.production_place",
   "consignment.harvest_year"}

OperatorClaims ==
  {"operator.name", "operator.identifier", "operator.address", "operator.activity",
   "operator.contact"}

DeclaredEntries(r, operator) ==
  {Entry(claim, <<r.id>>, "legality", r.provenance, r.synthetic, FALSE) : claim \in SupplierClaims}
  \cup {Entry(claim, <<r.id>>, "consignment", r.provenance, r.synthetic, FALSE) :
          claim \in ConsignmentClaims}
  \cup {Entry(claim, <<operator>>, "operator",
              IF OperatorSynthetic(operator) THEN "synthetic" ELSE "operator_configured",
              OperatorSynthetic(operator), FALSE) : claim \in OperatorClaims}

\* What assess adds: its result depends on the record and what the sources
\* answered, never on how they were reached.  (One assessment date.)
RubricEntries(in) ==
  LET result == <<in.record.id, in.facts.loss.value, in.facts.hotspots.value, in.facts.layers.value>>
  IN  {Entry("assessment.date", << >>, "rubric", "derived", FALSE, FALSE)}
      \cup {Entry(claim, result, "rubric", "derived", FALSE, FALSE) :
              claim \in {"rubric.score", "rubric.verdict"}}

Ledger(in) ==
  ParcelEntries(in.record) \cup SourceEntries(in.facts)
  \cup DeclaredEntries(in.record, in.operator) \cup RubricEntries(in)

EvidenceIds(in) == {EvidenceId(e) : e \in Ledger(in)}

---------------------------------------------------------------------------
(* The statement.                                                          *)

\* The ledger claim each field of the statement cites.
CitedClaim ==
  [internalReferenceNumber |-> "supplier.identifiers",
   activityType |-> "operator.activity",
   countryOfActivity |-> "operator.activity",
   borderCrossCountry |-> "operator.activity",
   operatorName |-> "operator.name",
   operatorReferenceNumber |-> "operator.identifier",
   operatorAddress |-> "operator.address",
   operatorContact |-> "operator.contact",
   descriptionOfGoods |-> "consignment.description",
   netWeight |-> "consignment.measure",
   supplementaryUnit |-> "consignment.measure",
   hsHeading |-> "consignment.hs_heading",
   speciesInfo |-> "consignment.species",
   producerName |-> "supplier.name",
   producerCountry |-> "parcel.country",
   productionPlace |-> "consignment.production_place",
   geometryGeojson |-> "parcel.geometry",
   geoLocationConfidential |-> "rubric.verdict",
   score |-> "rubric.score",
   verdict |-> "rubric.verdict"]

Citations(in) ==
  LET ledger == Ledger(in)
  IN  [field \in DOMAIN CitedClaim |->
         {EvidenceId(e) : e \in {x \in ledger : x.claim = CitedClaim[field]}}]

\* The assessment's fields and the production place (inside the GeoJSON)
\* are not elements of the request sent to the Information System.
Rendered(in) ==
  DOMAIN CitedClaim \ ({"score", "verdict", "productionPlace"}
                       \cup IF in.record.unit THEN {} ELSE {"supplementaryUnit"})

RequiredClaims == DOMAIN CitedClaim \ {"supplementaryUnit"}

\* The builder's own checks of the geometry; holes, emptiness and validity
\* are those of intake, seen again.
GeometryPayload(r) ==
  IF r.area > POINT_PLOT_MAX_HA
  THEN [type |-> r.geometry.type, derived |-> r.input = "Point"]
  ELSE [type |-> "Point", derived |-> FALSE]

Unbuildable(in) ==
  \/ in.record.country = None
  \/ in.record.geometry.flaw \in {"unreadable", "empty", "invalid", "holes"}
  \/ in.record.area > POINT_PLOT_MAX_HA /\ in.record.geometry.type \notin PlotTypes \ {"Point"}

Uncited(in) ==
  LET citations == Citations(in)
  IN  {field \in RequiredClaims : citations[field] = {}}

\* assess_record returns a document or raises.
Declarable(in) == ~Unbuildable(in) /\ Uncited(in) = {}

Synthetic(in) == in.record.synthetic \/ OperatorSynthetic(in.operator)

\* assess_record: the document, with the evidence it cites.
Document(in) ==
  [geometry |-> GeometryPayload(in.record), citations |-> Citations(in),
   synthetic |-> Synthetic(in)]
=============================================================================
